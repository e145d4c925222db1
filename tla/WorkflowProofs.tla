--------------------------- MODULE WorkflowProofs ---------------------------
(***************************************************************************)
(* What is proved of the runner for every set of items, scope, chain table *)
(* and catalogue of answers.                                               *)
(***************************************************************************)
EXTENDS Workflow, FailurePolicyProofs

-----------------------------------------------------------------------------
\* A refused answer leaves a well typed anchor.
LEMMA PriorType ==
    ASSUME obs \in Outcome, NEW class, NEW default \in Records \cup {NoData}
    PROVE  PriorOf(class, default) \in Records \cup {NoData}
  BY RecordPayload DEF PriorOf

-----------------------------------------------------------------------------
\* Type correctness.

\* One, two and three consecutive transitions: when every one of them is listed
\* the run is in the last state, and in any case the types are kept.
LEMMA MoveOne ==
    ASSUME NEW a \in RunStates, state \in RunStates, fault \in Faults, MoveTo(<<a>>)
    PROVE  /\ state' \in RunStates
           /\ fault' \in Faults
           /\ CanMove(state, a) => state' = a /\ fault' = fault
  BY DEF MoveTo, Legal, Faults

LEMMA MoveTwo ==
    ASSUME NEW a \in RunStates, NEW b \in RunStates,
           state \in RunStates, fault \in Faults, MoveTo(<<a, b>>)
    PROVE  /\ state' \in RunStates
           /\ fault' \in Faults
           /\ CanMove(state, a) /\ CanMove(a, b) => state' = b /\ fault' = fault
  BY DEF MoveTo, Legal, Faults

LEMMA MoveThree ==
    ASSUME NEW a \in RunStates, NEW b \in RunStates, NEW c \in RunStates,
           state \in RunStates, fault \in Faults, MoveTo(<<a, b, c>>)
    PROVE  /\ state' \in RunStates
           /\ fault' \in Faults
           /\ CanMove(state, a) /\ CanMove(a, b) /\ CanMove(b, c)
                 => state' = c /\ fault' = fault
  BY DEF MoveTo, Legal, Faults

\* The locals have their types again when an item is left.
LEMMA LeaveItemType ==
    ASSUME LeaveItem
    PROVE  /\ item' \in Items \cup {NoItem}
           /\ tool' \in Tools
           /\ obs' \in Outcome
           /\ cls' \in FailureClass \cup {NoFailure}
           /\ step' \in Nat
           /\ iterations' \in 0..MaxIterations
           /\ prior' \in Records \cup {NoData}
  BY NoAnswerType DEF LeaveItem, Tools, MaxIterations

\* A record that passes the verifier completes the current item.
LEMMA CompleteType ==
    ASSUME TypeOK, item \in Items, Judged = {}, Complete
    PROVE  /\ items' \in [Items -> ItemStatuses]
           /\ results' \in [Items -> Records \cup {NoData}]
           /\ undo' \in [Items -> SUBSET {"external", "broken", "discard"}]
           /\ attempts' \in [Items -> 0..MaxAttempts]
           /\ dirty' \subseteq Items
           /\ halted' \in BOOLEAN
<1>1. obs.data \in Records
  BY RecordPayload DEF TypeOK, Judged, VerifyProblems
<1>2. QED
  BY <1>1 DEF TypeOK, Complete, ItemStatuses

\* The call starts well typed.
LEMMA TypeInit ==
    ASSUME Init
    PROVE  TypeOK
<1> USE RunAssumption
<1>1. undo \in [Items -> SUBSET {"external", "broken", "discard"}]
  <2>1. {{}} \cup {{c} : c \in Registered} \subseteq SUBSET {"external", "broken", "discard"}
    BY RunAssumption
  <2>2. QED
    BY <2>1 DEF Init
<1>2. "PLANNED" \in RunStates
  BY DEF RunStates, WorkflowTransitions
<1>3. items \in [Items -> ItemStatuses] /\ results \in [Items -> Records \cup {NoData}]
  BY DEF Init, ItemStatuses
<1>4. attempts \in [Items -> 0..MaxAttempts] /\ iterations \in 0..MaxIterations
  BY DEF Init, MaxIterations
<1>5. QED
  BY <1>1, <1>2, <1>3, <1>4, NoAnswerType DEF Init, TypeOK, Reports, Faults, Tools

\* Every step keeps the types.
LEMMA TypeStep ==
    ASSUME TypeOK, [Next]_vars
    PROVE  TypeOK'
<1> USE RunAssumption
<1> USE MoveOne, MoveTwo, MoveThree DEF TypeOK
<1>0. {"RUNNING", "ACTION_PENDING", "OBSERVING", "SUCCESS", "FAILURE", "CLASSIFYING",
       "RECOVERY_SELECTED", "VERIFYING", "VERIFIED", "RECOVERY_FAILED", "RESUMED",
       "ESCALATED", "FROZEN", "COMPLETED"} \subseteq RunStates
  BY DEF RunStates, WorkflowTransitions
<1>1. CASE Start
  BY <1>1, <1>0 DEF Start, runVars, localVars, Pending
<1>2. ASSUME NEW i \in Items, BeginItem(i)
      PROVE  TypeOK'
  BY <1>2, <1>0 DEF BeginItem, runVars
<1>3. CASE Finish
  BY <1>3, <1>0 DEF Finish, runVars, localVars, Reports
<1>4. CASE FetchPrimary
  BY <1>4, <1>0 DEF FetchPrimary, runVars, Faults
<1>5. CASE ObserveNonDict
  BY <1>5 DEF ObserveNonDict, runVars, localVars, Faults
<1>6. CASE AcceptPrimary
  BY <1>6, <1>0, LeaveItemType, CompleteType DEF AcceptPrimary, InItem
<1>7. CASE RejectPrimary
  BY <1>7, <1>0, ClassifyClass, VerifyClass, PriorType DEF RejectPrimary, runVars, MaxIterations
<1>8. ASSUME item \in Items, GiveUp, attempts' \in [Items -> 0..MaxAttempts]
      PROVE  TypeOK'
  BY <1>8, <1>0, LeaveItemType DEF GiveUp, ItemStatuses
<1>9. CASE RecoveryBound
  BY <1>9, <1>8 DEF RecoveryBound, AtLoopHead, InItem
<1>10. CASE Escalate
  BY <1>10, <1>8 DEF Escalate, AtLoopHead, InItem
<1>11. CASE Freeze
  BY <1>11, <1>0, LeaveItemType DEF Freeze, AtLoopHead, InItem, ItemStatuses
<1>12. CASE SelectRecovery
  BY <1>12, <1>0 DEF SelectRecovery, runVars, MaxIterations
<1>13. CASE SkipStep
  BY <1>13, <1>0 DEF SkipStep, runVars
<1>14. CASE RollBack
  BY <1>14, <1>0, LeaveItemType DEF RollBack, InItem, RunCompensations, ItemStatuses
<1>15. CASE RollBackFails
  BY <1>15, <1>0 DEF RollBackFails, InItem, RunCompensations
<1>16. ~Exhausted /\ item \in Items => [attempts EXCEPT ![item] = @ + 1] \in [Items -> 0..MaxAttempts]
  BY DEF Exhausted
<1>17. CASE RecoveryBlocked
  BY <1>17, <1>8, <1>16 DEF RecoveryBlocked, InItem
<1>18. CASE RecoveryCall
  BY <1>18, <1>0, <1>16 DEF RecoveryCall, InItem, Tools, ToolFor, Substitute
<1>19. CASE AcceptRecovery
  <2>1. Judged = {}
    BY <1>19 DEF AcceptRecovery, JudgedRecovery
  <2>2. QED
    BY <1>19, <2>1, <1>0, LeaveItemType, CompleteType DEF AcceptRecovery, InItem
<1>20. CASE RejectRecovery
  BY <1>20, <1>0, PriorType DEF RejectRecovery, runVars
<1>21. CASE ExpireEnvelope
  BY <1>21 DEF ExpireEnvelope, runVars, localVars
<1>22. CASE UNCHANGED vars
  BY <1>22 DEF vars, runVars, localVars
<1>23. QED
  BY <1>1, <1>2, <1>3, <1>4, <1>5, <1>6, <1>7, <1>9, <1>10, <1>11, <1>12, <1>13,
     <1>14, <1>15, <1>17, <1>18, <1>19, <1>20, <1>21, <1>22
  DEF Next, Step, Terminated

\* Every variable keeps its type: attempts within the envelope's bound and
\* iterations within the paranoia bound, for every chain table.
THEOREM TypeCorrect == Spec => []TypeOK
<1>1. Init => TypeOK
  BY TypeInit
<1>2. TypeOK /\ [Next]_vars => TypeOK'
  BY TypeStep
<1>3. QED
  BY <1>1, <1>2, PTL DEF Spec

-----------------------------------------------------------------------------
\* The inductive invariant.

\* The states in which an item is being worked on, and those between two items.
ItemStates == {"ACTION_PENDING", "OBSERVING", "CLASSIFYING", "RECOVERY_SELECTED",
               "VERIFYING", "RECOVERY_FAILED"}
LoopStates == {"PLANNED", "RUNNING", "RESUMED", "FROZEN", "COMPLETED"}

\* Where the run is: the run state tells whether an item is in hand, so every
\* transition the code asks for starts from a state that lists it.
ControlInv ==
    /\ fault # "illegal_transition"
    /\ item # NoItem => /\ state \in ItemStates
                        /\ items[item] = "PENDING"
                        /\ item \notin todo
                        /\ report = "none"
    /\ item = NoItem => state \in LoopStates
    /\ state = "PLANNED" => report = "none" /\ fault = "none" /\ todo = {}
    /\ state = "COMPLETED" => report = "COMPLETED"

\* What halts the run: the frozen item, the flag and the state go together.
HaltInv ==
    /\ halted <=> state = "FROZEN"
    /\ halted <=> \E i \in Items : items[i] = "FROZEN"
    /\ \A i, j \in Items : items[i] = "FROZEN" /\ items[j] = "FROZEN" => i = j

\* What has been achieved: results belong to completed items and are admissible,
\* and whatever is still to be visited is unfinished.
DataInv ==
    /\ \A i \in todo : items[i] = "PENDING"
    /\ \A i \in Items : results[i] # NoData =>
                         items[i] = "COMPLETED" /\ results[i] \in Admissible[i]

\* Which answers may be judged in a recovery: those of tools in the scope.
ScopeInv == state = "VERIFYING" => tool \in Scope

IInv == TypeOK /\ ControlInv /\ HaltInv /\ DataInv /\ ScopeInv

\* The transitions the code relies on are in the workflow table.
LEMMA TableRows ==
    /\ CanMove("PLANNED", "RUNNING")
    /\ CanMove("RUNNING", "ACTION_PENDING") /\ CanMove("RESUMED", "ACTION_PENDING")
    /\ CanMove("RUNNING", "COMPLETED") /\ CanMove("RESUMED", "COMPLETED")
    /\ CanMove("ACTION_PENDING", "OBSERVING")
    /\ CanMove("OBSERVING", "SUCCESS") /\ CanMove("SUCCESS", "RESUMED")
    /\ CanMove("OBSERVING", "FAILURE") /\ CanMove("FAILURE", "CLASSIFYING")
    /\ \A s \in {"CLASSIFYING", "RECOVERY_FAILED"} :
          CanMove(s, "RECOVERY_SELECTED") /\ CanMove(s, "ESCALATED") /\ CanMove(s, "FROZEN")
    /\ CanMove("RECOVERY_SELECTED", "ESCALATED") /\ CanMove("ESCALATED", "RESUMED")
    /\ CanMove("RECOVERY_SELECTED", "VERIFYING")
    /\ CanMove("VERIFYING", "RECOVERY_FAILED")
    /\ CanMove("VERIFYING", "VERIFIED") /\ CanMove("VERIFIED", "RESUMED")
    /\ CanMove("FROZEN", "FROZEN")
  BY DEF CanMove, WorkflowTransitions

\* So no action of the runner is refused a transition, and each ends where the
\* code expects it to.
LEMMA Effects ==
    ASSUME IInv
    PROVE  /\ Start => state' = "RUNNING" /\ fault' = fault
           /\ \A i \in Items : BeginItem(i) => state' = "ACTION_PENDING" /\ fault' = fault
           /\ Finish => /\ fault' = fault
                        /\ halted => state' = "FROZEN" /\ report' = "FROZEN"
                        /\ ~halted => \/ state' = state /\ report' # "COMPLETED"
                                      \/ state' = "COMPLETED" /\ report' = "COMPLETED"
           /\ FetchPrimary => \/ state' = "OBSERVING" /\ fault' = fault
                              \/ state' = state /\ fault' = "tool_raised"
           /\ AcceptPrimary \/ AcceptRecovery => state' = "RESUMED" /\ fault' = fault
           /\ RejectPrimary => state' = "CLASSIFYING" /\ fault' = fault
           /\ RecoveryBound \/ Escalate \/ RecoveryBlocked => state' = "RESUMED" /\ fault' = fault
           /\ Freeze => state' = "FROZEN" /\ fault' = fault
           /\ SelectRecovery => state' = "RECOVERY_SELECTED" /\ fault' = fault
           /\ SkipStep \/ RollBackFails \/ RejectRecovery
                 => state' = "RECOVERY_FAILED" /\ fault' = fault
           /\ RollBack => state' = "RESUMED" /\ fault' = fault
           /\ RecoveryCall => state' = "VERIFYING" /\ fault' = fault
<1> USE MoveOne, MoveTwo, MoveThree, TableRows
<1>0. {"RUNNING", "ACTION_PENDING", "OBSERVING", "SUCCESS", "FAILURE", "CLASSIFYING",
       "RECOVERY_SELECTED", "VERIFYING", "VERIFIED", "RECOVERY_FAILED", "RESUMED",
       "ESCALATED", "FROZEN", "COMPLETED"} \subseteq RunStates
  BY DEF RunStates, WorkflowTransitions
<1>1. state \in RunStates /\ fault \in Faults
  BY DEF IInv, TypeOK
<1>2. Start => state' = "RUNNING" /\ fault' = fault
  BY <1>0, <1>1 DEF Start
<1>3. ASSUME Running, item = NoItem, ~halted
      PROVE  state \in {"RUNNING", "RESUMED"}
  BY <1>3 DEF Running, IInv, ControlInv, HaltInv, LoopStates
<1>4. \A i \in Items : BeginItem(i) => state' = "ACTION_PENDING" /\ fault' = fault
  BY <1>0, <1>1, <1>3 DEF BeginItem
<1>5. Finish => /\ fault' = fault
                /\ halted => state' = "FROZEN" /\ report' = "FROZEN"
                /\ ~halted => \/ state' = state /\ report' # "COMPLETED"
                              \/ state' = "COMPLETED" /\ report' = "COMPLETED"
  BY <1>0, <1>1, <1>3 DEF Finish, IInv, HaltInv
<1>6. FetchPrimary => \/ state' = "OBSERVING" /\ fault' = fault
                      \/ state' = state /\ fault' = "tool_raised"
  BY <1>0, <1>1 DEF FetchPrimary, InItem
<1>7. AcceptPrimary \/ AcceptRecovery => state' = "RESUMED" /\ fault' = fault
  BY <1>0, <1>1 DEF AcceptPrimary, AcceptRecovery, InItem
<1>8. RejectPrimary => state' = "CLASSIFYING" /\ fault' = fault
  BY <1>0, <1>1 DEF RejectPrimary, InItem
<1>9. RecoveryBound \/ Escalate \/ RecoveryBlocked => state' = "RESUMED" /\ fault' = fault
  BY <1>0, <1>1 DEF RecoveryBound, Escalate, RecoveryBlocked, GiveUp, AtLoopHead, InItem
<1>10. Freeze => state' = "FROZEN" /\ fault' = fault
  BY <1>0, <1>1 DEF Freeze, AtLoopHead, InItem
<1>11. SelectRecovery => state' = "RECOVERY_SELECTED" /\ fault' = fault
  BY <1>0, <1>1 DEF SelectRecovery, AtLoopHead, InItem
<1>12. SkipStep \/ RollBackFails \/ RejectRecovery
          => state' = "RECOVERY_FAILED" /\ fault' = fault
  BY <1>0, <1>1 DEF SkipStep, RollBackFails, RejectRecovery, InItem
<1>13. RollBack => state' = "RESUMED" /\ fault' = fault
  BY <1>0, <1>1 DEF RollBack, InItem
<1>14. RecoveryCall => state' = "VERIFYING" /\ fault' = fault
  BY <1>0, <1>1 DEF RecoveryCall, InItem
<1>15. QED
  BY <1>2, <1>4, <1>5, <1>6, <1>7, <1>8, <1>9, <1>10, <1>11, <1>12, <1>13, <1>14

\* The invariant holds before the call starts.
LEMMA InductiveInit ==
    ASSUME Init
    PROVE  IInv
<1>1. TypeOK
  BY TypeInit
<1>2. ControlInv
  BY DEF Init, ControlInv, LoopStates
<1>3. HaltInv
  BY DEF Init, HaltInv
<1>4. DataInv /\ ScopeInv
  BY DEF Init, DataInv, ScopeInv
<1>5. QED
  BY <1>1, <1>2, <1>3, <1>4 DEF IInv

\* Every step of the runner keeps the run state, the item in hand and the work
\* list together.
LEMMA ControlStep ==
    ASSUME IInv, [Next]_vars
    PROVE  ControlInv'
<1> USE RunAssumption, Effects DEF ControlInv, ItemStates, LoopStates
<1>0. TypeOK /\ ControlInv /\ HaltInv /\ DataInv
  BY DEF IInv
<1>1. CASE Start
  BY <1>0, <1>1 DEF Start, runVars, localVars, TypeOK
<1>2. ASSUME NEW i \in Items, BeginItem(i)
      PROVE  ControlInv'
  BY <1>0, <1>2 DEF BeginItem, Running, runVars, DataInv
<1>3. CASE Finish
  BY <1>0, <1>3 DEF Finish, Running, runVars, localVars, HaltInv
<1>4. CASE FetchPrimary
  BY <1>0, <1>4 DEF FetchPrimary, InItem, Running, runVars
<1>5. CASE ObserveNonDict
  BY <1>0, <1>5 DEF ObserveNonDict, InItem, Running, runVars, localVars
<1>6. CASE AcceptPrimary \/ AcceptRecovery
  BY <1>0, <1>6 DEF AcceptPrimary, AcceptRecovery, LeaveItem, InItem, Running
<1>7. CASE RejectPrimary
  BY <1>0, <1>7 DEF RejectPrimary, InItem, Running, runVars
<1>8. CASE RecoveryBound \/ Escalate \/ RecoveryBlocked
  BY <1>0, <1>8 DEF RecoveryBound, Escalate, RecoveryBlocked, GiveUp, LeaveItem,
                    AtLoopHead, InItem, Running
<1>9. CASE Freeze
  BY <1>0, <1>9 DEF Freeze, LeaveItem, AtLoopHead, InItem, Running
<1>10. CASE SelectRecovery
  BY <1>0, <1>10 DEF SelectRecovery, AtLoopHead, InItem, Running, runVars
<1>11. CASE SkipStep \/ RollBackFails \/ RejectRecovery
  BY <1>0, <1>11 DEF SkipStep, RollBackFails, RejectRecovery, InItem, Running, runVars
<1>12. CASE RollBack
  BY <1>0, <1>12 DEF RollBack, LeaveItem, InItem, Running
<1>13. CASE RecoveryCall
  BY <1>0, <1>13 DEF RecoveryCall, InItem, Running
<1>14. CASE ExpireEnvelope
  BY <1>0, <1>14 DEF ExpireEnvelope, runVars, localVars
<1>15. CASE UNCHANGED vars
  BY <1>0, <1>15 DEF vars, runVars, localVars
<1>16. QED
  BY <1>1, <1>2, <1>3, <1>4, <1>5, <1>6, <1>7, <1>8, <1>9, <1>10, <1>11, <1>12,
     <1>13, <1>14, <1>15 DEF Next, Step, Terminated

\* What an action that neither freezes nor ends the run leaves of HaltInv.
LEMMA HaltKept ==
    ASSUME IInv, item \in Items, state \in ItemStates, halted' = halted,
           state' # "FROZEN", NEW s \in ItemStatuses \ {"FROZEN"},
           items' = items \/ items' = [items EXCEPT ![item] = s]
    PROVE  HaltInv'
<1>1. state # "FROZEN" /\ ~halted /\ \A i \in Items : items[i] # "FROZEN"
  BY DEF IInv, HaltInv, ItemStates
<1>2. \A i \in Items : items'[i] # "FROZEN"
  BY <1>1 DEF IInv, TypeOK
<1>3. QED
  BY <1>1, <1>2 DEF HaltInv

\* Only a frozen item halts the run, and there is never a second one.
LEMMA HaltStep ==
    ASSUME IInv, [Next]_vars
    PROVE  HaltInv'
<1> USE Effects
<1>0. TypeOK /\ ControlInv /\ HaltInv
  BY DEF IInv
<1>a. ASSUME NEW s \in ItemStates, InItem(s)
      PROVE  item \in Items /\ state \in ItemStates
  BY <1>0, <1>a DEF InItem, TypeOK
<1>b. ItemStates = {"ACTION_PENDING", "OBSERVING", "CLASSIFYING", "RECOVERY_SELECTED",
                    "VERIFYING", "RECOVERY_FAILED"}
      /\ {"COMPLETED", "ESCALATED", "PENDING"} \subseteq ItemStatuses \ {"FROZEN"}
  BY DEF ItemStates, ItemStatuses
<1>1. CASE Start
  BY <1>0, <1>1 DEF Start, runVars, HaltInv
<1>2. ASSUME NEW i \in Items, BeginItem(i)
      PROVE  HaltInv'
  BY <1>0, <1>2 DEF BeginItem, runVars, HaltInv
<1>3. CASE Finish
  BY <1>0, <1>3 DEF Finish, runVars, HaltInv
<1>4. CASE FetchPrimary
  BY <1>0, <1>4 DEF FetchPrimary, InItem, runVars, HaltInv
<1>5. CASE ObserveNonDict
  BY <1>0, <1>5 DEF ObserveNonDict, runVars, HaltInv
<1>6. CASE AcceptPrimary \/ AcceptRecovery
  BY <1>6, <1>a, <1>b, HaltKept DEF AcceptPrimary, AcceptRecovery, Complete
<1>7. CASE RejectPrimary \/ SelectRecovery \/ SkipStep \/ RejectRecovery
  BY <1>7, <1>a, <1>b, HaltKept
     DEF RejectPrimary, SelectRecovery, SkipStep, RejectRecovery, AtLoopHead, runVars
<1>8. CASE RecoveryBound \/ Escalate \/ RecoveryBlocked
  BY <1>8, <1>a, <1>b, HaltKept DEF RecoveryBound, Escalate, RecoveryBlocked, GiveUp, AtLoopHead
<1>9. CASE Freeze
  <2>1. item \in Items /\ state \in ItemStates /\ state' = "FROZEN" /\ halted' = TRUE
        /\ items' = [items EXCEPT ![item] = "FROZEN"]
    BY <1>9, <1>a, <1>b DEF Freeze, AtLoopHead
  <2>2. \A i \in Items : items[i] # "FROZEN"
    BY <1>0, <2>1, <1>b DEF HaltInv
  <2>3. QED
    BY <1>0, <2>1, <2>2 DEF HaltInv, TypeOK
<1>10. CASE RollBack \/ RollBackFails \/ RecoveryCall
  BY <1>10, <1>a, <1>b, HaltKept DEF RollBack, RollBackFails, RecoveryCall, RunCompensations
<1>11. CASE ExpireEnvelope
  BY <1>0, <1>11 DEF ExpireEnvelope, runVars, HaltInv
<1>12. CASE UNCHANGED vars
  BY <1>0, <1>12 DEF vars, runVars, HaltInv
<1>13. QED
  BY <1>1, <1>2, <1>3, <1>4, <1>5, <1>6, <1>7, <1>8, <1>9, <1>10, <1>11, <1>12
     DEF Next, Step, Terminated

\* An answer in which the verifier finds no problem is an admissible record.
LEMMA JudgedAdmissible ==
    ASSUME TypeOK, item \in Items, Judged = {}
    PROVE  obs.data \in Admissible[item]
<1>1. IsRecord(obs.data)
  BY DEF Judged, VerifyProblems
<1>2. obs.data \in Records
  BY <1>1, RecordPayload DEF TypeOK
<1>3. obs.data.age = "fresh"
  BY <1>1, "STALE_DATA" \notin Judged DEF Judged, VerifyProblems
<1>4. Expected[item] # {} => obs.data.amount \in Expected[item]
  BY <1>1, "AMOUNT_MISMATCH" \notin Judged DEF Judged, VerifyProblems
<1>5. QED
  BY <1>2, <1>3, <1>4 DEF Admissible

\* The item in hand has no result yet: results belong to completed items.
LEMMA NoResultInHand ==
    ASSUME IInv, item \in Items, state \in ItemStates
    PROVE  items[item] = "PENDING" /\ results[item] = NoData /\ item \notin todo
  BY RunAssumption DEF IInv, ControlInv, DataInv, TypeOK

\* Results stay admissible and owned by completed items, and nothing but
\* unfinished work is left to visit.
LEMMA DataStep ==
    ASSUME IInv, [Next]_vars
    PROVE  DataInv'
<1> USE RunAssumption
<1>0. TypeOK /\ ControlInv /\ DataInv
  BY DEF IInv
<1>a. ASSUME NEW s \in ItemStates, InItem(s)
      PROVE  item \in Items /\ items[item] = "PENDING" /\ results[item] = NoData /\ item \notin todo
  BY <1>0, <1>a, NoResultInHand DEF InItem, TypeOK
<1>b. ItemStates = {"ACTION_PENDING", "OBSERVING", "CLASSIFYING", "RECOVERY_SELECTED",
                    "VERIFYING", "RECOVERY_FAILED"}
  BY DEF ItemStates
<1>1. CASE Start
  BY <1>0, <1>1 DEF Start, runVars, Pending, DataInv
<1>2. ASSUME NEW i \in Items, BeginItem(i)
      PROVE  DataInv'
  BY <1>0, <1>2 DEF BeginItem, runVars, DataInv
<1>3. CASE Finish \/ FetchPrimary \/ ObserveNonDict \/ RejectPrimary \/ SelectRecovery
           \/ SkipStep \/ RejectRecovery \/ ExpireEnvelope \/ UNCHANGED vars
  BY <1>0, <1>3 DEF Finish, FetchPrimary, ObserveNonDict, RejectPrimary, SelectRecovery,
     SkipStep, RejectRecovery, ExpireEnvelope, vars, runVars, DataInv
<1>4. CASE AcceptPrimary \/ AcceptRecovery
  <2>1. item \in Items /\ item \notin todo /\ Judged = {} /\ Complete /\ todo' = todo
    BY <1>4, <1>a, <1>b DEF AcceptPrimary, AcceptRecovery, JudgedRecovery
  <2>2. obs.data \in Admissible[item]
    BY <1>0, <2>1, JudgedAdmissible
  <2>3. QED
    BY <1>0, <2>1, <2>2 DEF Complete, DataInv, TypeOK
<1>5. CASE RecoveryBound \/ Escalate \/ RecoveryBlocked
  BY <1>0, <1>5, <1>a, <1>b DEF RecoveryBound, Escalate, RecoveryBlocked, GiveUp, AtLoopHead,
     DataInv, TypeOK
<1>6. CASE Freeze
  BY <1>0, <1>6, <1>a, <1>b DEF Freeze, AtLoopHead, DataInv, TypeOK
<1>7. CASE RollBack \/ RollBackFails
  <2>1. item \in Items /\ items[item] = "PENDING" /\ results[item] = NoData /\ item \notin todo
    BY <1>7, <1>a, <1>b DEF RollBack, RollBackFails
  <2>2. results' = results /\ todo' = todo
    BY <1>0, <1>7, <2>1 DEF RollBack, RollBackFails, RunCompensations, TypeOK
  <2>3. items' = items
    BY <1>0, <1>7, <2>1 DEF RollBack, RollBackFails, TypeOK
  <2>4. QED
    BY <1>0, <2>2, <2>3 DEF DataInv
<1>8. CASE RecoveryCall
  BY <1>0, <1>8 DEF RecoveryCall, DataInv
<1>9. QED
  BY <1>1, <1>2, <1>3, <1>4, <1>5, <1>6, <1>7, <1>8 DEF Next, Step, Terminated

\* Only an authorised call puts an answer up for judgement.
LEMMA ScopeStep ==
    ASSUME IInv, [Next]_vars
    PROVE  ScopeInv'
<1>1. CASE RecoveryCall
  BY <1>1 DEF RecoveryCall, Authorized, ScopeInv
<1>2. CASE Terminated \/ ExpireEnvelope \/ Finish \/ ObserveNonDict \/ UNCHANGED vars
  BY <1>2, Effects DEF Terminated, ExpireEnvelope, Finish, ObserveNonDict, vars, localVars,
     IInv, ScopeInv
<1>3. CASE FetchPrimary
  BY <1>3, Effects DEF FetchPrimary, IInv, ScopeInv
<1>4. QED
  BY <1>1, <1>2, <1>3, Effects DEF Next, Step, ScopeInv

-----------------------------------------------------------------------------
\* The safety properties the runs check, for every value of the constants.

\* The inductive invariant holds of every reachable state.
THEOREM Inductive == Spec => []IInv
<1>1. Init => IInv
  BY InductiveInit
<1>2. IInv /\ [Next]_vars => IInv'
  <2> SUFFICES ASSUME IInv, [Next]_vars
               PROVE  IInv'
    OBVIOUS
  <2>1. TypeOK'
    BY TypeStep DEF IInv
  <2>2. QED
    BY <2>1, ControlStep, HaltStep, DataStep, ScopeStep DEF IInv
<1>3. QED
  BY <1>1, <1>2, PTL DEF Spec

\* The path of the code through the workflow table is legal, whatever the chains
\* and the answers of the tools: transition_to() never raises.
THEOREM TransitionsLegal == Spec => []NoIllegalTransition
<1>1. IInv => NoIllegalTransition
  BY DEF IInv, ControlInv, NoIllegalTransition
<1>2. QED
  BY <1>1, Inductive, PTL

\* A frozen item halts the run, nothing else does, and the run touches no other
\* item after it.
THEOREM FreezeHalts == Spec => []FrozenHaltsRun
<1>1. IInv => FrozenHaltsRun
  BY DEF IInv, ControlInv, HaltInv, FrozenHaltsRun, ItemStates
<1>2. QED
  BY <1>1, Inductive, PTL

\* Finished items are never worked on again.
THEOREM FinishedStaysFinished == Spec => []OnlyPendingIsWorkedOn
<1>1. IInv => OnlyPendingIsWorkedOn
  BY RunAssumption DEF IInv, TypeOK, ControlInv, DataInv, OnlyPendingIsWorkedOn
<1>2. QED
  BY <1>1, Inductive, PTL

\* Whatever the tools answer, a kept result is a fresh record of the expected
\* amount, and its item is COMPLETED.
THEOREM ResultsAreVerified == Spec => []ResultsVerified
<1>1. IInv => ResultsVerified
  BY DEF IInv, DataInv, Admissible, ResultsVerified
<1>2. QED
  BY <1>1, Inductive, PTL

\* No recovery is judged by the answer of a tool outside the original scope.
THEOREM RecoveryKeepsScope == Spec => []RecoveryStaysInScope
<1>1. IInv => RecoveryStaysInScope
  BY DEF IInv, ScopeInv, RecoveryStaysInScope
<1>2. QED
  BY <1>1, Inductive, PTL

-----------------------------------------------------------------------------
\* The runner implements the abstract job.

\* Every step of the runner is a step of the job or leaves it alone.
LEMMA JobStep ==
    ASSUME IInv, [Next]_vars
    PROVE  [Job!Next]_(Job!vars)
<1> USE RunAssumption, Effects DEF Job!vars
<1>0. TypeOK /\ ControlInv /\ HaltInv /\ DataInv
  BY DEF IInv
<1>a. ASSUME NEW s \in ItemStates, InItem(s)
      PROVE  /\ item \in Items /\ items[item] = "PENDING" /\ results[item] = NoData
             /\ Job!Open /\ ~halted /\ report = "none" /\ fault = "none"
  <2>1. item \in Items /\ state = s /\ state # "FROZEN" /\ Running
    BY <1>0, <1>a DEF InItem, TypeOK, ItemStates
  <2>2. ~halted
    BY <1>0, <2>1 DEF HaltInv
  <2>3. QED
    BY <1>0, <2>1, <2>2, <1>a, NoResultInHand DEF Running, Job!Open
<1>b. ItemStates = {"ACTION_PENDING", "OBSERVING", "CLASSIFYING", "RECOVERY_SELECTED",
                    "VERIFYING", "RECOVERY_FAILED"}
  BY DEF ItemStates
<1>1. CASE Start \/ ExpireEnvelope \/ UNCHANGED vars
  BY <1>1 DEF Start, ExpireEnvelope, vars, runVars
<1>2. ASSUME NEW i \in Items, BeginItem(i)
      PROVE  UNCHANGED Job!vars
  BY <1>2 DEF BeginItem, runVars
<1>3. CASE Finish
  <2>1. Job!Open /\ fault' = fault /\ UNCHANGED <<items, results, halted>>
    BY <1>3 DEF Finish, Running, Job!Open, runVars
  <2>2. report' = Job!Verdict
    <3>1. CASE halted
      BY <1>3, <3>1 DEF Finish, Job!Verdict
    <3>2. CASE ~halted
      BY <1>0, <1>3, <3>2 DEF Finish, Pending, Job!Verdict, TypeOK, ItemStatuses
    <3>3. QED
      BY <3>1, <3>2
  <2>3. QED
    BY <2>1, <2>2 DEF Job!Return, Job!Next
<1>4. CASE FetchPrimary
  <2>1. Job!Open /\ UNCHANGED <<items, results, halted, report>>
    BY <1>4, <1>a, <1>b DEF FetchPrimary, runVars
  <2>2. fault' = fault \/ fault' = "tool_raised"
    BY <1>4
  <2>3. QED
    BY <2>1, <2>2 DEF Job!Raise, Job!Next
<1>5. CASE ObserveNonDict
  BY <1>5, <1>a, <1>b DEF ObserveNonDict, runVars, Job!Raise, Job!Next
<1>6. CASE AcceptPrimary \/ AcceptRecovery
  <2>1. item \in Items /\ Judged = {} /\ Complete /\ Job!Open /\ ~halted
        /\ items[item] = "PENDING" /\ fault' = fault /\ report' = report
    BY <1>6, <1>a, <1>b DEF AcceptPrimary, AcceptRecovery, JudgedRecovery
  <2>2. obs.data \in Admissible[item]
    BY <1>0, <2>1, JudgedAdmissible
  <2>3. Job!Reconcile(item)
    BY <2>1, <2>2 DEF Complete, Job!Reconcile
  <2>4. QED
    BY <2>1, <2>3 DEF Job!Next
<1>7. CASE RejectPrimary \/ SelectRecovery \/ SkipStep \/ RejectRecovery \/ RecoveryCall
  BY <1>7 DEF RejectPrimary, SelectRecovery, SkipStep, RejectRecovery, RecoveryCall, runVars
<1>8. CASE RecoveryBound \/ Escalate \/ RecoveryBlocked
  <2>1. item \in Items /\ Job!HandOver(item)
    BY <1>8, <1>a, <1>b DEF RecoveryBound, Escalate, RecoveryBlocked, GiveUp, AtLoopHead,
       Job!HandOver
  <2>2. QED
    BY <2>1 DEF Job!Next
<1>9. CASE Freeze
  <2>1. item \in Items /\ Job!Halt(item)
    BY <1>9, <1>a, <1>b DEF Freeze, AtLoopHead, Job!Halt
  <2>2. QED
    BY <2>1 DEF Job!Next
<1>10. CASE RollBack \/ RollBackFails
  <2>1. item \in Items /\ items[item] = "PENDING" /\ results[item] = NoData
    BY <1>10, <1>a, <1>b DEF RollBack, RollBackFails
  <2>2. results' = results /\ items' = items
    BY <1>0, <1>10, <2>1 DEF RollBack, RollBackFails, RunCompensations, TypeOK
  <2>3. QED
    BY <1>10, <2>2 DEF RollBack, RollBackFails, RunCompensations
<1>11. QED
  BY <1>1, <1>2, <1>3, <1>4, <1>5, <1>6, <1>7, <1>8, <1>9, <1>10 DEF Next, Step, Terminated

\* The runner implements the abstract job: items leave PENDING one at a time,
\* complete with admissible records only, freeze the run, and are reported as
\* what they became.
THEOREM RunnerImplementsJob == Spec => ImplementsJob
<1>1. Init => Job!Init
  BY DEF Init, Job!Init
<1>2. IInv /\ [Next]_vars => [Job!Next]_(Job!vars)
  BY JobStep
<1>3. QED
  BY <1>1, <1>2, Inductive, PTL DEF Spec, ImplementsJob, Job!Spec

-----------------------------------------------------------------------------
\* The history of an item: what the run still remembers of it.

\* The states in which an item is being recovered, and those of its loop head.
RecoveryStates == {"CLASSIFYING", "RECOVERY_SELECTED", "VERIFYING", "RECOVERY_FAILED"}
ChoiceStates   == {"CLASSIFYING", "RECOVERY_SELECTED", "RECOVERY_FAILED"}

\* Only a recovery has an anchor: none outlives the item it was taken for.
AnchorInv == state \notin RecoveryStates => prior = NoData

\* Whenever an action is chosen, the class in hand is that of the last answer: an
\* answer that rules out another call has a class that does.
ClassInv == state \in ChoiceStates /\ MustNotCallAgain(obs) => cls \in Unrecoverable

\* A PENDING item that is neither still to be visited nor in hand was rolled back.
UndoInv ==
    /\ report # "none" => item = NoItem /\ state # "PLANNED" /\ (halted \/ todo = {})
    /\ \A i \in Items : items[i] = "PENDING" =>
          undo[i] = {} \/ i \in todo \/ i = item \/ state = "PLANNED"

HistoryInv == AnchorInv /\ ClassInv /\ UndoInv

\* The actions that leave the item in hand, and the state they leave behind.
LeavesItem == AcceptPrimary \/ AcceptRecovery \/ RecoveryBound \/ Escalate \/ RecoveryBlocked
              \/ Freeze \/ RollBack

\* An item is left with its locals cleared.
LEMMA Leaves ==
    ASSUME IInv, LeavesItem
    PROVE  /\ state' \in {"RESUMED", "FROZEN"} /\ prior' = NoData /\ item' = NoItem
           /\ item \in Items /\ todo' = todo /\ report' = report /\ report = "none"
           /\ dirty' = dirty /\ fault = "none"
  BY Effects DEF LeavesItem, AcceptPrimary, AcceptRecovery, RecoveryBound, Escalate,
     RecoveryBlocked, Freeze, RollBack, GiveUp, LeaveItem, InItem, AtLoopHead, Running, Complete,
     RunCompensations, IInv, TypeOK

\* An anchor is taken by a refused answer and dropped with the item.
LEMMA AnchorStep ==
    ASSUME IInv, AnchorInv, [Next]_vars
    PROVE  AnchorInv'
<1> USE Effects DEF AnchorInv, RecoveryStates
<1>1. CASE LeavesItem
  BY <1>1, Leaves
<1>2. CASE Start \/ Finish \/ ObserveNonDict \/ ExpireEnvelope \/ UNCHANGED vars
  <2>1. prior' = prior
    BY <1>2 DEF Start, Finish, ObserveNonDict, ExpireEnvelope, vars, localVars
  <2>2. state \in RecoveryStates => state' \in RecoveryStates \/ Finish
    BY <1>2 DEF Start, ObserveNonDict, ExpireEnvelope, vars
  <2>3. Finish => state \notin RecoveryStates
    BY DEF Finish, IInv, ControlInv, LoopStates
  <2>4. QED
    BY <1>2, <2>1, <2>2, <2>3 DEF Start
<1>3. ASSUME NEW i \in Items, BeginItem(i)
      PROVE  AnchorInv'
  BY <1>3 DEF BeginItem, IInv, ControlInv, LoopStates
<1>4. CASE FetchPrimary
  BY <1>4 DEF FetchPrimary, InItem
<1>5. CASE RejectPrimary \/ SelectRecovery \/ SkipStep \/ RollBackFails \/ RecoveryCall
           \/ RejectRecovery
  BY <1>5
<1>6. QED
  BY <1>1, <1>2, <1>3, <1>4, <1>5 DEF Next, Step, Terminated, LeavesItem

\* The tokens of the unrecoverable classes are tried before all others.
LEMMA HardCodes ==
    ASSUME NEW err \in SUBSET (CodedClasses \cup {BlockedToken}),
           \/ err \cap CodedClasses = {}
           \/ err \cap {"AUTHENTICATION", "AUTHORIZATION", "INVALID_INPUT",
                        "CONFLICTING_RESULT"} # {}
    PROVE  CodeOf(err) \in Unrecoverable
<1>1. CASE err \cap CodedClasses = {}
  BY <1>1 DEF CodeOf, Unrecoverable
<1>2. CASE err \cap CodedClasses # {}
  <2> DEFINE First(k) == /\ CodeOrder[k] \in err
                         /\ \A j \in 1..(k - 1) : CodeOrder[j] \notin err
  <2>0. /\ Len(CodeOrder) = 8
        /\ CodeOrder[1] = "AUTHENTICATION" /\ CodeOrder[2] = "AUTHORIZATION"
        /\ CodeOrder[3] = "INVALID_INPUT" /\ CodeOrder[4] = "CONFLICTING_RESULT"
    BY DEF CodeOrder
  <2>1. \E k \in 1..8 : First(k)
    <3>1. CASE CodeOrder[1] \in err
      BY <3>1
    <3>2. CASE CodeOrder[1] \notin err /\ CodeOrder[2] \in err
      BY <3>2
    <3>3. CASE CodeOrder[1] \notin err /\ CodeOrder[2] \notin err /\ CodeOrder[3] \in err
      BY <3>3
    <3>4. CASE /\ CodeOrder[1] \notin err /\ CodeOrder[2] \notin err
               /\ CodeOrder[3] \notin err /\ CodeOrder[4] \in err
      BY <3>4
    <3>5. QED
      BY <1>2, <2>0, <3>1, <3>2, <3>3, <3>4
  <2>2. \A k \in 1..8 : First(k) => k \in 1..4
    BY <1>2, <2>0
  <2>3. (CHOOSE k \in 1..Len(CodeOrder) : First(k)) \in 1..4
    BY <2>0, <2>1, <2>2
  <2>4. \A k \in 1..4 : CodeOrder[k] \in Unrecoverable
    BY <2>0 DEF Unrecoverable
  <2>5. QED
    BY <1>2, <2>3, <2>4 DEF CodeOf
<1>3. QED
  BY <1>1, <1>2

\* An answer that must not be followed by a call is classified as such, whatever
\* other codes it carries.
LEMMA HardAnswer ==
    ASSUME NEW out \in Outcome, MustNotCallAgain(out)
    PROVE  Classify(out) \in Unrecoverable
<1>1. out.data.kind # "junk"
  BY DEF MustNotCallAgain, Outcome, Data, Junk, NoData, Batches, Records
<1>2. CASE ~out.ok
  <2>1. Classify(out) = CodeOf(out.err) /\ out.err \in SUBSET (CodedClasses \cup {BlockedToken})
    BY <1>1, <1>2 DEF MustNotCallAgain, Classify, Outcome
  <2>2. QED
    BY <1>2, <2>1, HardCodes DEF MustNotCallAgain
<1>3. CASE out.ok
  BY <1>1, <1>3 DEF MustNotCallAgain, Classify, Unrecoverable
<1>4. QED
  BY <1>2, <1>3 DEF Outcome

\* The class in hand keeps following the last answer.
LEMMA ClassStep ==
    ASSUME IInv, ClassInv, [Next]_vars
    PROVE  ClassInv'
<1> USE Effects DEF ClassInv, ChoiceStates
<1>0. TypeOK /\ ControlInv /\ NoFailure \notin Unrecoverable
  BY DEF IInv, NoFailure, Unrecoverable
<1>1. CASE LeavesItem
  BY <1>1, Leaves
<1>2. CASE Start \/ FetchPrimary \/ RecoveryCall
  BY <1>2 DEF FetchPrimary, InItem
<1>3. ASSUME NEW i \in Items, BeginItem(i)
      PROVE  ClassInv'
  BY <1>3
<1>4. CASE Finish
  BY <1>0, <1>4 DEF Finish, ControlInv, LoopStates, localVars
<1>5. CASE ObserveNonDict \/ ExpireEnvelope \/ UNCHANGED vars
  BY <1>5 DEF ObserveNonDict, ExpireEnvelope, vars, localVars, MustNotCallAgain
<1>6. CASE RejectPrimary
  <2>1. obs' = obs /\ obs \in Outcome
    BY <1>0, <1>6 DEF RejectPrimary, TypeOK
  <2>2. MustNotCallAgain(obs) => cls' \in Unrecoverable
    BY <1>0, <1>6, <2>1, HardAnswer DEF RejectPrimary
  <2>3. QED
    BY <2>1, <2>2 DEF MustNotCallAgain
<1>7. CASE SelectRecovery \/ SkipStep \/ RollBackFails
  <2>1. obs' = obs /\ cls' = cls /\ state \in ChoiceStates
    BY <1>7 DEF SelectRecovery, SkipStep, RollBackFails, AtLoopHead, InItem
  <2>2. QED
    BY <2>1 DEF MustNotCallAgain
<1>8. CASE RejectRecovery
  <2>1. obs' = obs /\ obs \in Outcome
    BY <1>0, <1>8 DEF RejectRecovery, TypeOK
  <2>2. MustNotCallAgain(obs) => cls' \in Unrecoverable
    BY <1>0, <1>8, <2>1, HardAnswer DEF RejectRecovery
  <2>3. QED
    BY <2>1, <2>2 DEF MustNotCallAgain
<1>9. QED
  BY <1>1, <1>2, <1>3, <1>4, <1>5, <1>6, <1>7, <1>8 DEF Next, Step, Terminated, LeavesItem

\* What remains of an item when it is left: nothing, unless it is no longer PENDING.
LEMMA UndoStep ==
    ASSUME IInv, UndoInv, [Next]_vars
    PROVE  UndoInv'
<1> USE RunAssumption, Effects DEF UndoInv
<1>0. TypeOK /\ ControlInv /\ HaltInv /\ DataInv
  BY DEF IInv
<1>1. CASE Start
  BY <1>0, <1>1 DEF Start, runVars, localVars, ControlInv, Pending
<1>2. ASSUME NEW i \in Items, BeginItem(i)
      PROVE  UndoInv'
  BY <1>0, <1>2 DEF BeginItem, Running, runVars
<1>3. CASE Finish
  BY <1>0, <1>3 DEF Finish, Running, runVars, localVars, TypeOK
<1>4. CASE LeavesItem
  <2>1. /\ item' = NoItem /\ item \in Items /\ todo' = todo /\ report' = report
        /\ report = "none" /\ state # "PLANNED" /\ state' # "PLANNED"
    BY <1>4, Leaves DEF LeavesItem, AcceptPrimary, AcceptRecovery, RecoveryBound, Escalate,
       RecoveryBlocked, Freeze, RollBack, AtLoopHead, InItem, Running
  <2>2. ASSUME NEW i \in Items \ {item}
        PROVE  items'[i] = items[i] /\ undo'[i] = undo[i]
    BY <1>0, <1>4, <2>1, <2>2 DEF LeavesItem, AcceptPrimary, AcceptRecovery, RecoveryBound,
       Escalate, RecoveryBlocked, Freeze, RollBack, GiveUp, Complete, RunCompensations, TypeOK
  <2>3. items'[item] = "PENDING" => undo'[item] = {}
    BY <1>0, <1>4, <2>1 DEF LeavesItem, AcceptPrimary, AcceptRecovery, RecoveryBound,
       Escalate, RecoveryBlocked, Freeze, RollBack, GiveUp, Complete, RunCompensations, TypeOK
  <2>4. QED
    BY <2>1, <2>2, <2>3
<1>5. CASE FetchPrimary \/ RejectPrimary \/ SelectRecovery \/ SkipStep \/ RecoveryCall
           \/ RejectRecovery
  BY <1>5 DEF FetchPrimary, RejectPrimary, SelectRecovery, SkipStep, RecoveryCall,
     RejectRecovery, runVars, AtLoopHead, InItem, Running
<1>6. CASE RollBackFails
  <2>1. item \in Items /\ items' = items /\ item' = item /\ todo' = todo /\ report' = report
        /\ report = "none" /\ state # "PLANNED"
    BY <1>0, <1>6 DEF RollBackFails, InItem, Running, TypeOK
  <2>2. \A i \in Items \ {item} : undo'[i] = undo[i]
    BY <1>0, <1>6, <2>1 DEF RollBackFails, RunCompensations, TypeOK
  <2>3. QED
    BY <1>6, <2>1, <2>2
<1>7. CASE ObserveNonDict \/ ExpireEnvelope \/ UNCHANGED vars
  BY <1>7 DEF ObserveNonDict, ExpireEnvelope, vars, runVars, localVars
<1>8. QED
  BY <1>1, <1>2, <1>3, <1>4, <1>5, <1>6, <1>7 DEF Next, Step, Terminated, LeavesItem

\* The history of the item in hand, in every reachable state and for any chains.
THEOREM HistoryKept == Spec => []HistoryInv
<1>1. Init => HistoryInv
  BY DEF Init, HistoryInv, AnchorInv, ClassInv, UndoInv, ChoiceStates
<1>2. IInv /\ HistoryInv /\ [Next]_vars => HistoryInv'
  BY AnchorStep, ClassStep, UndoStep DEF HistoryInv
<1>3. QED
  BY <1>1, <1>2, Inductive, PTL DEF Spec

\* A record that completes an item during recovery agrees with the record that
\* the recovery is anchored to, whatever the chains and the answers.
THEOREM AnchorsHold == Spec => CompletionAgreesWithAnchor
<1> DEFINE Agrees(i) == /\ results'[i] # results[i]
                        /\ results'[i] # NoData
                        /\ prior # NoData
                        => /\ results'[i].amount = prior.amount
                           /\ results'[i].status = prior.status
           AllAgree == \A i \in Items : Agrees(i)
<1>1. ASSUME IInv, HistoryInv, [Next]_vars, NEW i \in Items
      PROVE  Agrees(i)
  <2>0. TypeOK
    BY <1>1 DEF IInv
  <2>1. CASE AcceptPrimary
    BY <1>1, <2>1 DEF AcceptPrimary, InItem, HistoryInv, AnchorInv, RecoveryStates
  <2>2. CASE AcceptRecovery
    <3>1. results'[i] # results[i] => results'[i] = obs.data
      BY <2>0, <2>2 DEF AcceptRecovery, Complete, TypeOK
    <3>2. prior # NoData => CrossProblems(prior, obs.data) = {}
      BY <2>2 DEF AcceptRecovery, JudgedRecovery
    <3>3. CrossProblems(prior, obs.data) = {}
             => obs.data.amount = prior.amount /\ obs.data.status = prior.status
      BY DEF CrossProblems
    <3>4. QED
      BY <3>1, <3>2, <3>3
  <2>3. CASE RollBack \/ RollBackFails
    BY <2>0, <2>3 DEF RollBack, RollBackFails, RunCompensations, TypeOK
  <2>4. CASE ~(AcceptPrimary \/ AcceptRecovery \/ RollBack \/ RollBackFails)
    <3>1. results' = results
      BY <1>1, <2>4 DEF Next, Step, Terminated, vars, runVars, Start, BeginItem, Finish,
         FetchPrimary, ObserveNonDict, RejectPrimary, RecoveryBound, Escalate, Freeze,
         SelectRecovery, SkipStep, RecoveryBlocked, RecoveryCall, RejectRecovery,
         ExpireEnvelope, GiveUp
    <3>2. QED
      BY <3>1
  <2>5. QED
    BY <2>1, <2>2, <2>3, <2>4
<1>2. IInv /\ HistoryInv /\ [Next]_vars => [AllAgree]_vars
  BY <1>1
<1>3. QED
  BY <1>2, Inductive, HistoryKept, PTL DEF Spec, CompletionAgreesWithAnchor

-----------------------------------------------------------------------------
\* What the run owes to the shape of its chains.  chains_for() and the default
\* chains have both shapes; reconcile_all() takes any chains.

\* The default chains are chains, and have both shapes.
LEMMA DefaultsQualify ==
    /\ NoCallForUnrecoverable(DefaultChains)
    /\ RollbackBeforeEscalate(DefaultChains)
<1>1. NoCallForUnrecoverable(DefaultChains)
  BY DEF NoCallForUnrecoverable, Unrecoverable, DefaultChains, FailureClass
<1>2. ASSUME NEW class \in FailureClass
      PROVE  \A k \in DOMAIN DefaultChains[class] :
                DefaultChains[class][k] = "rollback" /\ k < Len(DefaultChains[class])
                    => DefaultChains[class][k + 1] = "escalate"
  <2>1. CASE class = "PARTIAL_RESULT"
    BY <2>1 DEF DefaultChains, FailureClass
  <2>2. CASE class # "PARTIAL_RESULT"
    BY <2>2 DEF DefaultChains, FailureClass
  <2>3. QED
    BY <2>1, <2>2
<1>3. QED
  BY <1>1, <1>2 DEF RollbackBeforeEscalate, DefaultChains

\* So has the table that is used in the place of an empty one.
LEMMA TableQualifies ==
    /\ IsChains(TableOf(Chains))
    /\ NoCallForUnrecoverable(Chains) => NoCallForUnrecoverable(TableOf(Chains))
    /\ RollbackBeforeEscalate(Chains) => RollbackBeforeEscalate(TableOf(Chains))
<1>1. CASE DOMAIN Chains = {}
  <2>1. IsChains(DefaultChains)
    <3>1. ASSUME NEW class \in FailureClass
          PROVE  DefaultChains[class] \in
                     {<<"retry", "retry", "substitute", "escalate">>,
                      <<"retry", "substitute", "escalate">>, <<"reject", "substitute", "escalate">>,
                      <<"substitute", "escalate">>, <<"retry_remainder", "rollback", "escalate">>,
                      <<"freeze">>, <<"escalate">>, <<"freeze", "escalate">>}
      BY <3>1 DEF DefaultChains, FailureClass
    <3>2. {<<"retry", "retry", "substitute", "escalate">>,
           <<"retry", "substitute", "escalate">>, <<"reject", "substitute", "escalate">>,
           <<"substitute", "escalate">>, <<"retry_remainder", "rollback", "escalate">>,
           <<"freeze">>, <<"escalate">>, <<"freeze", "escalate">>} \subseteq Seq(Actions)
      BY DEF Actions
    <3>3. DOMAIN DefaultChains = FailureClass
      BY DEF DefaultChains
    <3>4. QED
      BY <3>1, <3>2, <3>3 DEF IsChains
  <2>2. QED
    BY <1>1, <2>1, DefaultsQualify DEF TableOf
<1>2. CASE DOMAIN Chains # {}
  BY <1>2, RunAssumption DEF TableOf
<1>3. QED
  BY <1>1, <1>2

\* An unrecoverable class selects no call.
LEMMA NoCallSelected ==
    ASSUME NoCallForUnrecoverable(Chains), step \in Nat, cls \in Unrecoverable
    PROVE  Selected \in {"escalate", "freeze"}
<1> DEFINE table == TableOf(Chains)
<1>1. cls \in DOMAIN table => table[cls] \in Seq(Actions)
  BY TableQualifies DEF IsChains
<1>2. NoCallForUnrecoverable(table)
  BY TableQualifies
<1> HIDE DEF table
<1>3. Selected = LET chain  == IF cls \in DOMAIN table THEN table[cls] ELSE <<"freeze", "escalate">>
                     action == IF step < Len(chain) THEN chain[step + 1] ELSE "escalate"
                 IN  IF action = "substitute" /\ SubstituteCandidates = {} THEN "escalate" ELSE action
  BY DEF Selected, NextAction, ChainOf, table
<1>4. CASE cls \in DOMAIN table
  <2>1. step < Len(table[cls]) => step + 1 \in DOMAIN table[cls]
    BY <1>1, <1>4
  <2>2. QED
    BY <1>2, <1>3, <1>4, <2>1 DEF NoCallForUnrecoverable
<1>5. CASE cls \notin DOMAIN table
  BY <1>3, <1>5
<1>6. QED
  BY <1>4, <1>5

\* No answer that rules out another call is followed by one, whatever other codes
\* it carries and whatever the item was being recovered from.
THEOREM NeverRetries ==
    ASSUME NoCallForUnrecoverable(Chains)
    PROVE  Spec => NeverRetryUnrecoverable
<1>1. ASSUME IInv, HistoryInv, [Next]_vars, attempts' # attempts
      PROVE  ~MustNotCallAgain(obs)
  <2>1. RecoveryBlocked \/ RecoveryCall
    BY <1>1 DEF Next, Step, Terminated, vars, runVars, Start, BeginItem, Finish, FetchPrimary,
       ObserveNonDict, AcceptPrimary, AcceptRecovery, RejectPrimary, RecoveryBound, Escalate,
       Freeze, SelectRecovery, SkipStep, RollBack, RollBackFails, RejectRecovery,
       ExpireEnvelope, Complete, RunCompensations
  <2>2. state = "RECOVERY_SELECTED" /\ Selected \in Calls
    BY <2>1 DEF RecoveryBlocked, RecoveryCall, InItem
  <2>3. step \in Nat
    BY <1>1 DEF IInv, TypeOK
  <2>4. cls \notin Unrecoverable
    BY <2>2, <2>3, NoCallSelected DEF Calls
  <2>5. QED
    BY <1>1, <2>2, <2>4 DEF HistoryInv, ClassInv, ChoiceStates
<1>2. IInv /\ HistoryInv /\ [Next]_vars => [attempts' # attempts => ~MustNotCallAgain(obs)]_vars
  BY <1>1
<1>3. QED
  BY <1>2, Inductive, HistoryKept, PTL DEF Spec, NeverRetryUnrecoverable

\* An item with dirty state is handed over already, or is about to be.
DirtyInv ==
    \A i \in dirty : \/ items[i] = "ESCALATED"
                     \/ i = item /\ state = "RECOVERY_FAILED" /\ Selected = "escalate"

\* After a rollback the chain has nothing left but to hand the item over.
LEMMA EscalatesNext ==
    ASSUME RollbackBeforeEscalate(Chains), TypeOK, RollBackFails
    PROVE  Selected' = "escalate"
<1>1. Selected = "rollback" /\ step' = step + 1 /\ cls' = cls /\ step \in Nat
  BY DEF RollBackFails, TypeOK
<1> DEFINE table == TableOf(Chains)
<1>7. IsChains(table) /\ RollbackBeforeEscalate(table)
  BY TableQualifies
<1>8. /\ ChainOf(Chains, cls) = IF cls \in DOMAIN table THEN table[cls] ELSE <<"freeze", "escalate">>
      /\ ChainOf(Chains, cls') = ChainOf(Chains, cls)
  BY <1>1 DEF ChainOf
<1> HIDE DEF table
<1>2. cls \in DOMAIN table /\ step < Len(table[cls]) /\ table[cls][step + 1] = "rollback"
  BY <1>1, <1>8 DEF Selected, NextAction
<1>3. table[cls] \in Seq(Actions)
  BY <1>2, <1>7 DEF IsChains
<1>4. step + 1 \in DOMAIN table[cls] /\ Len(table[cls]) \in Nat
  BY <1>1, <1>2, <1>3
<1>5. step + 1 < Len(table[cls]) => table[cls][step + 2] = "escalate"
  BY <1>1, <1>2, <1>4, <1>7 DEF RollbackBeforeEscalate
<1>6. QED
  BY <1>1, <1>2, <1>4, <1>5, <1>8 DEF Selected, NextAction

\* No step takes an item with dirty state anywhere but to a human.
LEMMA DirtyStep ==
    ASSUME RollbackBeforeEscalate(Chains), IInv, DirtyInv, [Next]_vars
    PROVE  /\ DirtyInv'
           /\ attempts' # attempts => item \notin dirty
           /\ \A i \in dirty : items'[i] \in {items[i], "ESCALATED"}
<1> USE RunAssumption, Effects DEF DirtyInv
<1>0. TypeOK /\ ControlInv
  BY DEF IInv
<1>1. CASE RollBackFails
  <2>1. /\ item \in Items /\ state' = "RECOVERY_FAILED" /\ items' = items /\ item' = item
        /\ dirty' = dirty \cup {item} /\ attempts' = attempts /\ state = "RECOVERY_SELECTED"
    BY <1>0, <1>1 DEF RollBackFails, RunCompensations, InItem, TypeOK
  <2>2. Selected' = "escalate"
    BY <1>0, <1>1, EscalatesNext
  <2>3. QED
    BY <2>1, <2>2
<1>2. CASE RecoveryBound \/ Escalate
  <2>1. /\ items' = [items EXCEPT ![item] = "ESCALATED"] /\ item \in Items
        /\ dirty' = dirty /\ attempts' = attempts
    BY <1>0, <1>2 DEF RecoveryBound, Escalate, GiveUp, AtLoopHead, InItem, TypeOK
  <2>2. QED
    BY <1>0, <2>1 DEF TypeOK
<1>3. ASSUME ~(state = "RECOVERY_FAILED" /\ Selected = "escalate"), item \in Items,
             items[item] = "PENDING", dirty' = dirty,
             \E s \in ItemStatuses : items' = [items EXCEPT ![item] = s]
      PROVE  /\ DirtyInv'
             /\ item \notin dirty
             /\ \A i \in dirty : items'[i] \in {items[i], "ESCALATED"}
  BY <1>0, <1>3 DEF TypeOK
<1>4. CASE AcceptPrimary \/ AcceptRecovery \/ RecoveryBlocked \/ Freeze \/ RollBack
  <2>1. ~(state = "RECOVERY_FAILED" /\ Selected = "escalate")
    BY <1>4 DEF AcceptPrimary, AcceptRecovery, RecoveryBlocked, Freeze, RollBack, InItem
  <2>2. item \in Items /\ items[item] = "PENDING" /\ dirty' = dirty
    BY <1>0, <1>4 DEF AcceptPrimary, AcceptRecovery, RecoveryBlocked, Freeze, RollBack, InItem,
       AtLoopHead, GiveUp, Complete, TypeOK, ControlInv
  <2>3. \E s \in ItemStatuses : items' = [items EXCEPT ![item] = s]
    BY <1>4 DEF AcceptPrimary, AcceptRecovery, RecoveryBlocked, Freeze, RollBack, GiveUp,
       Complete, ItemStatuses
  <2>4. QED
    BY <1>3, <2>1, <2>2, <2>3
<1>5. CASE RecoveryCall \/ SelectRecovery \/ SkipStep \/ RejectPrimary \/ RejectRecovery
           \/ FetchPrimary
  <2>1. ~(state = "RECOVERY_FAILED" /\ Selected = "escalate")
    BY <1>5 DEF RecoveryCall, SelectRecovery, SkipStep, RejectPrimary, RejectRecovery,
       FetchPrimary, InItem
  <2>2. item \in Items /\ items[item] = "PENDING" /\ dirty' = dirty /\ items' = items
    BY <1>0, <1>5 DEF RecoveryCall, SelectRecovery, SkipStep, RejectPrimary, RejectRecovery,
       FetchPrimary, InItem, AtLoopHead, TypeOK, ControlInv, runVars
  <2>3. items' = [items EXCEPT ![item] = "PENDING"]
    BY <1>0, <2>2 DEF TypeOK
  <2>4. QED
    BY <1>3, <2>1, <2>2, <2>3 DEF ItemStatuses
<1>6. ASSUME NEW i \in Items, BeginItem(i)
      PROVE  /\ DirtyInv'
             /\ attempts' = attempts
             /\ \A j \in dirty : items'[j] \in {items[j], "ESCALATED"}
  BY <1>0, <1>6 DEF BeginItem, runVars, TypeOK
<1>7. CASE Start \/ Finish
  BY <1>0, <1>7 DEF Start, Finish, runVars, localVars, TypeOK
<1>8. CASE ObserveNonDict \/ ExpireEnvelope \/ UNCHANGED vars
  BY <1>8 DEF ObserveNonDict, ExpireEnvelope, vars, runVars, localVars, Selected
<1>9. QED
  BY <1>1, <1>2, <1>4, <1>5, <1>6, <1>7, <1>8 DEF Next, Step, Terminated

\* Where an item with dirty state can be.
THEOREM DirtyTracked ==
    ASSUME RollbackBeforeEscalate(Chains)
    PROVE  Spec => []DirtyInv
<1>1. Init => DirtyInv
  BY DEF Init, DirtyInv
<1>2. IInv /\ DirtyInv /\ [Next]_vars => DirtyInv'
  BY DirtyStep
<1>3. QED
  BY <1>1, <1>2, Inductive, PTL DEF Spec

\* After a failed compensation the item goes to a human: nothing is fetched for it
\* any more, and it neither completes, freezes nor becomes PENDING again.
THEOREM DirtyGoesToAHuman ==
    ASSUME RollbackBeforeEscalate(Chains)
    PROVE  Spec => DirtyIsHandedOver
<1> DEFINE Safe == /\ attempts' # attempts => item \notin dirty
                   /\ \A i \in dirty : items'[i] \in {items[i], "ESCALATED"}
<1>1. IInv /\ DirtyInv /\ [Next]_vars => [Safe]_vars
  BY DirtyStep
<1>2. QED
  BY <1>1, Inductive, DirtyTracked, PTL DEF Spec, DirtyIsHandedOver

\* Nothing is left of an item that is still PENDING when the run returns.
THEOREM PendingItemsAreClean ==
    ASSUME RollbackBeforeEscalate(Chains)
    PROVE  Spec => []PendingIsClean
<1>1. IInv /\ HistoryInv /\ DirtyInv => PendingIsClean
  BY RunAssumption DEF IInv, TypeOK, ControlInv, DataInv, HistoryInv, UndoInv, DirtyInv,
     PendingIsClean, Pending
<1>2. QED
  BY <1>1, Inductive, HistoryKept, DirtyTracked, PTL
=============================================================================
