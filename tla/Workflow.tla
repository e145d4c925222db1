------------------------------ MODULE Workflow ------------------------------
(***************************************************************************)
(* workflows/run.py: one call of reconcile_all() on one WorkflowRun.       *)
(*                                                                         *)
(* The runner drives every PENDING item through action -> observe and,     *)
(* when the observation is refused, through the recovery loop              *)
(*   classify -> select -> (call, roll back or skip) -> verify             *)
(* The run's own `state' field is the program counter; the local variables *)
(* of _reconcile_item() and _recover() are variables here.                 *)
(*                                                                         *)
(* The environment is adversarial: every fetch may answer any member of    *)
(* Answers or raise, and the envelope may expire between any two steps.    *)
(***************************************************************************)
EXTENDS FailurePolicy, FiniteSets

CONSTANTS
    NoItem,        \* the value of `item' between two items
    Scope,         \* the original authority scope (AuthorityScope.tools)
    Adapters,      \* the sources wired besides the primary one
    Chains,        \* recovery chain of each failure class
    MaxAttempts,   \* RecoveryEnvelope.max_attempts
    Expected,      \* the expected amount of each invoice, {} when unknown
    Answers,       \* the outcomes a tool may return
    Registered     \* the compensations a caller may have recorded beforehand

Tools == {"fetch_primary", "fetch_alternate", "fetch_authoritative"}

ASSUME RunAssumption ==
    /\ NoItem \notin Items
    /\ Adapters \subseteq {"alternate", "authoritative"}
    /\ IsChains(Chains)
    /\ MaxAttempts \in Nat
    /\ Expected \in [Items -> SUBSET Amounts]
    /\ Answers \subseteq Outcome
    /\ Registered \subseteq {"external", "broken"}

\* The paranoia bound on the iterations of one recovery loop.
MaxIterations == 12

VARIABLES
    state,       \* WorkflowRun.state
    items,       \* WorkflowRun.items: the status of each item
    attempts,    \* WorkflowRun.attempts
    results,     \* WorkflowRun.results, NoData where there is none
    undo,        \* WorkflowRun.rollback: the compensations of each item
    dirty,       \* items with a ROLLBACK_FAILED event in WorkflowRun.events
    halted,      \* WorkflowRun.halted
    todo,        \* the items the for loop of reconcile_all has still to visit
    item,        \* the item being reconciled, or NoItem
    tool,        \* the tool whose answer is being judged
    obs,         \* that answer, the last one of the current item
    cls,         \* failure_class of the recovery loop
    step,        \* position in the chain of cls
    iterations,  \* iterations of the recovery loop
    prior,       \* prior_valid, NoData standing for None
    expired,     \* the envelope's expires_at has passed
    report,      \* how reconcile_all returned, "none" while it runs
    fault        \* the exception that escaped from it, or "none"

runVars   == <<items, attempts, results, undo, dirty, halted>>
localVars == <<item, tool, obs, cls, step, iterations, prior>>
vars == <<state, runVars, todo, localVars, expired, report, fault>>

-----------------------------------------------------------------------------
\* The workflow state machine.

WorkflowTransitions ==
    [PLANNED           |-> {"RUNNING"},
     RUNNING           |-> {"ACTION_PENDING", "FROZEN", "ESCALATED", "COMPLETED"},
     ACTION_PENDING    |-> {"OBSERVING", "FAILURE"},
     OBSERVING         |-> {"SUCCESS", "FAILURE"},
     SUCCESS           |-> {"RESUMED"},
     FAILURE           |-> {"CLASSIFYING"},
     CLASSIFYING       |-> {"RECOVERY_SELECTED", "ESCALATED", "FROZEN"},
     RECOVERY_SELECTED |-> {"VERIFYING", "ESCALATED", "FROZEN"},
     VERIFYING         |-> {"VERIFIED", "RECOVERY_FAILED"},
     VERIFIED          |-> {"RESUMED"},
     RECOVERY_FAILED   |-> {"RECOVERY_SELECTED", "ESCALATED", "FROZEN"},
     RESUMED           |-> {"ACTION_PENDING", "COMPLETED"},
     ESCALATED         |-> {"RESUMED"},
     FROZEN            |-> {},
     COMPLETED         |-> {}]

RunStates == DOMAIN WorkflowTransitions

\* Mutant: re-entering the current state is checked like any other move.
CanMove_NoStay(from, to) == to \in WorkflowTransitions[from]

\* transition_to(): staying put is a no-op, any other move must be listed.
CanMove(from, to) == from = to \/ to \in WorkflowTransitions[from]

\* Consecutive transition_to() calls.  An illegal one raises, and nothing in
\* reconcile_all catches it: the run is dead, whatever else the step wrote.
Legal(path) ==
    \A k \in 1..Len(path) : CanMove(IF k = 1 THEN state ELSE path[k - 1], path[k])

MoveTo(path) ==
    IF Legal(path)
    THEN state' = path[Len(path)] /\ UNCHANGED fault
    ELSE fault' = "illegal_transition" /\ UNCHANGED state

\* reconcile_all() is on the stack and no exception has left it.
Running == state # "PLANNED" /\ report = "none" /\ fault = "none"
InItem(s) == Running /\ item # NoItem /\ state = s

Pending == {i \in Items : items[i] = "PENDING"}

-----------------------------------------------------------------------------
\* new_run(); a caller may have marked items COMPLETED in a previous pass, and
\* may have recorded compensations for what it did itself.

Init ==
    /\ state = "PLANNED"
    /\ items \in [Items -> {"PENDING", "COMPLETED"}]
    /\ attempts = [i \in Items |-> 0]
    /\ results = [i \in Items |-> NoData]
    /\ undo \in [Items -> {{}} \cup {{c} : c \in Registered}]
    /\ dirty = {}
    /\ halted = FALSE
    /\ todo = {}
    /\ item = NoItem
    /\ tool = "fetch_primary"
    /\ obs = NoAnswer
    /\ cls = NoFailure
    /\ step = 0
    /\ iterations = 0
    /\ prior = NoData
    /\ expired = FALSE
    /\ report = "none"
    /\ fault = "none"

\* The locals of _reconcile_item() and _recover() die when they return.
LeaveItem ==
    /\ item' = NoItem
    /\ tool' = "fetch_primary"
    /\ obs' = NoAnswer
    /\ cls' = NoFailure
    /\ step' = 0
    /\ iterations' = 0
    /\ prior' = NoData

-----------------------------------------------------------------------------
\* reconcile_all()

\* Enter RUNNING and fix the list of items to visit.
Start ==
    /\ state = "PLANNED"
    /\ MoveTo(<<"RUNNING">>)
    /\ todo' = Pending
    /\ UNCHANGED <<runVars, localVars, expired, report>>

\* The next item of the loop, unless the run has been halted.
BeginItem(i) ==
    /\ Running
    /\ item = NoItem
    /\ ~halted
    /\ i \in todo
    /\ MoveTo(<<"ACTION_PENDING">>)
    /\ todo' = todo \ {i}
    /\ item' = i
    /\ UNCHANGED <<runVars, tool, obs, cls, step, iterations, prior, expired, report>>

\* Mutant: a halted run keeps waiting for the items it will never visit.
Finish_WaitsForAll ==
    /\ Running
    /\ item = NoItem
    /\ todo = {}
    /\ IF halted THEN MoveTo(<<"FROZEN">>) ELSE UNCHANGED <<state, fault>>
    /\ report' = IF halted THEN "FROZEN"
                 ELSE IF Pending # {} THEN "INCOMPLETE"
                 ELSE IF \E i \in Items : items[i] = "ESCALATED" THEN "DONE_WITH_ESCALATIONS"
                 ELSE "COMPLETED"
    /\ UNCHANGED <<runVars, todo, localVars, expired>>

\* The loop is over: the report depends on what became of the items.
Finish ==
    /\ Running
    /\ item = NoItem
    /\ halted \/ todo = {}
    /\ \/ /\ halted
          /\ MoveTo(<<"FROZEN">>)
          /\ report' = "FROZEN"
       \/ /\ ~halted
          /\ Pending # {}
          /\ report' = "INCOMPLETE"
          /\ UNCHANGED <<state, fault>>
       \/ /\ ~halted
          /\ Pending = {}
          /\ \E i \in Items : items[i] = "ESCALATED"
          /\ report' = "DONE_WITH_ESCALATIONS"
          /\ UNCHANGED <<state, fault>>
       \/ /\ ~halted
          /\ \A i \in Items : items[i] \notin {"PENDING", "ESCALATED"}
          /\ MoveTo(<<"COMPLETED">>)
          /\ report' = "COMPLETED"
    /\ UNCHANGED <<runVars, todo, localVars, expired>>

-----------------------------------------------------------------------------
\* _reconcile_item(): the agent's action and its observation.

\* The primary fetch, outside every gate.  Its exception is not caught.
FetchPrimary ==
    /\ InItem("ACTION_PENDING")
    /\ \/ /\ \E out \in Answers : obs' = out
          /\ MoveTo(<<"OBSERVING">>)
       \/ /\ fault' = "tool_raised"
          /\ UNCHANGED <<state, obs>>
    /\ UNCHANGED <<runVars, todo, item, tool, cls, step, iterations, prior, expired, report>>

\* outcome.get() on an outcome that classify() refused for not being a dict.
ObserveNonDict ==
    /\ InItem("OBSERVING")
    /\ obs.env = "not_dict"
    /\ fault' = "attribute_error"
    /\ UNCHANGED <<state, runVars, todo, localVars, expired, report>>

\* The problems the independent verifier finds in the answer being judged.
Judged == VerifyProblems(obs.data, obs.source, Expected[item])

\* The item is done: its record is kept, with a compensation to discard it.
Complete ==
    /\ items' = [items EXCEPT ![item] = "COMPLETED"]
    /\ results' = [results EXCEPT ![item] = obs.data]
    /\ undo' = [undo EXCEPT ![item] = @ \cup {"discard"}]
    /\ UNCHANGED <<attempts, dirty, halted>>

AcceptPrimary ==
    /\ InItem("OBSERVING")
    /\ obs.env # "not_dict"
    /\ Classify(obs) = NoFailure
    /\ Judged = {}
    /\ MoveTo(<<"SUCCESS", "RESUMED">>)
    /\ Complete
    /\ LeaveItem
    /\ UNCHANGED <<todo, expired, report>>

\* The record that a later answer must agree with, after a refused answer of
\* this class: a malformed payload never becomes ground truth.
PriorOf(class, default) ==
    IF IsRecord(obs.data) /\ class # "MALFORMED_OUTPUT" THEN obs.data ELSE default

\* A failure found by the classifier anchors a later cross-source check; one
\* found by the verifier leaves prior_valid at None.
RejectPrimary ==
    /\ InItem("OBSERVING")
    /\ obs.env # "not_dict"
    /\ \/ /\ Classify(obs) # NoFailure
          /\ cls' = Classify(obs)
          /\ prior' = PriorOf(Classify(obs), NoData)
       \/ /\ Classify(obs) = NoFailure
          /\ Judged # {}
          /\ cls' = VerifyProblemClass(Judged)
          /\ prior' = NoData
    /\ MoveTo(<<"FAILURE", "CLASSIFYING">>)
    /\ step' = 0
    /\ iterations' = 0
    /\ UNCHANGED <<runVars, todo, item, tool, obs, expired, report>>

-----------------------------------------------------------------------------
\* _recover(): the loop head selects the next action of the chain.

AtLoopHead == InItem("CLASSIFYING") \/ InItem("RECOVERY_FAILED")

\* _pick_substitute(): the alternate source before the authoritative one.
SubstituteCandidates ==
    {t \in Scope : \/ t = "fetch_alternate" /\ "alternate" \in Adapters
                   \/ t = "fetch_authoritative" /\ "authoritative" \in Adapters}
Substitute == IF "fetch_alternate" \in SubstituteCandidates
              THEN "fetch_alternate" ELSE "fetch_authoritative"

Selected == NextAction(Chains, cls, step, SubstituteCandidates # {})

\* The item is handed to a human and the run goes on with the next one.
GiveUp ==
    /\ MoveTo(<<"ESCALATED", "RESUMED">>)
    /\ items' = [items EXCEPT ![item] = "ESCALATED"]
    /\ LeaveItem
    /\ UNCHANGED <<results, undo, dirty, halted, todo, expired, report>>

RecoveryBound ==
    /\ AtLoopHead
    /\ iterations + 1 > MaxIterations
    /\ GiveUp
    /\ UNCHANGED attempts

Escalate ==
    /\ AtLoopHead
    /\ iterations + 1 <= MaxIterations
    /\ Selected = "escalate"
    /\ GiveUp
    /\ UNCHANGED attempts

\* Mutant: the item freezes, the run does not halt.
Freeze_ItemOnly ==
    /\ AtLoopHead
    /\ iterations + 1 <= MaxIterations
    /\ Selected = "freeze"
    /\ MoveTo(<<"FROZEN">>)
    /\ items' = [items EXCEPT ![item] = "FROZEN"]
    /\ LeaveItem
    /\ UNCHANGED <<attempts, results, undo, dirty, halted, todo, expired, report>>

Freeze ==
    /\ AtLoopHead
    /\ iterations + 1 <= MaxIterations
    /\ Selected = "freeze"
    /\ MoveTo(<<"FROZEN">>)
    /\ items' = [items EXCEPT ![item] = "FROZEN"]
    /\ halted' = TRUE
    /\ LeaveItem
    /\ UNCHANGED <<attempts, results, undo, dirty, todo, expired, report>>

SelectRecovery ==
    /\ AtLoopHead
    /\ iterations + 1 <= MaxIterations
    /\ Selected \notin {"escalate", "freeze"}
    /\ MoveTo(<<"RECOVERY_SELECTED">>)
    /\ iterations' = iterations + 1
    /\ UNCHANGED <<runVars, todo, item, tool, obs, cls, step, prior, expired, report>>

-----------------------------------------------------------------------------
\* _recover(): the selected action.

\* reject and replan only advance the chain.
SkipStep ==
    /\ InItem("RECOVERY_SELECTED")
    /\ Selected \in {"reject", "replan"}
    /\ MoveTo(<<"VERIFYING", "RECOVERY_FAILED">>)
    /\ step' = step + 1
    /\ UNCHANGED <<runVars, todo, item, tool, obs, cls, iterations, prior, expired, report>>

\* rollback_item() pops every compensation, whether or not it succeeds; the
\* compensation of a reconciled output removes the result.
RunCompensations ==
    /\ undo' = [undo EXCEPT ![item] = {}]
    /\ results' = IF "discard" \in undo[item]
                  THEN [results EXCEPT ![item] = NoData] ELSE results
    /\ UNCHANGED <<attempts, halted>>

\* Mutant: the record is discarded, the caller's compensations stay registered.
RollBack_DiscardOnly ==
    /\ InItem("RECOVERY_SELECTED")
    /\ Selected = "rollback"
    /\ "broken" \notin undo[item]
    /\ undo' = [undo EXCEPT ![item] = @ \ {"discard"}]
    /\ results' = [results EXCEPT ![item] = NoData]
    /\ items' = [items EXCEPT ![item] = "PENDING"]
    /\ MoveTo(<<"VERIFYING", "VERIFIED", "RESUMED">>)
    /\ LeaveItem
    /\ UNCHANGED <<attempts, halted, dirty, todo, expired, report>>

RollBack ==
    /\ InItem("RECOVERY_SELECTED")
    /\ Selected = "rollback"
    /\ "broken" \notin undo[item]
    /\ RunCompensations
    /\ items' = [items EXCEPT ![item] = "PENDING"]
    /\ MoveTo(<<"VERIFYING", "VERIFIED", "RESUMED">>)
    /\ LeaveItem
    /\ UNCHANGED <<dirty, todo, expired, report>>

\* Mutant: after a failed compensation the chain starts over.
RollBackFails_StartsOver ==
    /\ InItem("RECOVERY_SELECTED")
    /\ Selected = "rollback"
    /\ "broken" \in undo[item]
    /\ RunCompensations
    /\ dirty' = dirty \cup {item}
    /\ step' = 0
    /\ MoveTo(<<"VERIFYING", "RECOVERY_FAILED">>)
    /\ UNCHANGED <<items, todo, item, tool, obs, cls, iterations, prior, expired, report>>

\* A compensation failed: the chain goes on past it.
RollBackFails ==
    /\ InItem("RECOVERY_SELECTED")
    /\ Selected = "rollback"
    /\ "broken" \in undo[item]
    /\ RunCompensations
    /\ dirty' = dirty \cup {item}
    /\ step' = step + 1
    /\ MoveTo(<<"VERIFYING", "RECOVERY_FAILED">>)
    /\ UNCHANGED <<items, todo, item, tool, obs, cls, iterations, prior, expired, report>>

Calls == {"retry", "retry_remainder", "substitute"}
ToolFor(action) == IF action = "substitute" THEN Substitute ELSE "fetch_primary"

\* Mutant: the envelope's expiry is the only gate.
Authorized_AnyTool(t) == ~expired

\* run_envelope() allows exactly the scope's tools, and the executor checks the
\* scope once more; the capability is fresh and the tools are read-only, so the
\* capability and idempotency gates let the call through.
Authorized(t) == ~expired /\ t \in Scope

\* Mutant: one call too many.
Exhausted_OffByOne == attempts[item] > MaxAttempts

Exhausted == attempts[item] + 1 > MaxAttempts

\* _guarded_call() refuses: attempts used up, or (one attempt later) a gate of
\* execute_recovery(), a tool that raises or that returns something other than a
\* dict, or an answer carrying the control plane's own prefix.
RecoveryBlocked ==
    /\ InItem("RECOVERY_SELECTED")
    /\ Selected \in Calls
    /\ IF Exhausted
       THEN UNCHANGED attempts
       ELSE attempts' = [attempts EXCEPT ![item] = @ + 1]
    /\ GiveUp

\* The guarded call goes through and its answer is to be judged.
RecoveryCall ==
    /\ InItem("RECOVERY_SELECTED")
    /\ Selected \in Calls
    /\ ~Exhausted
    /\ Authorized(ToolFor(Selected))
    /\ attempts' = [attempts EXCEPT ![item] = @ + 1]
    /\ \E out \in Answers :
          /\ out.env # "not_dict"
          /\ BlockedToken \notin out.err
          /\ obs' = out
    /\ tool' = ToolFor(Selected)
    /\ MoveTo(<<"VERIFYING">>)
    /\ UNCHANGED <<items, results, undo, dirty, halted, todo, item, cls, step,
                   iterations, prior, expired, report>>

\* The verifier's problems, then those of the cross-source check.
JudgedRecovery ==
    IF Judged = {} /\ prior # NoData THEN CrossProblems(prior, obs.data) ELSE Judged

AcceptRecovery ==
    /\ InItem("VERIFYING")
    /\ Classify(obs) = NoFailure
    /\ JudgedRecovery = {}
    /\ MoveTo(<<"VERIFIED", "RESUMED">>)
    /\ Complete
    /\ LeaveItem
    /\ UNCHANGED <<todo, expired, report>>

\* The answer is refused: a new class starts its chain from the beginning, the
\* same class advances along it.
RejectRecovery ==
    /\ InItem("VERIFYING")
    /\ \E class \in FailureClass :
          /\ \/ /\ Classify(obs) # NoFailure
                /\ class = Classify(obs)
             \/ /\ Classify(obs) = NoFailure
                /\ JudgedRecovery # {}
                /\ class = VerifyProblemClass(JudgedRecovery)
          /\ prior' = PriorOf(class, prior)
          /\ cls' = class
          /\ step' = IF class # cls THEN 0 ELSE step + 1
    /\ MoveTo(<<"RECOVERY_FAILED">>)
    /\ UNCHANGED <<runVars, todo, item, tool, obs, iterations, expired, report>>

-----------------------------------------------------------------------------
\* The envelope's thirty minutes run out.
ExpireEnvelope ==
    /\ Running
    /\ ~expired
    /\ expired' = TRUE
    /\ UNCHANGED <<state, runVars, todo, localVars, report, fault>>

Step ==
    \/ Start
    \/ \E i \in Items : BeginItem(i)
    \/ Finish
    \/ FetchPrimary
    \/ ObserveNonDict
    \/ AcceptPrimary
    \/ RejectPrimary
    \/ RecoveryBound
    \/ Escalate
    \/ Freeze
    \/ SelectRecovery
    \/ SkipStep
    \/ RollBack
    \/ RollBackFails
    \/ RecoveryBlocked
    \/ RecoveryCall
    \/ AcceptRecovery
    \/ RejectRecovery

\* The call has returned or raised; nothing is left to do.
Ended == report # "none" \/ fault # "none"
Terminated == Ended /\ UNCHANGED vars

Next == Step \/ ExpireEnvelope \/ Terminated

Spec == Init /\ [][Next]_vars

\* The runner is one thread that keeps running: it takes every step it can.
FairSpec == Spec /\ WF_vars(Step)
-----------------------------------------------------------------------------
ItemStatuses == {"PENDING", "COMPLETED", "ESCALATED", "FROZEN"}
Reports == {"none", "FROZEN", "INCOMPLETE", "DONE_WITH_ESCALATIONS", "COMPLETED"}
Faults  == {"none", "tool_raised", "attribute_error", "illegal_transition"}

\* Every variable has its type; attempts never pass the envelope's bound and
\* the recovery loop never passes the paranoia bound.
TypeOK ==
    /\ state \in RunStates
    /\ items \in [Items -> ItemStatuses]
    /\ attempts \in [Items -> 0..MaxAttempts]
    /\ results \in [Items -> Records \cup {NoData}]
    /\ undo \in [Items -> SUBSET {"external", "broken", "discard"}]
    /\ dirty \subseteq Items
    /\ halted \in BOOLEAN
    /\ todo \subseteq Items
    /\ item \in Items \cup {NoItem}
    /\ tool \in Tools
    /\ obs \in Outcome
    /\ cls \in FailureClass \cup {NoFailure}
    /\ step \in Nat
    /\ iterations \in 0..MaxIterations
    /\ prior \in Records \cup {NoData}
    /\ expired \in BOOLEAN
    /\ report \in Reports
    /\ fault \in Faults

\* No transition_to() call of the runner is ever refused: whatever the tools
\* answer and whatever the chains say, the code's path through the workflow
\* table is legal, so IllegalWorkflowTransitionError never ends a run.
NoIllegalTransition == fault # "illegal_transition"

\* A frozen item halts the run and nothing else does; it is the last item the
\* run touches, and the run's own state says FROZEN.
FrozenHaltsRun ==
    /\ halted <=> state = "FROZEN"
    /\ halted <=> \E i \in Items : items[i] = "FROZEN"
    /\ \A i, j \in Items : items[i] = "FROZEN" /\ items[j] = "FROZEN" => i = j
    /\ halted => item = NoItem

\* A result is kept for completed items only, and it is a record that was fresh
\* when it was verified and carries the expected amount.
ResultsVerified ==
    \A i \in Items : results[i] # NoData =>
        /\ items[i] = "COMPLETED"
        /\ results[i].age = "fresh"
        /\ Expected[i] # {} => results[i].amount \in Expected[i]

\* Only unfinished work is worked on: the current item and the items still to be
\* visited are PENDING, so COMPLETED items are never fetched again.
OnlyPendingIsWorkedOn ==
    /\ item # NoItem => items[item] = "PENDING"
    /\ item \notin todo
    /\ todo \subseteq Items /\ (state # "PLANNED" => \A i \in todo : items[i] = "PENDING")

\* The answers that the taxonomy and the chains say must never be followed by
\* another call: a well-formed answer with an authentication, authorization,
\* invalid-input or conflict code, with no code at all, or marked in conflict.
MustNotCallAgain(out) ==
    /\ out.env = "dict"
    /\ out.data # Junk
    /\ \/ out.ok /\ out.mark = "conflict"
       \/ /\ ~out.ok
          /\ \/ out.err \cap CodedClasses = {}
             \/ out.err \cap {"AUTHENTICATION", "AUTHORIZATION", "INVALID_INPUT",
                             "CONFLICTING_RESULT"} # {}

\* The classes that the taxonomy allows no recovery call for.
Unrecoverable ==
    {"AUTHENTICATION", "AUTHORIZATION", "INVALID_INPUT", "CONFLICTING_RESULT", "UNKNOWN"}

\* What chains_for() promises of them: their chains, as they are or as NextAction
\* completes them, only escalate or freeze.
NoCallForUnrecoverable(chains) ==
    \A class \in Unrecoverable \cap DOMAIN chains :
        \A k \in DOMAIN chains[class] : chains[class][k] \in {"escalate", "freeze"}

\* Where chains_for() and the default chains put a rollback: before an escalate.
RollbackBeforeEscalate(chains) ==
    \A class \in DOMAIN chains : \A k \in DOMAIN chains[class] :
        chains[class][k] = "rollback" /\ k < Len(chains[class])
            => chains[class][k + 1] = "escalate"

\* No recovery call follows such an answer, whatever other codes it carries and
\* whatever failure the item was being recovered from before ("NEVER retry").
NeverRetryUnrecoverable == [][attempts' # attempts => ~MustNotCallAgain(obs)]_vars

\* A record that completes an item during recovery agrees on amount and status
\* with the schema-valid record the item's recovery is anchored to.
CompletionAgreesWithAnchor ==
    [][\A i \in Items :
          /\ results'[i] # results[i]
          /\ results'[i] # NoData
          /\ prior # NoData
          => /\ results'[i].amount = prior.amount
             /\ results'[i].status = prior.status]_vars

\* Recovery cannot widen authority: every answer a recovery is judged by came
\* from a tool inside the original scope.
RecoveryStaysInScope == state = "VERIFYING" /\ item # NoItem => tool \in Scope

\* An item whose compensations failed is handed to a human: on top of its dirty
\* state the run fetches nothing for it and neither completes, freezes nor restores it.
DirtyIsHandedOver ==
    [][/\ attempts' # attempts => item \notin dirty
       /\ \A i \in dirty : items'[i] \in {items[i], "ESCALATED"}]_vars

\* The abstract job, its state being the run's items, results and outcome.
Admissible ==
    [i \in Items |-> {r \in Records : /\ r.age = "fresh"
                                      /\ Expected[i] # {} => r.amount \in Expected[i]}]
Job == INSTANCE ReconcileJob WITH NoResult <- NoData

\* The runner implements the abstract job.
ImplementsJob == Job!Spec

\* An item still PENDING when a run that was not halted returns was rolled back,
\* and nothing of it is left: no record, no compensation, no dirty state.
PendingIsClean ==
    report # "none" /\ ~halted =>
        \A i \in Pending : results[i] = NoData /\ undo[i] = {} /\ i \notin dirty

\* The call always returns or raises: bounded chains, attempts and iterations
\* leave no way to recover forever.
Terminates == <>Ended
=============================================================================
