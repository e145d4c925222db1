---------------------------- MODULE ExceptionApi ----------------------------
(***************************************************************************)
(* The exception cases of api/routes.py, the guarded execution of          *)
(* recovery/executor.py and the audit tables of storage/, under concurrent *)
(* HTTP requests, a disk that refuses writes, and restarts of the server.  *)
(*                                                                         *)
(* The endpoints are plain functions, so the server runs each request on a *)
(* thread of its own, and the registries CASES, ENVELOPES and IDEM, and    *)
(* the adapters' world, are shared without a lock.  A thread may be        *)
(* switched out between any two of its reads and writes of them: every     *)
(* action below makes at most one read or one write of a case, of the      *)
(* idempotency store or of the world (two fields that adjacent statements  *)
(* read are read together), and the row that save_exception() builds of a  *)
(* case is committed by a step of its own.                                 *)
(*                                                                         *)
(* The registries live in the process, the tables in SQLite, and nothing   *)
(* reads the tables back: after a restart a case is gone, and what was     *)
(* written of it stays.                                                    *)
(*                                                                         *)
(* Left out: the capability's checks, which never fail, because /execute   *)
(* issues it afresh for the very action it then validates; the table of    *)
(* envelopes, which are written once and never change; the evidence.       *)
(***************************************************************************)
EXTENDS Naturals, Sequences, FiniteSets

CONSTANTS
    Cases,        \* the ids that create_exception hands out
    Requests,     \* the threads that serve requests
    Kinds,        \* the exception types that clients report
    Endpoints,    \* the endpoints that clients call
    Worlds,       \* the initial worlds: "canonical", "ambiguous"
    MaxAttempts,  \* RecoveryEnvelope.max_attempts
    DiskWorks,    \* FALSE: the database's path cannot be opened at all
    MaxFaults,    \* bound: single writes that a working disk refuses
    MayRestart    \* the server may be killed and started again

Mutations == {"replay_webhook", "sync_crm"}

\* What a client may ask to execute: a mutation of the resource it applies to;
\* something policy allows but no tool serves (inspect_order, which is never
\* registered, or an unknown resource); something policy forbids.
Asked == Mutations \cup {"unserved", "forbidden"}

ASSUME ApiAssumption ==
    /\ Kinds \subseteq {"payment_webhook_failed", "ambiguous_financial_state", "other"}
    /\ Endpoints \subseteq {"investigate", "execute", "transition"}
    /\ Worlds \subseteq {"canonical", "ambiguous"}
    /\ MaxAttempts \in Nat \ {0}
    /\ {DiskWorks, MayRestart} \subseteq BOOLEAN
    /\ MaxFaults \in Nat

States == {"DETECTED", "INVESTIGATING", "RECOVERY_PROPOSED", "AUTHORIZED", "EXECUTED",
           "VERIFYING", "RESOLVED", "ESCALATED", "BLOCKED", "QUARANTINED"}
Terminal == {"RESOLVED", "ESCALATED", "QUARANTINED"}

\* An idempotency key; the resource is the one each mutation applies to.
Keys == Cases \X Mutations

\* A case without a row in the table exceptions.
NoRow == [state |-> "none", attempts |-> 0, declared |-> FALSE]

VARIABLES
    kind,        \* ExceptionCase.type, "absent" before the case is created
    state,       \* ExceptionCase.state
    attempts,    \* ExceptionCase.attempt_count
    expired,     \* the cases whose envelope has expired
    declared,    \* history: the cases whose state is the word of a /transition
    executed,    \* IDEM: the keys marked as executed
    world,       \* the world: "canonical" or "ambiguous"
    delivered,   \* the webhook is marked as delivered
    reconciled,  \* the customer's balance is 0 in the CRM
    effects,     \* history: how often each key's mutation reached its adapter
    saved,       \* each case's row in the table exceptions
    trail,       \* each case's last row in the table state_transitions
    records,     \* the kinds of other rows each case has
    unsaved,     \* history: the cases that a write was refused for
    faults,      \* how many writes a working disk has refused
    lost,        \* the cases that a restart took out of CASES
    req          \* what each thread is doing

caseVars  == <<kind, state, attempts, expired, declared>>
worldVars == <<executed, world, delivered, reconciled, effects>>
diskVars  == <<saved, trail, records, unsaved, faults>>
vars == <<caseVars, worldVars, diskVars, lost, req>>

-----------------------------------------------------------------------------
\* core/transitions.py

AllowedTransitions ==
    [DETECTED          |-> {"INVESTIGATING"},
     INVESTIGATING     |-> {"RECOVERY_PROPOSED"},
     RECOVERY_PROPOSED |-> {"AUTHORIZED", "ESCALATED"},
     AUTHORIZED        |-> {"EXECUTED", "BLOCKED"},
     EXECUTED          |-> {"VERIFYING"},
     VERIFYING         |-> {"RESOLVED", "RECOVERY_PROPOSED", "ESCALATED"},
     BLOCKED           |-> {"RECOVERY_PROPOSED", "ESCALATED"}]

\* Mutant: the escape hatches are open to every state.
CanTransition_AnyEscape(from, to) ==
    \/ from \in DOMAIN AllowedTransitions /\ to \in AllowedTransitions[from]
    \/ to \in {"QUARANTINED", "ESCALATED"}

\* The table, and the two escape hatches out of the open states.
CanTransition(from, to) ==
    \/ from \in DOMAIN AllowedTransitions /\ to \in AllowedTransitions[from]
    \/ to = "QUARANTINED" /\ from \in {"VERIFYING", "RECOVERY_PROPOSED", "INVESTIGATING", "DETECTED"}
    \/ to = "ESCALATED" /\ from \in {"DETECTED", "INVESTIGATING", "RECOVERY_PROPOSED",
                                     "VERIFYING", "BLOCKED"}

-----------------------------------------------------------------------------
\* core/policies.py and core/envelopes.py

\* Mutant: every exception type gets the envelope of a failed webhook.
Permitted_AnyKind(k, action) == action # "forbidden"

\* envelope_for_exception(...).action_permitted(action)
Permitted(k, action) ==
    action = "unserved" \/ (k = "payment_webhook_failed" /\ action \in Mutations)

\* Only this type's envelope requires postconditions.
HasPostconditions(k) == k = "payment_webhook_failed"

\* The postconditions order.status == paid and payment.status == succeeded hold in
\* either world; crm.balance == 0 is what the mutations bring about.
PostconditionsHold == reconciled

\* check_consistency() reports a refund whose metadata is ambiguous.
AmbiguousRefund == world = "ambiguous"

\* Mutant: an ambiguous refund is reported but does not fail the verification.
Passed_Ambiguous(k) == HasPostconditions(k) /\ PostconditionsHold

\* verify_resolution() on the order, payment and customer of the request.
Passed(k) == HasPostconditions(k) /\ PostconditionsHold /\ ~AmbiguousRefund

-----------------------------------------------------------------------------
\* The threads.  A thread's `todo' is the rest of its handler: the name of a state
\* stands for a transition_to() that state, which is checked once it is `armed'; a
\* thread `armed' to save a case has built its `row'.

Idle == [todo |-> <<>>]

\* A request in service, about to run the handler's steps.
Serving(c, action, from, steps) ==
    [case |-> c, action |-> action, from |-> from, seen |-> 0, passed |-> FALSE,
     armed |-> FALSE, row |-> NoRow, todo |-> steps]

At(r, step) == req[r].todo # <<>> /\ Head(req[r].todo) = step
Quiescent   == \A r \in Requests : req[r] = Idle

CaseOf(r)  == req[r].case
StateOf(r) == state[CaseOf(r)]
KeyOf(r)   == <<req[r].case, req[r].action>>

\* The steps that write to the database.
DiskSteps == {"case", "investigated", "refusal", "executed", "verified", "cap", "verdict",
              "escalation"}

\* Without a database connect() raises, and what a handler has to write next is
\* dropped at once, as DropWrites does: the write of a case alone where the handler
\* goes on without it, and otherwise all the handler still has to do.
Doable(steps) ==
    IF DiskWorks \/ steps = <<>> \/ Head(steps) \notin DiskSteps THEN steps
    ELSE IF Len(steps) > 1 /\ steps[2] \notin DiskSteps THEN Tail(steps)
    ELSE <<>>

\* A thread that has finished its handler is idle, and forgets what no step that is
\* left will write.
Becomes(r, q) ==
    LET todo == Doable(q.todo)
        Left(steps) == \E i \in DOMAIN todo : todo[i] \in steps
    IN  req' = [req EXCEPT ![r] =
            IF todo = <<>> THEN Idle
            ELSE [q EXCEPT !.todo = todo,
                           !.from = IF Left({"investigated", "refusal", "executed"}) THEN @ ELSE "none",
                           !.seen = IF Left({"counted"}) THEN @ ELSE 0,
                           !.passed = Left({"verdict"}) /\ @]]

\* The step at hand is done, and `steps' come before the ones that follow it.
Then(r, steps) ==
    Becomes(r, [req[r] EXCEPT !.todo = steps \o Tail(@), !.armed = FALSE, !.row = NoRow])
Return(r)      == req' = [req EXCEPT ![r] = Idle]

\* MockWorld: an undelivered webhook and a customer whose balance is not 0, with
\* an ambiguous refund or without.
InitWorld == world \in Worlds /\ delivered = FALSE /\ reconciled = FALSE

Init ==
    /\ kind = [c \in Cases |-> "absent"]
    /\ state = [c \in Cases |-> "DETECTED"]
    /\ attempts = [c \in Cases |-> 0]
    /\ expired = {}
    /\ declared = {}
    /\ executed = {}
    /\ InitWorld
    /\ effects = [k \in Keys |-> 0]
    /\ saved = [c \in Cases |-> NoRow]
    /\ trail = [c \in Cases |-> <<"DETECTED", "DETECTED">>]
    /\ records = [c \in Cases |-> {}]
    /\ unsaved = {}
    /\ faults = 0
    /\ lost = {}
    /\ req = [r \in Requests |-> Idle]

-----------------------------------------------------------------------------
\* The database.

\* A write for case c is refused, by a disk that cannot be used or by one that can.
Refuses(c) ==
    /\ ~DiskWorks \/ faults < MaxFaults
    /\ faults' = IF DiskWorks THEN faults + 1 ELSE faults
    /\ unsaved' = unsaved \cup {c}
    /\ UNCHANGED <<saved, trail, records>>

\* What save_exception() writes of a case; `declared' is history.
Row(c) == [state |-> state[c], attempts |-> attempts[c], declared |-> c \in declared]

\* save_exception() builds the row of the case as it is now ...
BuildRow(r) ==
    /\ At(r, "case")
    /\ ~req[r].armed
    /\ req' = [req EXCEPT ![r].armed = TRUE, ![r].row = Row(CaseOf(r))]
    /\ UNCHANGED <<caseVars, worldVars, diskVars, lost>>

\* ... and commits it in the place of the one the table has, whatever other threads
\* have made of the case, and saved, since.
SaveCase(r) ==
    /\ At(r, "case")
    /\ req[r].armed
    /\ saved' = [saved EXCEPT ![CaseOf(r)] = req[r].row]
    /\ Then(r, <<>>)
    /\ UNCHANGED <<caseVars, worldVars, trail, records, unsaved, faults, lost>>

\* record_transition() in a handler: what it was moving from is what the handler
\* read then, and where it has come to is read now.
TrailRow(r) ==
    IF At(r, "executed") THEN <<req[r].from, "VERIFYING">>
    ELSE IF At(r, "verified") THEN <<"VERIFYING", StateOf(r)>>
    ELSE <<req[r].from, StateOf(r)>>

RecordTransition(r) ==
    /\ \E step \in {"investigated", "refusal", "executed", "verified"} : At(r, step)
    /\ trail' = [trail EXCEPT ![CaseOf(r)] = TrailRow(r)]
    /\ records' = [records EXCEPT ![CaseOf(r)] =
                       IF At(r, "executed") THEN @ \cup {"executed"} ELSE @]
    /\ Then(r, <<>>)
    /\ UNCHANGED <<caseVars, worldVars, saved, unsaved, faults, lost>>

\* Mutant: a failed verification is recorded as an escalation.
RowOf_EveryFailure(r) ==
    IF At(r, "cap") THEN {"capability"}
    ELSE IF At(r, "verdict") THEN {IF req[r].passed THEN "PASS" ELSE "FAIL"}
    ELSE IF req[r].passed THEN {} ELSE {"escalation"}

\* save_capability(), record_verification() and, of a case that is ESCALATED by
\* then, record_escalation().
RowOf(r) ==
    IF At(r, "cap") THEN {"capability"}
    ELSE IF At(r, "verdict") THEN {IF req[r].passed THEN "PASS" ELSE "FAIL"}
    ELSE IF StateOf(r) = "ESCALATED" THEN {"escalation"} ELSE {}

RecordRow(r) ==
    /\ \E step \in {"cap", "verdict", "escalation"} : At(r, step)
    /\ records' = [records EXCEPT ![CaseOf(r)] = @ \cup RowOf(r)]
    /\ Then(r, <<>>)
    /\ UNCHANGED <<caseVars, worldVars, saved, trail, unsaved, faults, lost>>

\* The exception that a refused write raises is dropped, and with it the rest of
\* its try block: that of _persist_case() holds one write of a case, every other
\* one the rest of its handler.
DropWrites(r) ==
    /\ \E step \in DiskSteps : At(r, step)
    /\ Refuses(CaseOf(r))
    /\ IF At(r, "case") /\ Tail(req[r].todo) # <<"investigated">> THEN Then(r, <<>>) ELSE Return(r)
    /\ UNCHANGED <<caseVars, worldVars, lost>>

-----------------------------------------------------------------------------
\* The requests.

\* The client learns the id of its case when the handler returns, so no request
\* for the case comes before that.
CreateException(c, k) ==
    /\ kind[c] = "absent"
    /\ kind' = [kind EXCEPT ![c] = k]
    /\ \/ /\ DiskWorks
          /\ saved' = [saved EXCEPT ![c] = Row(c)]
          /\ UNCHANGED <<trail, records, unsaved, faults>>
       \/ Refuses(c)
    /\ UNCHANGED <<state, attempts, expired, declared, worldVars, lost, req>>

\* A request for a case that exists reaches its handler, whose first step reads the
\* case's state.
Accept(r, endpoint, c, action, steps) ==
    /\ endpoint \in Endpoints
    /\ req[r] = Idle
    /\ kind[c] # "absent" /\ c \notin lost
    /\ Becomes(r, Serving(c, action, state[c], steps))
    /\ UNCHANGED <<caseVars, worldVars, diskVars, lost>>

Investigate(r, c) ==
    Accept(r, "investigate", c, "none", <<"INVESTIGATING", "case", "investigated">>)

\* A client may name any state.
Transition(r, c, to) == Accept(r, "transition", c, "declare", <<to, "case">>)

Execute(r, c, action) ==
    Accept(r, "execute", c, action, <<"propose", "authorize", "gate">>)

-----------------------------------------------------------------------------
\* ExceptionCase.transition_to(): a read of the state, then a write.

Moving(r) == \E s \in States : At(r, s)

\* IllegalTransitionError leaves every handler (as a 400 or a 500).
CheckTransition(r) ==
    /\ Moving(r)
    /\ ~req[r].armed
    /\ IF CanTransition(StateOf(r), Head(req[r].todo))
       THEN req' = [req EXCEPT ![r].armed = TRUE]
       ELSE Return(r)
    /\ UNCHANGED <<caseVars, worldVars, diskVars, lost>>

WriteTransition(r) ==
    /\ Moving(r)
    /\ req[r].armed
    /\ state' = [state EXCEPT ![CaseOf(r)] = Head(req[r].todo)]
    /\ declared' = IF req[r].action = "declare" THEN declared \cup {CaseOf(r)}
                   ELSE declared \ {CaseOf(r)}
    /\ Then(r, <<>>)
    /\ UNCHANGED <<kind, attempts, expired, worldVars, diskVars, lost>>

-----------------------------------------------------------------------------
\* execute()

\* A case that is in the state `in' when it is read goes through `steps'.
MoveOnFrom(r, step, in, steps) ==
    /\ At(r, step)
    /\ Then(r, IF StateOf(r) = in THEN steps ELSE <<>>)
    /\ UNCHANGED <<caseVars, worldVars, diskVars, lost>>

Propose(r)   == MoveOnFrom(r, "propose", "INVESTIGATING", <<"RECOVERY_PROPOSED", "case">>)
Authorize(r) == MoveOnFrom(r, "authorize", "RECOVERY_PROPOSED", <<"AUTHORIZED">>)

\* execute_recovery(): expiry, policy, then idempotency.
Gate(r) ==
    /\ At(r, "gate")
    /\ IF /\ CaseOf(r) \notin expired
          /\ Permitted(kind[CaseOf(r)], req[r].action)
          /\ KeyOf(r) \notin executed
       THEN Then(r, <<"dispatch">>)
       ELSE Then(r, <<"refused">>)
    /\ UNCHANGED <<caseVars, worldVars, diskVars, lost>>


\* Mutant: the case is not saved after its verdict.
AfterDispatch_Unsaved ==
    <<"mark", "count", "counted", "EXECUTED", "VERIFYING", "verify",
      "cap", "executed", "verified", "verdict", "escalation">>

\* What execute() has left to do when the mutation has had its effect; the verdict
\* adds the state it leads to.
AfterDispatch ==
    <<"mark", "count", "counted", "EXECUTED", "VERIFYING", "verify",
      "case", "cap", "executed", "verified", "verdict", "escalation">>

\* deliver_webhook(): a webhook that has been delivered, or is being, is reported as
\* a duplicate, and as a success; otherwise it is delivered.
ReplayWebhook(r) ==
    /\ req[r].action = "replay_webhook"
    /\ effects' = [effects EXCEPT ![KeyOf(r)] = @ + 1]
    /\ Then(r, IF delivered THEN AfterDispatch ELSE <<"deliver", "credit">> \o AfterDispatch)
    /\ UNCHANGED reconciled

\* sync_customer(): the customer of the request has a paid order in either world.
SyncCustomer(r) ==
    /\ req[r].action = "sync_crm"
    /\ effects' = [effects EXCEPT ![KeyOf(r)] = @ + 1]
    /\ reconciled' = TRUE
    /\ Then(r, AfterDispatch)

\* An unknown resource or a tool nobody registered is an error.
Unserved(r) ==
    /\ req[r].action \notin Mutations
    /\ Then(r, <<"refused">>)
    /\ UNCHANGED <<reconciled, effects>>

\* The adapter is called.
Dispatch(r) ==
    /\ At(r, "dispatch")
    /\ ReplayWebhook(r) \/ SyncCustomer(r) \/ Unserved(r)
    /\ UNCHANGED <<caseVars, executed, world, delivered, diskVars, lost>>

\* The delivery: the webhook is marked, and then the balance of the order's customer
\* is brought to 0.
DeliverWebhook(r) ==
    /\ At(r, "deliver")
    /\ delivered' = TRUE
    /\ Then(r, <<>>)
    /\ UNCHANGED <<caseVars, executed, world, reconciled, effects, diskVars, lost>>

CreditCustomer(r) ==
    /\ At(r, "credit")
    /\ reconciled' = TRUE
    /\ Then(r, <<>>)
    /\ UNCHANGED <<caseVars, executed, world, delivered, effects, diskVars, lost>>

\* Mutant: the key is not recorded.
MarkExecuted_Forgets(r) ==
    /\ At(r, "mark")
    /\ Then(r, <<>>)
    /\ UNCHANGED <<caseVars, worldVars, diskVars, lost>>

MarkExecuted(r) ==
    /\ At(r, "mark")
    /\ executed' = executed \cup {KeyOf(r)}
    /\ Then(r, <<>>)
    /\ UNCHANGED <<caseVars, world, delivered, reconciled, effects, diskVars, lost>>

\* Mutant: what the case moves from is what it was when the request came in.
ReadAttempts_StaleFrom(r) ==
    /\ At(r, "count")
    /\ Becomes(r, [req[r] EXCEPT !.seen = attempts[CaseOf(r)], !.todo = Tail(@)])
    /\ UNCHANGED <<caseVars, worldVars, diskVars, lost>>

\* frm = case.state, for the record; and attempt_count += 1 is a read and a write.
ReadAttempts(r) ==
    /\ At(r, "count")
    /\ Becomes(r, [req[r] EXCEPT !.from = StateOf(r), !.seen = attempts[CaseOf(r)],
                                 !.todo = Tail(@)])
    /\ UNCHANGED <<caseVars, worldVars, diskVars, lost>>

\* Mutant: attempts are counted for authorized cases only.
CountAttempt_IfAuthorized(r) ==
    /\ At(r, "counted")
    /\ attempts' = IF StateOf(r) = "AUTHORIZED"
                   THEN [attempts EXCEPT ![CaseOf(r)] = req[r].seen + 1] ELSE attempts
    /\ Then(r, <<>>)
    /\ UNCHANGED <<kind, state, expired, declared, worldVars, diskVars, lost>>

CountAttempt(r) ==
    /\ At(r, "counted")
    /\ attempts' = [attempts EXCEPT ![CaseOf(r)] = req[r].seen + 1]
    /\ Then(r, <<>>)
    /\ UNCHANGED <<kind, state, expired, declared, worldVars, diskVars, lost>>

\* Mutant: a failed verification leads to a state the machine does not have.
Verdict_UnknownState(r) ==
    IF Passed(kind[CaseOf(r)]) THEN "RESOLVED" ELSE "FAILED"

\* Where the verdict of verify_resolution() leads.
Verdict(r) ==
    IF Passed(kind[CaseOf(r)]) THEN "RESOLVED"
    ELSE IF attempts[CaseOf(r)] >= MaxAttempts THEN "ESCALATED"
    ELSE "RECOVERY_PROPOSED"

Verify(r) ==
    /\ At(r, "verify")
    /\ Becomes(r, [req[r] EXCEPT !.passed = Passed(kind[CaseOf(r)]),
                                 !.todo = <<Verdict(r)>> \o Tail(@)])
    /\ UNCHANGED <<caseVars, worldVars, diskVars, lost>>

\* Mutant: a refusal counts as an attempt.
Refused_Counts(r) ==
    /\ At(r, "refused")
    /\ attempts' = [attempts EXCEPT ![CaseOf(r)] = @ + 1]
    /\ Becomes(r, [req[r] EXCEPT !.from = StateOf(r),
                                 !.todo = <<"block", "case", "cap", "refusal">>])
    /\ UNCHANGED <<kind, state, expired, declared, worldVars, diskVars, lost>>

\* AuthorizationError: the state is read for the record.
Refused(r) ==
    /\ At(r, "refused")
    /\ Becomes(r, [req[r] EXCEPT !.from = StateOf(r),
                                 !.todo = <<"block", "case", "cap", "refusal">>])
    /\ UNCHANGED <<caseVars, worldVars, diskVars, lost>>

\* Mutant: a refusal leaves the case as it is.
Block_Never(r) ==
    /\ At(r, "block")
    /\ Then(r, <<>>)
    /\ UNCHANGED <<caseVars, worldVars, diskVars, lost>>

\* It is read again, and an authorized case is blocked.
Block(r) == MoveOnFrom(r, "block", "AUTHORIZED", <<"BLOCKED">>)

-----------------------------------------------------------------------------
\* Thirty minutes after a case was created, its envelope expires.
ExpireEnvelope(c) ==
    /\ kind[c] # "absent"
    /\ c \notin expired \cup lost
    /\ expired' = expired \cup {c}
    /\ UNCHANGED <<kind, state, attempts, declared, worldVars, diskVars, lost, req>>

\* The process is killed and started again: a new world and empty registries.
Restart ==
    /\ MayRestart
    /\ lost' = {c \in Cases : kind[c] # "absent"}
    /\ executed' = {}
    /\ world' \in Worlds
    /\ delivered' = FALSE
    /\ reconciled' = FALSE
    /\ req' = [r \in Requests |-> Idle]
    /\ UNCHANGED <<caseVars, effects, diskVars>>

Receive(r) ==
    \E c \in Cases :
        \/ Investigate(r, c)
        \/ \E to \in States : Transition(r, c, to)
        \/ \E action \in Asked : Execute(r, c, action)

Serve(r) ==
    \/ CheckTransition(r)
    \/ WriteTransition(r)
    \/ Propose(r)
    \/ Authorize(r)
    \/ Gate(r)
    \/ Dispatch(r)
    \/ DeliverWebhook(r)
    \/ CreditCustomer(r)
    \/ MarkExecuted(r)
    \/ ReadAttempts(r)
    \/ CountAttempt(r)
    \/ Verify(r)
    \/ Refused(r)
    \/ Block(r)

Store(r) ==
    \/ BuildRow(r)
    \/ SaveCase(r)
    \/ RecordTransition(r)
    \/ RecordRow(r)
    \/ DropWrites(r)

Next ==
    \/ \E r \in Requests : Receive(r) \/ Serve(r) \/ Store(r)
    \/ \E c \in Cases : ExpireEnvelope(c) \/ \E k \in Kinds : CreateException(c, k)
    \/ Restart

Spec == Init /\ [][Next]_vars
-----------------------------------------------------------------------------
Steps == States \cup DiskSteps \cup
         {"propose", "authorize", "gate", "dispatch", "deliver", "credit", "mark", "count",
          "counted", "verify", "refused", "block"}

Rows == [state : States \cup {"none"}, attempts : Nat, declared : BOOLEAN]

\* Every variable has its type, and a thread is armed only for a transition or for
\* the commit of a row.
TypeOK ==
    /\ kind \in [Cases -> Kinds \cup {"absent"}]
    /\ state \in [Cases -> States]
    /\ attempts \in [Cases -> Nat]
    /\ {expired, declared, unsaved, lost} \subseteq SUBSET Cases
    /\ executed \subseteq Keys
    /\ world \in Worlds
    /\ {delivered, reconciled} \subseteq BOOLEAN
    /\ effects \in [Keys -> Nat]
    /\ saved \in [Cases -> Rows]
    /\ trail \in [Cases -> States \X States]
    /\ records \in [Cases -> SUBSET {"capability", "executed", "PASS", "FAIL", "escalation"}]
    /\ faults \in 0..MaxFaults
    /\ req \in [Requests -> {Idle} \cup
                   [case : Cases, action : Asked \cup {"none", "declare"}, from : States \cup {"none"},
                    seen : Nat, passed : BOOLEAN, armed : BOOLEAN, row : Rows, todo : Seq(Steps)]]
    /\ \A r \in Requests : req[r] # Idle => /\ req[r].todo # <<>>
                                            /\ req[r].armed => Moving(r) \/ At(r, "case")

Mutated(c) == effects[<<c, "replay_webhook">>] + effects[<<c, "sync_crm">>]

\* The postconditions of the case hold in the world, and nothing is ambiguous there.
Proved(c) == HasPostconditions(kind[c]) /\ reconciled /\ world # "ambiguous"

\* A case that execute() takes to RESOLVED has its postconditions proved in the
\* world, whatever other requests interleave.  Of a case that a client declares RESOLVED
\* there is nothing to say: for /transition the client's word is enough.
ResolvedIsProved ==
    \A c \in Cases \ (declared \cup lost) : state[c] = "RESOLVED" => Proved(c)

\* Only a case whose type's envelope allows a mutation ever caused one, and a
\* mutation that the store knows of has reached its adapter.
EffectsWithinPolicy ==
    \A k \in Keys : /\ effects[k] > 0 => kind[k[1]] = "payment_webhook_failed"
                    /\ k \in executed => effects[k] > 0

\* attempt_count never runs ahead of the mutations, so a race of two requests
\* can delay an escalation but never escalate a case early.
AttemptsAreBacked == \A c \in Cases : attempts[c] <= Mutated(c)

\* Between requests, every mutation has been counted as an attempt of its case.
AttemptsMatchEffects ==
    Quiescent => \A c \in Cases \ lost : attempts[c] = Mutated(c)

\* "duplicate execution impossible" (tests/test_replay.py): a key's mutation reaches
\* its adapter once.  It holds of requests that are served one after the other, over
\* refusals, retries and restarts; of two at a time, between the check of the key and
\* its record, it is violated.
AtMostOnce == \A k \in Keys : effects[k] <= 1

\* A terminal case never changes state again: "terminals have no outgoing edges at
\* all" (tests/test_adversarial.py).  It, too, is violated by two requests at a time,
\* one of which was checked against the state before.
TerminalIsFinal ==
    [][\A c \in Cases : state[c] \in Terminal => state'[c] = state[c]]_vars

Midway == {"AUTHORIZED", "EXECUTED", "VERIFYING"}

\* When no request is being served no case is left halfway through execute(),
\* in a state that no endpoint but /transition leads out of, unless a client put it
\* there with that one.
NoStrandedCase == Quiescent => \A c \in Cases \ (lost \cup declared) : state[c] \notin Midway

\* The table `exceptions' can be trusted: whenever the server dies, no row shows a
\* case halfway through execute() unless a client declared it so; and between
\* requests the row of a case that no write was refused for is its state.
SavedIsCurrent ==
    /\ \A c \in Cases : saved[c].state \in Midway => saved[c].declared
    /\ Quiescent => \A c \in Cases \ (unsaved \cup lost) : kind[c] # "absent" =>
           saved[c].state = state[c] /\ saved[c].attempts <= attempts[c]

\* No row of `state_transitions' is made up: it is a step of the machine, the two
\* steps of an execution together, or none, of a refused request; and between requests
\* the last row names the state the case is in, unless a client declared that state,
\* which leaves no row.  It is not said that a row starts where the one before it ended:
\* the moves to RECOVERY_PROPOSED and AUTHORIZED leave none.
LastRowNamesState ==
    /\ \A c \in Cases : \/ trail[c][1] = trail[c][2]
                         \/ trail[c] = <<"AUTHORIZED", "VERIFYING">>
                         \/ CanTransition(trail[c][1], trail[c][2])
    /\ Quiescent => \A c \in Cases \ (unsaved \cup lost \cup declared) : trail[c][2] = state[c]

\* The records claim nothing that did not happen, whatever requests interleave and
\* wherever a restart or a refused write cuts them off: an execution follows a
\* mutation, a verdict its execution, a PASS is that of postconditions the world
\* had, an escalation follows a failed verification and exhausted attempts.
RecordsAreTrue ==
    \A c \in Cases :
        /\ "executed" \in records[c] => Mutated(c) > 0
        /\ {"PASS", "FAIL"} \cap records[c] # {} => {"capability", "executed"} \subseteq records[c]
        /\ "PASS" \in records[c] =>
               HasPostconditions(kind[c]) /\ (c \in lost \/ Proved(c))
        /\ "escalation" \in records[c] => "FAIL" \in records[c] /\ Mutated(c) >= MaxAttempts
=============================================================================
