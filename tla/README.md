# KEEPR: a formal model of the recovery runtime

KEEPR (`src/src/recourse`) decides what a program may do after a tool call went wrong: it
classifies an untrusted answer, picks a recovery action from a fixed chain, executes it within
an authority that cannot grow, verifies the outcome independently, and only then resumes. This
directory models that control plane in TLA+, checks it with TLC and proves its main invariants
with TLAPS. Everything is written from the code; where a document disagrees with the code, the
model follows the code and the disagreement is listed under [Findings](#findings).

Paths below are relative to `src/src/recourse/` unless they start with `README` (the
repository's own) or `tests/`.

## 1. Inventory

| Component | State it keeps | Operations | What makes it correct |
|---|---|---|---|
| Classifier, taxonomy, schemas, selector (`failures/`) | none | `classify`, `validate_record`, `next_action` | one class per failure, in trust order; a code that must never be retried is never retried; a chain past its end collapses to escalation |
| Observation verifier (`verification/observations.py`) | none | `verify_observation`, `check_cross_source` | what is kept was fresh, trusted, of the expected amount, and agrees with the record the recovery is anchored to |
| Workflow runner (`workflows/run.py`, `recovery/rollback.py`) | `WorkflowRun`: state, items, attempts, results, events, compensations, halted | `reconcile_all`, `_reconcile_item`, `_recover`, `_guarded_call`, `rollback_item` | no illegal transition, a freeze halts, finished work is left alone, a result is verified, recovery is bounded, the report tells what happened |
| Authority (`core/authority.py`, `envelopes.py`, `policies.py`, `capabilities.py`) | scope, envelope (immutable, but it expires), capability budgets | `check_narrowing`, `action_permitted`, `validate`, `consume` | recovery never widens the scope; an expired envelope permits nothing |
| Exception machine (`core/transitions.py`, `exceptions.py`) | `ExceptionCase.state`, `attempt_count` | `check_transition`, `transition_to` | terminal states are final |
| Executor and idempotency (`recovery/executor.py`, `idempotency.py`, `tools.py`) | the keys marked as executed (memory, or SQLite) | `execute_recovery`, `already_executed`, `mark_executed` | a mutation of a case runs at most once; every mutation is recorded |
| Resolution verifier (`verification/verifier.py`, `postconditions.py`, `consistency.py`) | none | `verify_resolution` | RESOLVED is proved by the world, not by a tool's word |
| World and adapters (`adapters/`) | orders, payments, customers, deliveries | `deliver_webhook`, `sync_customer` | a second delivery is a no-op |
| Exception API (`api/routes.py`) | registries `CASES`, `ENVELOPES`, `IDEM`, shared by threads without a lock | `create_exception`, `investigate`, `execute`, `transition` | an effect is permitted, authorized, counted, at most once; no case is left halfway |
| Audit tables (`storage/`) | SQLite: cases, transitions, verifications, escalations, capabilities, failures, runs | `save_exception`, `record_transition`, `record_verification`, ... | what is written of a case is true, and stays true when a write fails or the server restarts |
| AR worker (`worker/ar_worker.py`, `store.py`) | faults, flags, lifecycles, last run; two SQLite tables | `run`, `pause`, `resume`, `stop`, `reset`, `inject_fault`, `status` and their endpoints | what is saved survives a kill; finished items are never redone; the lock is given back |
| Invoice workload (`workloads/invoices.py`), lab (`lab/attacks.py`) | fault modes, call counts | the sources' `fetch`; the attacks and the outcomes they assert | what becomes of an item follows from the modes of its sources |
| External ledger (`external/`) | records and faults in a process of its own | `fetch_record`, `inject_fault`, `reset`; the HTTP client's `fetch` | no answer of a service that stalls, dies or is attacked completes an item unverified |
| SDK (`sdk.py`) | chains of a runtime; the counters of one decorated call | `RecoveryRuntime`, `recoverable`, `chains_for` | no list of policies weakens the hard rules of the chains; a decorated call is bounded and returns only what was verified |
| Agent side (`agent/`) | accepted proposals, executions, last outcomes; one coordinator bound per process | `propose`, `recover`, the hook, the tools | an execution takes a proposal of its own; no sequence of tool calls widens a scope or buys attempts |
| Evidence (`evidence/`, `recovery/planner.py`), canonical flow, scenarios, UI | nothing; drivers | | |

### How they interact

`reconcile_all` calls the primary source itself, once per item; everything it calls afterwards
goes through `_guarded_call` -> `execute_recovery` (envelope, scope, capability, dispatch). The
answers go through `classify`, then through `verify_observation`; a recovered answer also through
`check_cross_source`. The worker calls `_reconcile_item` itself, item by item, and saves after
each; it has its own copy of the ending of `reconcile_all`. `RecoveryRuntime` calls
`reconcile_all` with chains of its own; the `recoverable` decorator is a second, smaller recovery
loop around one function. The agent's coordinator reaches the sources through the same
`_guarded_call` as the runner. The API calls `execute_recovery`
and `verify_resolution` in its handlers. The components share state in four places: the API's
registries (all request threads), the worker's SQLite tables and the durable idempotency table
(a process and its successor), and the coordinator the agent's tools are bound to. The ledger is
a process of its own, which a run meets over HTTP.

### Which behaviours are hard

- **Adversarial answers, over many steps.** The class of a failure changes from attempt to
  attempt, and a change restarts the chain; attempts, an iteration cap and the length of the chain
  must bound it together.
- **Threads.** FastAPI runs the `def` endpoints on a pool. `transition_to` (check, then write),
  `attempt_count += 1` and "already executed? / execute / mark executed" are not atomic.
- **Crash and restart.** The worker's checkpoint is one commit per row. The halt, the paused
  flag, the faults and the lifecycles of other sweeps are not part of it. The API's cases live in the
  process and their rows in the database; nothing reads the rows back.
- **Lost answers.** A tool has its effect and raises, or the process dies before the key is recorded,
  or the database refuses the read or the write.
- **A model in the loop.** The agent triggers tools in any order, proposed or not, and the framework
  may run the calls of one turn in threads.
- **A service that comes and goes.** The ledger stalls, dies and restarts in the middle of a recovery.
- **Partial failure.** A compensation fails; the primary source raises; a refusal arrives in the
  middle of `execute`.
- **Time.** An envelope expires between two attempts; a record is fresh when it is classified and
  stale when it is verified.

`PROJECT.json` lists each hazard at its line with the properties that would catch it.

## 2. Modules

| Module | Models | Role |
|---|---|---|
| `FailurePolicy` | `failures/`, `verification/observations.py`, `_verify_problem_class` | pure operators |
| `SdkChains` | `chains_for` and the policies of `sdk.py` | pure operators, EXTENDS `FailurePolicy` |
| `Workflow` | `workflows/run.py`, `recovery/rollback.py`, the scope and envelope gates of `recovery/executor.py` | state machine, EXTENDS `FailurePolicy` |
| `ReconcileJob` | what a caller of `reconcile_all` may rely on | abstract specification, instantiated by `Workflow` as `Job` |
| `Recoverable` | the `recoverable` decorator of `sdk.py` | state machine, EXTENDS `FailurePolicy` |
| `GuardedExecution` | `recovery/executor.py`, `idempotency.py`, `tools.py`, `core/capabilities.py` | state machine |
| `ExceptionApi` | `api/routes.py` (cases), `core/`, `recovery/executor.py`, `verification/`, the mock world | state machine |
| `ArWorker` | `worker/`, the worker endpoints of `api/routes.py` | state machine, EXTENDS `SourceModes` |
| `DurableJob` | what the worker's two tables promise | abstract specification, instantiated by `ArWorker` as `Durable` |
| `SourceModes` | the fault modes of the primary source, and what the runner makes of each | shared by `ArWorker`, which takes it, and `FailureLab`, which checks it |
| `Sources` | the sources of `workloads/invoices.py`, the lab's wrappers, the ledger and its client | pure operators, EXTENDS `FailurePolicy`, `SourceModes` |
| `FailureLab` | the runner wired to its sources as `sdk.py`, `lab/attacks.py`, `api/routes.py` and the worker do | composition: instantiates `Workflow`, EXTENDS `Sources` |
| `Coordinator` | `agent/coordinator.py`, `agent/hooks.py`, `agent/tools.py` | state machine, EXTENDS `FailurePolicy` |
| `FailurePolicyProofs`, `WorkflowProofs`, `RecoverableProofs`, `GuardedExecutionProofs`, `CoordinatorProofs`, `ArWorkerProofs`, `ExceptionApiProofs`, `FailureLabProofs` | | lemmas and theorems |
| `MC*` | | constants, symmetry and, in `MCWorkflow`, checks of `chains_for`, for TLC |

### `FailurePolicy`

`Classify`, `NextAction`, `VerifyProblems`, `CrossProblems` and `VerifyProblemClass` are the code's
functions over abstract data. An outcome is a record with an envelope shape, the `ok` flag, a
marker, attached data, its source's name (trusted, not, or not and with the word STALE in it), and the *set* of error-code tokens in its
error text (the code scans the text for each token in turn, so only their presence matters). A
record keeps its invoice, amount, status and age; the age `aging` is a record that expires
between the two moments the code reads the clock. `VerifyProblemClass` looks for the class in the text of
each problem, as the code does, so an untrusted source whose name carries the word is taken for stale
data; an empty table of chains gives way to the default one (`TableOf`).

### `Workflow`

The run's `state` field is the program counter, as it is in the code; the locals of
`_reconcile_item` and `_recover` (`obs`, `cls`, `step`, `iterations`, `prior`, `tool`) are
variables that `LeaveItem` resets when those functions return.

| Action | Code |
|---|---|
| `Start`, `BeginItem`, `Finish` | `reconcile_all`: the loop over a list of pending items fixed at its start, and the report |
| `FetchPrimary` | the agent's action, outside every gate; it may raise |
| `AcceptPrimary`, `RejectPrimary`, `ObserveNonDict` | observation: verified, refused, or not a dict |
| `SelectRecovery`, `Escalate`, `Freeze`, `RecoveryBound` | the head of the recovery loop |
| `SkipStep` | REJECT, REPLAN |
| `RollBack`, `RollBackFails` | ROLLBACK with and without compensation errors |
| `RecoveryBlocked`, `RecoveryCall` | RETRY, SUBSTITUTE, RETRY_REMAINDER through `_guarded_call` and `execute_recovery` |
| `AcceptRecovery`, `RejectRecovery` | the verdict on a recovered answer, the cross-source check included |
| `ExpireEnvelope` | the clock passes `expires_at` |

`MoveTo(path)` is a sequence of `transition_to` calls. A transition the table does not list makes
the model's `fault` `illegal_transition`, as the code raises; that this never happens
(`NoIllegalTransition`) is a property, not a guard.

Left out: event texts, traces, ids, the audit row of a failure, and the persistence of runs (nothing
reads it back).

### `ReconcileJob`

The abstract job has no chains, answers or attempts: an item goes from PENDING to COMPLETED with an
admissible record, to ESCALATED, or to FROZEN, which halts the job; then the call returns the
report that the items' statuses call for, or raises. `ImplementsJob` (`Job!Spec`) says that the
runner does this, rollbacks, re-classifications and failed compensations being stuttering steps.

### `Sources` and `FailureLab`

`Workflow` lets a tool answer anything. `FailureLab` instantiates it with tools that answer what their
source does in the mode it is in, under each of the repository's five wirings (scope and adapters):
`RecoveryRuntime` with an alternate source, with an authoritative one, with a backup that the scope
leaves out, with the ledger's client, and the worker's. `mode`, `altMode` and `truth` are the
sources' fault tables, chosen in `Init` for each invoice; `flaky` and `oscillating` are the
wrappers of `attack_timeout` and `worker_oscillation`, whose answer depends on how often they were
called. `ServiceStep` is the ledger's process: its endpoints, a stop that forgets the faults, a stall
that the client takes for a timeout. Every step of the runner is a step of `Workflow` with the answer
fixed (`Fetch`, `Call`), or refused for a reason the code has (`Refuse`), or unchanged (`Drive`).

`FateIsForetold` is the table of outcomes that the attacks of the lab and `tests/test_workflows.py` assert
for one order of events each, here for every order, every pair of modes and an envelope that may
expire. It covers `OutcomeOf`, on which `ArWorker` relies. The oscillating source is not part of the table, because
the code contradicts what it announces of it (see [Findings](#findings)); its calls are counted.

### `ExceptionApi`

A request thread is a list of the steps that its handler has still to make (`todo`) and its locals;
each action makes at most one read or one write of a
case, of the idempotency store or of the world (two fields that adjacent statements read are read
together), because the GIL may switch threads between any two of them. `CheckTransition` and
`WriteTransition` are the two halves of `transition_to`; `ReadAttempts` and `CountAttempt` those of
`attempt_count += 1`; `Gate`, `Dispatch` and `MarkExecuted` are the three moments of
`execute_recovery`. `effects` is a history variable: how often an adapter was really called.
The order, payment and customer of the mock world are reduced to `world` (canonical, or the
ambiguous one in which a payment was also refunded), `delivered` and `reconciled`. `SyncCustomer` brings
the balance to 0 at once; a webhook is looked at (`ReplayWebhook`), marked (`DeliverWebhook`), and only then
credited (`CreditCustomer`), so that another thread may be told of a duplicate, a success, before the
balance is 0. Capabilities are left out: `/execute` issues a fresh
one for the very action it then validates.

The handlers write to the database in their order. `save_exception` is two steps: `BuildRow` takes the case
as it is, `SaveCase` commits that row, whatever other threads have done and saved since. The other helpers
of `storage/models.py` are a committed step each (`RecordTransition`, `RecordRow`). `DropWrites` is a
statement that fails: the `except Exception: pass` around it drops it and the rest of its block.
`Restart` empties the registries; the rows stay. Of the trail the last row of each case is kept, of
the other tables which kinds of rows a case has. `LastRowNamesState` is about that row alone:
it does not say that a row starts where the one before it ended, which is not so (see [Findings](#findings)).

### `SdkChains`

`ChainsFor(policies)` is `chains_for`: retries beyond the first `Retry`'s number are dropped,
`substitute` becomes `escalate` without `Substitute`, `Rollback` puts a rollback before the last
escalation of a recoverable class, repeated steps are merged. `MCWorkflow` checks it, as assumptions
that TLC evaluates, for every list of up to three policies: the policies a `RecoveryRuntime`
has by default give exactly the runner's default chains (so `workflow_default` is a run of both);
classes that are not recoverable keep their chains; the retries are bounded and every chain hands
over at its end; and without `Substitute` the rollback that `Rollback` adds stands behind an
escalation and is never reached.

### `Recoverable`

One call of a decorated function. The configuration is a variable chosen in `Init` and never
changed, so one run covers every configuration in `Configs`. `pc` is the place in the wrapper:
`FirstCall`, `Judge` (`classify` and, inside the loop, `verify`), one action per strategy and
outcome (`Retry`, `RetryExhausted`, `Substitute`, `SubstituteRefused`, `Stop`,
`BoundExceeded`), and the two ways out of the loop (`Return`, `VerifyFailed`). The function and its
alternate may answer anything or raise; the wrapper does not catch what they raise. `verify` is a
set of accepted answers, so it is assumed to judge one answer the same way twice.

### `GuardedExecution`

One call of `execute_recovery` at a time, on a shared `DurableIdempotencyStore` table and any number
of store objects over it: the gates (`Refuse`, `Admit`), the idempotency check with its three
outcomes (`CheckDuplicate`, `CheckNew`, `CheckUnreadable`), the dispatch (`Perform`,
`PerformUnanswered`, `Fail`, `UnknownAction`), and the record (`Record`). `Crash` may come between
any two of them: it loses the memory of every store object, not the table. History
variables count effects and the excuses for repeating one (an answer that was lost, a kill,
a refused database operation). The durable store is what `tests/` use; the API and the worker
construct the one in memory, which is the special case of one store and no faults.

### `Coordinator`

The language model is any sequence of tool calls by any agent. Each agent has a hook with the scope it
was built with; the tools act on `bound`, which `Bind` changes at any time, as `build_agent` does;
a call keeps the coordinator it found (`ctx`). The coordinator has no lock, so a call of
`execute_authorized_recovery` is a sequence of steps: `Check` (is the pair accepted?), `Discard`,
`AskAttempts`, `ReadAttempts`, `WriteAttempts` (`_guarded_call`'s bound and its `+= 1`), `Refuse` or
`Reach` (the executor), `Finish` (`last_outcome`). `parallel` says how the framework runs the tool calls
of a turn, which the repository leaves to it (`strands-agents>=1.0`): one after the other, or each
in a thread of its own. The model may also name an item that is not in the run (`Strangers`): the proposal is
accepted and used up, and the look at its attempts raises KeyError (`AskAttempts`).

### `ArWorker` and `DurableJob`

A client's request is a plan, a list of method calls; each call takes the worker's lock, `run` holds
it for a whole sweep, and a request with several calls (`worker_false_completion`) gives it up
between them. `_persist_state` is `SaveJob` and one `SaveRow` per item, each a commit; `Crash` may
come between any two and leaves the database only. What a sweep does with an item follows from its
injected fault (`OutcomeOf` of `SourceModes`). `counted` is the snapshot that `_update_counts` takes;
`status` shows it beside `_run`, without the lock.

`DurableJob` has only the two tables: an item's row may be written until it is finished, the job's row
is written first and is COMPLETED over finished rows only, and both are cleared at once.
`ImplementsDurableJob` says that the worker's commits, kills and resets do no more than that.

## 3. Runs

Every property of a passing run has a mutant in `PROJECT.json`: a plausible bug, written beside the
definition it replaces and marked `Mutant:`, under which TLC finds the property violated.

| Run | Instance | Shows |
|---|---|---|
| `workflow_default` | 2 invoices, default chains, one answer of each kind that the code tells apart, a compensation that fails | `TypeOK`, `NoIllegalTransition`, `FrozenHaltsRun`, `ResultsVerified`, `DirtyIsHandedOver`, `NeverRetryUnrecoverable`, `CompletionAgreesWithAnchor` |
| `workflow_custom` | 2 invoices, a caller's chains (a call after a rollback, 13 rejections in a row, classes left out), a scope without the primary source | `RecoveryStaysInScope`, `PendingIsClean`, `ImplementsJob`, `Terminates` (fair) |
| `lab` | 2 invoices, 5 wirings, every combination of the sources' modes, a ledger that stalls and restarts | `FateIsForetold`, `CallsMatchMode` |
| `api_sequential` | 1 case, 1 thread, `/transition` offered, both worlds, 1 refused write, restarts | `TypeOK`, `AtMostOnce`, `AttemptsMatchEffects`, `SavedIsCurrent`, `LastRowNamesState`, `RecordsAreTrue`, `TerminalIsFinal` |
| `api_concurrent` | 1 case, 2 threads, without `/transition`, without a database | `ResolvedIsProved`, `EffectsWithinPolicy`, `AttemptsAreBacked`, `NoStrandedCase` |
| `worker_restart` | 2 invoices, 2 clients, a conflict and an unknown fault mode, 1 kill | `TypeOK`, `DashboardAgrees`, `ImplementsDurableJob`, `LockIsReleased` (fair) |
| `decorator` | 1 call, 1728 configurations, 10 answers | `CallsAreBounded`, `BoundIsSlack`, `ReturnedIsVerified` |
| `executor` | 4 calls of every kind of action, 2 stores, a capability, 1 kill, 2 database faults | `TypeOK`, `RepeatsAreExplained`, `KnownIsDone`, `CapabilityIsSpent` |
| `agent` | 2 agents, 2 coordinators with disjoint scopes, 1 invoice and 1 item that is none, 2 threads, calls in turn or in parallel | `TypeOK`, `RecoveriesAreBounded`, `BothScopesHold` |
| `worker_frozen` | 2 invoices, 1 client, a conflict, no kill | `FrozenNeverResumes` violated |
| `executor_recorded` | as `executor`, with 2 calls | `RecordedNeverReexecuted` violated |
| `agent_parallel` | as `agent` | `SingleUse` violated |

`OnlyPendingIsWorkedOn` (`Workflow`) and the decorator's `TypeOK` are proved and not run.

The runs that expect a violation are the [findings](#findings).

### Bounds, and why they are enough

- **Two invoices.** Items interact through `halted`, `todo` and the report only; with two there is
  one finished before, and one left after, whatever happens to the other. The proofs hold for any set.
- **`MaxAttempts` = 3** is the code's default, and every default chain is shorter than the
  attempts it may use. `MaxIterations` (12) is the code's own constant. In the lab it is at least 3
  (`LabAssumption`): with fewer, an item whose primary source stays down is escalated before its
  substitute is asked, and its fate is another.
- **Answers.** The catalogue of `workflow_default` has one member for each way `classify`,
  `verify_observation` and `check_cross_source` tell answers apart, for either invoice; the proofs
  hold of every catalogue. Answers are drawn anew at every
  call, so every sequence of them is explored.
- **One expiry.** An envelope expires once and for good; the moment is free.
- **Two threads** are what a lost update or a stale check takes. Cases share nothing but the world, which
  one case and both worlds cover, so one case is enough. The run with two threads leaves the
  database out (a handler never reads it, so it cannot influence a case), and the run with the
  database has one thread, because with two a row can be committed after that of a later state, and the
  trail's order is no longer the case's. `MaxAttempts` = 2 makes "attempts exhausted" reachable: a case has two distinct
  mutations.
- **One refused write** (`MaxFaults`): every write of a handler can be the one that fails; a second one
  would drop writes of a block that is already dropped, or those of another request.
- **`MaxCalls` = 4, `MaxFaults` = 2** (executor): a call, its loss, its repetition and one more; a
  fault of the read and one of the write. `Budgets` gives the capability one or more attempts.
- **`MaxAttempts` = 1, `MaxProposals`** (agent): 2 where calls run in turn, so that a pair is proposed again
  after its attempt is used up; 1 in parallel, where two threads already spend it twice.
- **Every wiring and mode** (lab): the modes are the classes' own lists (`MODES`), the wirings those the
  repository has; two invoices, so that one can halt the run before or after the other.
- **`max_attempts` in -2..3** (decorator): nothing in the code asks it to be positive; -2 is the
  greatest value at which the loop's own bound is met, 3 leaves a retry after the alternate.
- **One kill** (`MaxCrashes`): a kill leaves the database only, so what a second one adds is a
  state from which the first started over.

### Fairness

`Workflow!FairSpec` has weak fairness on the runner's own step. The runner is one thread without a
lock or a wait; its sources answer or raise (the HTTP client has a timeout). Nothing is assumed of the
envelope's expiry. `ArWorker!FairSpec` has weak fairness on the step of the thread in a sweep, for
the same reason; no fairness on requests, and none on who gets the lock next.
The API, the executor and the agent have no liveness
property: they may be idle forever. The decorator has none either: that its loop ends is `CallsAreBounded`,
whose count of the loop's iterations no behaviour can exceed.

## 4. Proofs

`WorkflowProofs` proves, for every set of invoices and amounts, every scope, set of adapters, chain
table, attempts bound, expectation, catalogue of answers and registered compensations allowed by
`RunAssumption`:

| Theorem | States |
|---|---|
| `TypeCorrect` | `Spec => []TypeOK`, in which attempts stay within `MaxAttempts` and iterations within 12 |
| `Inductive` | `Spec => []IInv` |
| `TransitionsLegal` | `Spec => []NoIllegalTransition` |
| `FreezeHalts` | `Spec => []FrozenHaltsRun` |
| `FinishedStaysFinished` | `Spec => []OnlyPendingIsWorkedOn` |
| `ResultsAreVerified` | `Spec => []ResultsVerified` |
| `RecoveryKeepsScope` | `Spec => []RecoveryStaysInScope` |
| `RunnerImplementsJob` | `Spec => ImplementsJob` |
| `HistoryKept` | `Spec => []HistoryInv` |
| `AnchorsHold` | `Spec => CompletionAgreesWithAnchor` |
| `NeverRetries` | `Spec => NeverRetryUnrecoverable`, if `NoCallForUnrecoverable(Chains)` |
| `DirtyTracked`, `DirtyGoesToAHuman`, `PendingItemsAreClean` | `Spec => []DirtyInv`, `Spec => DirtyIsHandedOver`, `Spec => []PendingIsClean`, if `RollbackBeforeEscalate(Chains)` |

The argument. None of these invariants is inductive alone. `TypeInit` and `TypeStep` come first; the
rest rests on `IInv == TypeOK /\ ControlInv /\ HaltInv /\ DataInv /\ ScopeInv`:

- `ControlInv` ties the run's state to the position in the code (an item in hand or none, which
  state belongs to which), which is what makes each transition legal;
- `HaltInv` relates `halted`, the state FROZEN and the frozen item, and says there is one such item;
  without it a second freeze could not be ruled out;
- `DataInv` says that what is still ahead is PENDING, and that a kept result is admissible and that of
  a completed item;
- `ScopeInv` says that a recovered answer came from a tool of the scope.

What the run remembers of an item is a second layer, `HistoryInv`: an anchor (`prior`) lives no longer
than the recovery it belongs to, the class an action is chosen for is that of the last answer (so an
answer that rules out another call, whatever other codes it carries, leaves a class that does:
`HardCodes`, `HardAnswer`), and a PENDING item that is neither ahead nor in hand has no compensation.

Two properties are not true of every chain table, and their theorems say of which. No call follows an
answer that forbids one if the chains of the unrecoverable classes only escalate or freeze; an item
whose compensation failed goes to a human, and what is left PENDING is clean, if a rollback is followed
by an escalation or by nothing. `DefaultsQualify` proves both shapes of the default chains, and `MCWorkflow`
checks them of what `chains_for` derives, for every list of up to three policies. `reconcile_all`
itself takes any chains: with `["rollback", "rollback"]` a compensation that fails leaves its item PENDING
on top of its dirty state, because the second rollback finds no compensation left and succeeds.

`Effects` states once what each kind of step does to items and results, so that each
preservation proof has one step per action. `RunnerImplementsJob` maps each step of the runner to a
step of the job, or to a stutter, under `IInv`.

`FailurePolicyProofs` holds the lemmas about the pure operators (what classes `Classify` and
`NextAction` can return, what a verified record is) that more than one module cites.

`GuardedExecutionProofs`, for every set of actions, resources, stores, capabilities and budgets and
any number of calls, kills and faults:

| Theorem | States |
|---|---|
| `TypeCorrect`, `Inductive` | `Spec => []TypeOK`, `Spec => []IInv` |
| `RepeatsHaveAReason` | `Spec => []RepeatsAreExplained` |
| `StoreIsTruthful` | `Spec => []KnownIsDone` |
| `CapabilitiesRunOut` | `Spec => []CapabilityIsSpent` |

That effects never outnumber the excuses is not inductive: between the effect and its record there is
one effect that nothing excuses yet. The strengthening says for each place in the code what
is still owed: the effect in hand is unrecorded until `Record` or an excuse, a call that passed the
check had no unexcused effect before it, what any store knows was done, and the capability's count
is the number of successful calls.

`RecoverableProofs`, for every configuration and every function: `TypeCorrect`, `Inductive`,
`CallsStayBounded` (for `max_attempts` of 1 and more the function is called at most that often; for less,
once), `BoundStaysSlack`, `ReturnsAreVerified`. The bounds follow from counting: while the
loop runs, `guard` is the number of calls after the first, and those are retries, at most
`max_attempts - 1` of them, and one substitute; so `max_attempts + 3` is never exceeded, for
`max_attempts` of -1 and more.

`CoordinatorProofs`, for every set of agents, coordinators, threads, items, actions, scopes and answers:
`TypeCorrect`, `Inductive`, `RecoveriesStayBounded`, `ReplaysStayBounded`, `ScopesHold`. The bounds count
calls that have not been executed yet. Where calls run one after the other there is at most one
(`OneByOne`); executions and that call, and one more while the pair is accepted, never outnumber the
proposals (`Tallied`). In parallel a proposal lets every call past the check until the first of them
discards it: executions, pending calls and the threads that may still pass the check are at most the
number of threads times the proposals (`ReplaysStayBounded`: how far `SingleUse`, which does not hold
there, can fail). `Budgeted` bounds the attempts, which holds only in turn: a
call that has compared the attempts and not yet counted them saw the present count. `Asking` carries
the hook's verdict from the start of a call to its source.

`ArWorkerProofs`, for any number of items, clients, requests and kills: `TypeCorrect`, `Inductive`,
`DashboardHolds`, and `Refines`, which maps every step of the worker to a step of `DurableJob` or to a
stutter. That a saved row never changes back needs to know what the sweep holds: `RowsKept` (a
finished row is what the sweep in progress has for that item), `SavedKept` (what the sweep has finished is
saved, but for the rows it is writing), `CompleteKept` (a run is complete only on its way to being saved so).
A kill forgets the sweep and keeps the rows, which is why the invariant is about rows while the lock
is held. `ShownKept` carries the last run and the counts.

`ExceptionApiProofs` has two layers. The first holds for any number of cases and of request
threads that interleave at every read and write, with a database or without, any number of
refused writes and restarts:

| Theorem | States |
|---|---|
| `TypeCorrect`, `Inductive` | `Spec => []TypeOK`, `Spec => []IInv` |
| `ResolutionProved` | `Spec => []ResolvedIsProved` |
| `PolicyKept` | `Spec => []EffectsWithinPolicy` |
| `AttemptsBacked` | `Spec => []AttemptsAreBacked` |
| `NoneStranded` | `Spec => []NoStrandedCase` |
| `RowsBelievable` | the rows of executions and verdicts claim only what happened |

A handler is a list of steps, so the types need the order they come in: `Shapes` says that each thread's list
is a chain of `Follows`, the order of the statements in the handlers. `InService` says what a thread
has behind it at each place (an adapter is called for what policy permits, RESOLVED is written after
a verdict of PASS, which nothing takes back). The rest counts or names threads. `Backing`: the attempts of a case and the
threads that have mutated it and not written the count are together at most its mutations; a lost
update only makes the count smaller. `Carried`: a case halfway through `execute` has a thread that will move it on,
also after its own transition was refused because another thread had moved the case. Of the table of cases
nothing is in this layer: a row that is built of one state can be committed after that of a later one.

The second layer has the hypothesis `OneAtATime` (all requests are the same thread, as when the only client
waits for its answers; the server does not enforce it); `SavedTrusted`, `TrailNamesState` and `RecordsBelievable`
prove `SavedIsCurrent`, `LastRowNamesState` and `RecordsAreTrue` from `SInv`: a thread that is armed is so in
the state it checked (`Armed`), a row that is built is that of the case (`Built`), a case whose row is not what
it is has a thread that will still save it (`SavedState`), a mutation that is not counted is that of the
thread at `count` (`Counted`), and the row that a thread will write next fits the row before and the case (`Laws`,
`Followed`). They are theorems about refused writes and restarts between the steps of one request.
`AtMostOnce`, `AttemptsMatchEffects` and `TerminalIsFinal` are checked of one thread (`api_sequential`) and not
proved: what could break them in the code is the race, and with it they are false: TLC finds two threads
that break each of them.

`FailureLabProofs` proves, for every set of invoices, every combination of the sources' modes, each of the
five wirings and every bound on attempts from three up (`LabAssumption`; three is the default of
`run_envelope`, workflows/run.py:121):

| Theorem | States |
|---|---|
| `LabInductive` | `Spec => []LabInv` |
| `FatesForetold` | `Spec => []FateIsForetold` |
| `CallsCounted` | `Spec => []CallsMatchMode` |

The argument is the life of the one item in hand, told by its modes (`Hand`). It is `OnCourse` while
only its primary source has answered: the mode fixes the class, and the position in the chain is the
number of attempts. Then it is `Retried` (the primary source again), or a substitute has answered: either
with something worth judging (`Judging`), whose verdict is the item's fate (`JudgingIsFate`: a substitute
that inflates the amount, or contradicts the stale record that anchors the recovery, leaves it
`Doomed` to freeze), or with something hopeless, and then it is `Lost`. A lost item is what makes the invariant
necessary: the ledger's faults change under it, so its class and its place in the chain may be anything; but
whatever its sources still can answer is in one of four classes (`Hopeless`) none of which completes
or freezes it (`HopelessAnswers`), so that only an escalation is left. Of the sources, the lemmas `FirstAnswers`,
`HopelessAnswers` and `Verdicts` say all that is used; of the runner, one lemma per step (`StartDoes` to
`ExpireDoes`) gives what `Workflow`'s action does once the lab's constants are filled in. `LeaveKeeps` and
`StayKeeps` then reduce each step to the item in hand. The theorem for the worker's wiring is what
`ArWorker` takes for granted (`OutcomeOf`).

Only model-checked: liveness (`Terminates` of the runner, `LockIsReleased`), `AtMostOnce`, `AttemptsMatchEffects` and
`TerminalIsFinal` of a server with one thread, and what
`ChainsFor` returns. TLAPS does not reason about
fairness or ENABLED, nor by induction over data with the installed provers.

## Findings

Each is a run that TLC must find violated, by a behaviour of the code.

| Run | What the repository says | What the code does |
|---|---|---|
| `worker_frozen` | "the system never auto-resumes from FROZEN" (`README.md:381`) | the next sweep restores the rows but not the halt (`worker/ar_worker.py:98`), and completes the job |
| `executor_recorded` | a restart "can never re-execute a recorded mutation" (`recovery/idempotency.py:4-5`) | a table that cannot be read counts as one without the key (`recovery/idempotency.py:44`), and the mutation is executed again |
| `agent_parallel` | "single-use proposals (replay without re-proposal is blocked)" (`agent/coordinator.py:7`) | two parallel calls pass the look (`agent/coordinator.py:56`) before either discards the pair (`:59`) |

The models also contain behaviours that other lines of the repository deny. No run is spent on them; the
properties that come near leave them out by name, and claim nothing of them:

| What the repository says | What the code, and the model, do | Left out of |
|---|---|---|
| "alternating failures until bounded retry → FREEZE", "eventually ESCALATE or FREEZE" (`api/routes.py:351`, `:382`) | the source is up at every even call, so the first retry completes the item | `FateIsForetold` |
| "at most max_attempts primary calls" (`sdk.py:17-19`) | the first call comes before any bound (`sdk.py:198`): one call with `max_attempts` = 0 or less | `CallsAreBounded` |
| "duplicate execution impossible" (`tests/test_replay.py:1`), "mutation idempotency" (`README.md:342`) | two threads pass the check (`recovery/executor.py:51`) before either records its key (`:81`); `README.md:377` names multi-writer races as a limit of the durable store, here it is the one in memory | `AtMostOnce`, checked with one thread |
| "terminals have no outgoing edges at all" (`tests/test_adversarial.py:55`) | a thread checked against the state before (`core/exceptions.py:26`) overwrites the terminal one (`:27`) | `TerminalIsFinal`, checked with one thread |
| "complete audit trail" (`storage/database.py:1`) | DETECTED -> INVESTIGATING is followed by AUTHORIZED -> VERIFYING: the moves between leave no row (`api/routes.py:151-157`) | `LastRowNamesState` |
| "terminal states require verification" (`README.md:340`) | `/transition` takes the client's word for RESOLVED (`api/routes.py:225`) | `ResolvedIsProved` |
| "Envelope shape - untrusted until proven otherwise" (`failures/classifier.py:57`) | a primary answer that is not a dict is classified, then dereferenced (`workflows/run.py:233`): the run raises `AttributeError` (`ObserveNonDict`) | `ImplementsJob`, whose job may raise |

And behaviours that no line clearly denies:

- *Runner.* Under a caller's chains that go on after a failed rollback, the item is called for again, or
  restored, on top of dirty state (`recovery/rollback.py:5` means to avoid it). A rolled back item stays PENDING in a finished run; an exception of the primary source
  ends the run, while the same one in recovery is contained; a record of another invoice completes an
  item when the amounts agree (`verify_observation` does not compare identities,
  `check_cross_source` does); `Rollback` without `Substitute` never rolls back.
- *API.* `ResolvedIsProved` exempts a case that a client declared RESOLVED. `/transition` also leaves no row
  in `state_transitions`. `/execute` mutates a case in any state, counts the attempt and only then raises, so
  such a mutation has no row either. The row that says RESOLVED is committed before the verification row that
  justifies it. With two threads an attempt can be lost, which delays an escalation, and a row of
  `exceptions` or of `state_transitions` can be committed after that of a later state.
- *Ledger.* The service's records have no `updated_at`, which the schema requires, so the HTTP ledger never
  verifies (`Sources!LedgerRecord`), although its client offers "the same `.fetch()` interface"
  (`external/client.py:3`): a recovery that depends on it escalates. In the worker's job it is never asked,
  because the alternate source comes first.
- *Dashboard.* It offers the faults `partial` and `inflated`, which the primary source does not know, so the
  sweep raises.
- *Worker.* A job with an escalated item is saved as COMPLETED. After a sweep that raised, the counts and the
  items that the dashboard shows come from different sweeps. A resumed sweep clears the lifecycles
  (`worker/ar_worker.py:113`) and saves them, and the recovery modes, empty for the items finished
  earlier.
- *Agent.* Where the calls of a turn run in parallel, the attempts may pass their bound. A proposal for an
  item that is not in the run is accepted; triggering it raises KeyError.

## 5. Not modelled, and why

- Wording, ids, timestamps, traces, the dashboard and the demos: no behaviour depends on them.
- The tables `failures` and `workflow_runs`, and that of the envelopes: written, never read, and in the case
  of the runner's with every error ignored.
- The worker's lifecycles and recovery modes: display data that nothing branches on.
- The agent's read-only tools and reports.
- `PrimaryAccounting.fetch_batch`: only `lab/attacks.py` calls it, with a merge of its own; the class
  PARTIAL_RESULT and its chain are part of `FailurePolicy` and `Workflow`.
- Evidence collection and proposals: reads, and static tables.
- `check_narrowing`: called by demos and tests only.

## 6. Plan

The order was: the runner and its decision procedures first (`FailurePolicy`, `Workflow`,
`ReconcileJob`), because every other part relies on them; then what runs concurrently or survives a
crash (`ExceptionApi`, `ArWorker`, `GuardedExecution`); then the two other ways into the
runtime (`Recoverable`, `Coordinator`); then what surrounds them: the sources and the ledger
(`Sources`, `FailureLab`), the audit tables, the agent's parallel calls, and what the worker's tables
promise (`DurableJob`). Each has its proofs when TLC agrees. Left:

1. `run_canonical_recovery` and the scenarios as one-thread behaviours of `ExceptionApi`, and the
   in-memory store of the API as an implementation of `GuardedExecution`'s.
2. The coordinator sharing a run with the runner.
3. Proofs: a bound that every step of the runner decreases, which is the safety half
   of `Terminates`; that a step of `FailureLab` is a step of `Workflow`, so that what is proved of the runner
   holds of its compositions.
