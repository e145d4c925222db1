-------------------------- MODULE GuardedExecution --------------------------
(***************************************************************************)
(* recovery/executor.py execute_recovery() over a DurableIdempotencyStore  *)
(* (recovery/idempotency.py): the gates in front of a recovery tool, the   *)
(* capability a call spends, and the key of a mutation, kept in the memory *)
(* of the store object and in SQLite.                                      *)
(*                                                                         *)
(* One process makes one call after another, through any of its store      *)
(* objects.  Between the check of the key, the tool's effect and the       *)
(* record of the key the process may be killed; the database may refuse to *)
(* be opened, read or written at any operation; a tool may have its effect *)
(* and answer with an error, or raise, all the same.                       *)
(*                                                                         *)
(* All calls are about one exception, so that a key is an action and a     *)
(* resource.  The envelope and the scope are fixed for it; time is the     *)
(* moment at which the envelope or a capability expires.                   *)
(***************************************************************************)
EXTENDS Naturals

CONSTANTS
    BuiltIn,        \* the actions that execute_recovery dispatches itself
    Registered,     \* the actions with an entry in the tool registry
    ReadOnlyTools,  \* the entries registered with mutating=False
    Asked,          \* the actions that callers ask for
    Resources,
    Scope,          \* the original scope, the actions asked for where there is none
    Permitted,      \* allowed by the envelope, and not forbidden
    Stores,         \* the store objects of the process
    Caps,           \* the capabilities a caller holds at a time
    Budgets,        \* values of max_attempts
    MaxCalls,       \* bound on the calls of a behaviour
    MaxCrashes,     \* bound on the kills of the process
    MaxFaults,      \* bound on the operations the database refuses
    NoCap, NoCall   \* "there is none"

ASSUME GuardAssumption ==
    /\ ReadOnlyTools \subseteq Registered
    /\ BuiltIn \cap Registered = {}
    /\ Budgets \subseteq Nat \ {0}
    /\ MaxCalls \in Nat /\ MaxCrashes \in Nat /\ MaxFaults \in Nat
    /\ NoCap \notin [action : Asked, resource : Resources, budget : Budgets, used : Nat,
                     status : {"ACTIVE", "CONSUMED", "EXPIRED"}, late : BOOLEAN, won : Nat]
    /\ NoCall \notin [store : Stores, cap : Caps, action : Asked, resource : Resources]

Keys == Asked \X Resources

VARIABLES
    memory,    \* _seen of each store object
    rows,      \* the keys in the table actions
    caps,      \* the capabilities in the caller's hands
    late,      \* the envelope has expired
    call,      \* the call in progress
    pc,        \* "idle", "check", "dispatch" or "record"
    answer,    \* how the last call ended
    effects,   \* times a mutation had its effect
    lost,      \* times it had its effect and the tool did not answer ok
    calls, crashes, faults

store   == <<memory, rows>>
history == <<effects, lost>>
bounds  == <<calls, crashes, faults>>
vars    == <<store, caps, late, call, pc, answer, history, bounds>>

-----------------------------------------------------------------------------
\* Mutant: every tool is guarded by its key, read-only fetches too.
Mutating_Always(action) == TRUE

\* A tool that is not registered counts as mutating.
Mutating(action) == action \notin ReadOnlyTools

KeyOf == <<call.action, call.resource>>

Capability ==
    [action : Asked, resource : Resources, budget : Budgets, used : Nat,
     status : {"ACTIVE", "CONSUMED", "EXPIRED"},
     late : BOOLEAN,   \* expires_at has passed
     won : Nat]        \* calls that succeeded with it

Init ==
    /\ memory = [s \in Stores |-> {}]
    /\ rows = {}
    /\ caps = [c \in Caps |-> NoCap]
    /\ late = FALSE
    /\ call = NoCall
    /\ pc = "idle"
    /\ answer = "none"
    /\ effects = [k \in Keys |-> 0]
    /\ lost = [k \in Keys |-> 0]
    /\ calls = 0 /\ crashes = 0 /\ faults = 0

-----------------------------------------------------------------------------
\* The environment of a call.

\* A caller makes a new capability for an action on a resource.
Issue(c, action, resource, budget) ==
    /\ pc = "idle"
    /\ caps' = [caps EXCEPT ![c] = [action |-> action, resource |-> resource,
                                    budget |-> budget, used |-> 0, status |-> "ACTIVE",
                                    late |-> FALSE, won |-> 0]]
    /\ UNCHANGED <<store, late, call, pc, answer, history, bounds>>

ExpireCapability(c) ==
    /\ caps[c] # NoCap
    /\ ~caps[c].late
    /\ caps' = [caps EXCEPT ![c].late = TRUE]
    /\ UNCHANGED <<store, late, call, pc, answer, history, bounds>>

ExpireEnvelope ==
    /\ ~late
    /\ late' = TRUE
    /\ UNCHANGED <<store, caps, call, pc, answer, history, bounds>>

\* The process is killed and started again: what it held in memory is gone.
Crash ==
    /\ crashes < MaxCrashes
    /\ crashes' = crashes + 1
    /\ memory' = [s \in Stores |-> {}]
    /\ caps' = [c \in Caps |-> NoCap]
    /\ call' = NoCall
    /\ pc' = "idle"
    /\ answer' = "none"
    /\ UNCHANGED <<rows, late, history, calls, faults>>

-----------------------------------------------------------------------------
\* capability.validate(), in the order of its tests; it also writes the status.

Spent(cap) == cap.status = "CONSUMED" \/ cap.used >= cap.budget

Expired(cap) == cap.status = "EXPIRED" \/ cap.late

Valid(cap, action, resource) ==
    /\ cap.status = "ACTIVE" /\ ~Spent(cap) /\ ~Expired(cap)
    /\ cap.action = action
    /\ cap.resource = resource

Validated(cap) ==
    IF cap.status = "CONSUMED" THEN cap
    ELSE IF Expired(cap) THEN [cap EXCEPT !.status = "EXPIRED"]
    ELSE IF Spent(cap) THEN [cap EXCEPT !.status = "CONSUMED"]
    ELSE cap

\* The gates before the capability's.
Admitted(action) == ~late /\ action \in Permitted /\ action \in Scope

\* The call returns or raises.
Answered(how) ==
    /\ answer' = how
    /\ call' = NoCall
    /\ pc' = "idle"

\* A call that the gates refuse.
Refuse(c, action, resource) ==
    /\ pc = "idle"
    /\ calls < MaxCalls
    /\ calls' = calls + 1
    /\ caps[c] # NoCap
    /\ ~(Admitted(action) /\ Valid(caps[c], action, resource))
    /\ caps' = [caps EXCEPT ![c] = IF Admitted(action) THEN Validated(@) ELSE @]
    /\ Answered("refused")
    /\ UNCHANGED <<store, late, history, crashes, faults>>

\* A call that they let through: a mutation goes on to the check of its key.
Admit(s, c, action, resource) ==
    /\ pc = "idle"
    /\ calls < MaxCalls
    /\ calls' = calls + 1
    /\ caps[c] # NoCap
    /\ Admitted(action)
    /\ Valid(caps[c], action, resource)
    /\ call' = [store |-> s, cap |-> c, action |-> action, resource |-> resource]
    /\ pc' = IF Mutating(action) THEN "check" ELSE "dispatch"
    /\ answer' = "none"
    /\ UNCHANGED <<store, caps, late, history, crashes, faults>>

-----------------------------------------------------------------------------
\* already_executed()

\* Mutant: the table is not read.
Seen_InMemory(k) == k \in memory[call.store]

Seen(k) == k \in memory[call.store] \cup rows

\* The key is known: the cache is warmed and the call refused.
CheckDuplicate ==
    /\ pc = "check"
    /\ Seen(KeyOf)
    /\ memory' = [memory EXCEPT ![call.store] = @ \cup {KeyOf}]
    /\ Answered("DUPLICATE_ACTION")
    /\ UNCHANGED <<rows, caps, late, history, bounds>>

CheckNew ==
    /\ pc = "check"
    /\ ~Seen(KeyOf)
    /\ pc' = "dispatch"
    /\ UNCHANGED <<store, caps, late, call, answer, history, bounds>>

\* A database that cannot be read is taken for one without the key.
CheckUnreadable ==
    /\ pc = "check"
    /\ KeyOf \notin memory[call.store]
    /\ faults < MaxFaults
    /\ faults' = faults + 1
    /\ pc' = "dispatch"
    /\ UNCHANGED <<store, caps, late, call, answer, history, calls, crashes>>

-----------------------------------------------------------------------------
\* Dispatch, to a built-in adapter or a registered handler.

HasTool == call.action \in BuiltIn \cup Registered

Effect ==
    IF call.action \in ReadOnlyTools THEN UNCHANGED effects
    ELSE effects' = [effects EXCEPT ![KeyOf] = @ + 1]

\* The tool has its effect and answers ok (a read-only one answers a dict).
Perform ==
    /\ pc = "dispatch"
    /\ HasTool
    /\ Effect
    /\ pc' = "record"
    /\ UNCHANGED <<store, caps, late, call, answer, lost, bounds>>

\* How a call ends without an ok: an adapter's exception passes through, a
\* handler's, an error or a malformed answer is an AuthorizationError.
Failures == IF call.action \in BuiltIn THEN {"raised", "failed"} ELSE {"failed"}

\* The tool has its effect, and raises or does not answer ok.
PerformUnanswered ==
    /\ pc = "dispatch"
    /\ HasTool
    /\ Mutating(call.action)
    /\ Effect
    /\ lost' = [lost EXCEPT ![KeyOf] = @ + 1]
    /\ \E how \in Failures : Answered(how)
    /\ UNCHANGED <<store, caps, late, bounds>>

\* It has no effect, and raises or does not answer ok.
Fail ==
    /\ pc = "dispatch"
    /\ HasTool
    /\ \E how \in Failures : Answered(how)
    /\ UNCHANGED <<store, caps, late, history, bounds>>

UnknownAction ==
    /\ pc = "dispatch"
    /\ ~HasTool
    /\ Answered("UNKNOWN_ACTION")
    /\ UNCHANGED <<store, caps, late, history, bounds>>

-----------------------------------------------------------------------------
\* Mutant: a capability outlives the calls it was issued for.
Consume_Never(cap) == [cap EXCEPT !.won = @ + 1]

\* capability.consume()
Consume(cap) ==
    [cap EXCEPT !.used = @ + 1,
                !.won = @ + 1,
                !.status = IF cap.used + 1 >= cap.budget THEN "CONSUMED" ELSE @]

\* Mutant: the row is filed under the resource alone, not under the key.
MarkRows_ByResource ==
    \/ rows' = rows \cup {call.resource} /\ UNCHANGED faults
    \/ faults < MaxFaults /\ faults' = faults + 1 /\ UNCHANGED rows

\* The insert into actions; a database that refuses it is ignored.
MarkRows ==
    \/ rows' = rows \cup {KeyOf} /\ UNCHANGED faults
    \/ faults < MaxFaults /\ faults' = faults + 1 /\ UNCHANGED rows

\* consume(), and mark_executed() for a mutation.
Record ==
    /\ pc = "record"
    /\ caps' = [caps EXCEPT ![call.cap] = Consume(@)]
    /\ IF Mutating(call.action)
       THEN /\ memory' = [memory EXCEPT ![call.store] = @ \cup {KeyOf}]
            /\ MarkRows
       ELSE UNCHANGED <<store, faults>>
    /\ Answered("ok")
    /\ UNCHANGED <<late, history, calls, crashes>>

-----------------------------------------------------------------------------
ExecuteRecovery ==
    \/ \E c \in Caps, action \in Asked, resource \in Resources :
          \/ Refuse(c, action, resource)
          \/ \E s \in Stores : Admit(s, c, action, resource)
    \/ CheckDuplicate
    \/ CheckNew
    \/ CheckUnreadable
    \/ Perform
    \/ PerformUnanswered
    \/ Fail
    \/ UnknownAction
    \/ Record

Environment ==
    \/ \E c \in Caps, action \in Asked, resource \in Resources, budget \in Budgets :
          Issue(c, action, resource, budget)
    \/ \E c \in Caps : ExpireCapability(c)
    \/ ExpireEnvelope
    \/ Crash

Next == ExecuteRecovery \/ Environment

Spec == Init /\ [][Next]_vars

-----------------------------------------------------------------------------
Call == [store : Stores, cap : Caps, action : Asked, resource : Resources]

Answers == {"none", "refused", "DUPLICATE_ACTION", "UNKNOWN_ACTION", "raised", "failed", "ok"}

\* Every variable has its type, and a call is in progress where the pc says so.
TypeOK ==
    /\ memory \in [Stores -> SUBSET Keys]
    /\ rows \in SUBSET Keys
    /\ caps \in [Caps -> Capability \cup {NoCap}]
    /\ late \in BOOLEAN
    /\ call \in Call \cup {NoCall}
    /\ pc \in {"idle", "check", "dispatch", "record"}
    /\ call = NoCall <=> pc = "idle"
    /\ call # NoCall => caps[call.cap] # NoCap
    /\ answer \in Answers
    /\ effects \in [Keys -> Nat]
    /\ lost \in [Keys -> Nat]
    /\ calls \in Nat /\ crashes \in Nat /\ faults \in Nat

\* A mutation has its effect once, and once more only for each of its lost
\* answers, each kill of the process and each operation the database refused:
\* with none of them, "a process restart can never re-execute a mutation".
RepeatsAreExplained ==
    \A k \in Keys : effects[k] <= 1 + lost[k] + crashes + faults

\* A key that the store knows is that of a mutation that had its effect: a call
\* whose tool failed may be made again, and a retry of a read-only fetch is never
\* refused as a duplicate.
KnownIsDone ==
    \A k \in rows \cup UNION {memory[s] : s \in Stores} : effects[k] > 0

\* A capability is good for max_attempts successful calls, whatever failed or
\* was refused in between.
CapabilityIsSpent ==
    \A c \in Caps : caps[c] # NoCap => caps[c].won <= caps[c].budget

\* "a process restart during/after recovery can never re-execute a recorded
\* mutation": a key in the table has no further effect.
RecordedNeverReexecuted ==
    [][\A k \in rows : effects'[k] = effects[k]]_vars
=============================================================================
