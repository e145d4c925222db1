----------------------------- MODULE FailureLab -----------------------------
(***************************************************************************)
(* The workflow runner composed with the invoice sources, wired as the     *)
(* repository wires them:                                                  *)
(*   - "alternate", "authoritative", "narrow": RecoveryRuntime, as the     *)
(*     attacks of lab/attacks.py build it (in the last one the backup      *)
(*     exists and the scope leaves it out);                                *)
(*   - "ledger": the same with the ledger's HTTP client, which offers the  *)
(*     authoritative source's interface;                                   *)
(*   - "worker": the worker's scope and adapters, with that client.        *)
(*                                                                         *)
(* Workflow lets a tool answer anything; here it answers what its source   *)
(* does in the mode it is in, and it refuses a call only for a reason the  *)
(* code has.  Meanwhile clients attack and reset the ledger's service, and *)
(* its process may stop, stall and come back between any two steps.        *)
(***************************************************************************)
EXTENDS Sources, FiniteSets

CONSTANTS NoItem, MaxAttempts

\* Three attempts are what run_envelope() allows unless it is told otherwise; with fewer
\* an item whose primary source stays down never gets to its substitute.
ASSUME LabAssumption == NoItem \notin Items /\ MaxAttempts \in Nat /\ MaxAttempts >= 3

Wirings == {"alternate", "authoritative", "narrow", "ledger", "worker"}

ScopeOf ==
    [w \in Wirings |->
        {"fetch_primary"} \cup {t \in {"fetch_alternate"} : w \in {"alternate", "worker"}}
                          \cup {t \in {"fetch_authoritative"} : w \in {"authoritative", "ledger", "worker"}}]

AdaptersOf ==
    [w \in Wirings |->
        {a \in {"alternate"} : w \in {"alternate", "narrow", "worker"}}
          \cup {a \in {"authoritative"} : w \in {"authoritative", "ledger", "worker"}}]

VARIABLES
    state, items, attempts, results, undo, dirty, halted, todo, item, tool, obs, cls, step,
    iterations, prior, expired, report, fault,   \* the runner's, see Workflow
    wiring,     \* how the runner is set up
    mode,       \* PrimaryAccounting.faults, or the wrapper around fetch
    altMode,    \* AlternateSource.faults
    truth,      \* AuthoritativeSource.truth
    ledger,     \* the ledger service's _faults
    server,     \* the ledger service's process
    fetched     \* len(primary.calls), of each invoice

setup   == <<wiring, mode, altMode, truth>>
service == <<ledger, server>>
vars == <<state, items, attempts, results, undo, dirty, halted, todo, item, tool, obs, cls, step,
          iterations, prior, expired, report, fault, setup, service, fetched>>

Run(w) == INSTANCE Workflow WITH
    Scope <- ScopeOf[w], Adapters <- AdaptersOf[w], Chains <- DefaultChains,
    Expected <- [i \in Items |-> {Due}], Answers <- SourceAnswers, Registered <- {}

-----------------------------------------------------------------------------
\* A source has the modes that its wiring can reach.
Init ==
    /\ \E w \in Wirings : wiring = w /\ Run(w)!Init
    /\ items = [i \in Items |-> "PENDING"]
    /\ mode \in [Items -> LabModes]
    /\ altMode \in [Items -> IF wiring = "alternate" THEN AlternateModes ELSE {"ok"}]
    /\ truth \in [Items -> IF wiring = "authoritative" THEN {"PAID", "REFUNDED"} ELSE {"PAID"}]
    /\ ledger = [i \in Items |-> "ok"]
    /\ server = "up"
    /\ fetched = [i \in Items |-> 0]

Served(w, t, i) ==
    CASE t = "fetch_primary" -> PrimaryAnswer(mode[i], fetched[i], i)
      [] t = "fetch_alternate" -> AlternateAnswer(altMode[i], i)
      [] t = "fetch_authoritative" -> IF w = "authoritative" THEN AuthoritativeAnswer(truth[i], i)
                                      ELSE LedgerAnswer(server, ledger[i], i)

CountCall(t) ==
    fetched' = IF t = "fetch_primary" THEN [fetched EXCEPT ![item] = @ + 1] ELSE fetched

\* The agent's own call: an unknown mode raises, whatever the runner's other actions.
Fetch(w) ==
    /\ Run(w)!FetchPrimary
    /\ IF mode[item] = "unknown" THEN fault' = "tool_raised"
       ELSE fault' # "tool_raised" /\ obs' = Served(w, "fetch_primary", item)
    /\ CountCall("fetch_primary")

\* A call in recovery.  Only an unknown mode would raise, and has before.
Call(w) ==
    /\ Run(w)!RecoveryCall
    /\ obs' = Served(w, tool', item)
    /\ CountCall(tool')

\* A call is refused when the attempts are used up or the envelope has expired.
Refuse(w) ==
    /\ Run(w)!RecoveryBlocked
    /\ Run(w)!Exhausted \/ expired
    /\ UNCHANGED fetched

Drive(w) ==
    /\ \/ Run(w)!Start
       \/ \E i \in Items : Run(w)!BeginItem(i)
       \/ Run(w)!Finish
       \/ Run(w)!AcceptPrimary
       \/ Run(w)!RejectPrimary
       \/ Run(w)!Escalate
       \/ Run(w)!Freeze
       \/ Run(w)!SelectRecovery
       \/ Run(w)!SkipStep
       \/ Run(w)!AcceptRecovery
       \/ Run(w)!RejectRecovery
       \/ Run(w)!ExpireEnvelope
    /\ UNCHANGED fetched

RunStep(w) ==
    /\ wiring = w
    /\ Fetch(w) \/ Call(w) \/ Refuse(w) \/ Drive(w)
    /\ UNCHANGED <<setup, service>>

-----------------------------------------------------------------------------
\* The ledger's service; where nothing is wired to it, what it does is left out.
Busy(w) == wiring = w /\ w = "ledger" /\ Run(w)!Running

\* POST /ledger/{invoice_id}/attack
InjectFault(i, m) ==
    /\ ledger' = [ledger EXCEPT ![i] = m]
    /\ UNCHANGED server

\* POST /ledger/reset
ResetLedger ==
    /\ ledger' = [i \in Items |-> "ok"]
    /\ UNCHANGED server

\* The process stops, stalls, or is started; its faults are in its memory.
ChangeServer(s) ==
    /\ server' = s
    /\ ledger' = IF server = "stopped" THEN [i \in Items |-> "ok"] ELSE ledger

ServiceStep(w) ==
    /\ Busy(w)
    /\ \/ server # "stopped" /\ \E i \in Items, m \in LedgerModes : InjectFault(i, m)
       \/ server # "stopped" /\ ResetLedger
       \/ \E s \in ServerStates \ {server} : ChangeServer(s)
    /\ UNCHANGED <<state, items, attempts, results, undo, dirty, halted, todo, item, tool, obs, cls,
                   step, iterations, prior, expired, report, fault, setup, fetched>>

Terminated(w) == wiring = w /\ Run(w)!Terminated /\ UNCHANGED <<setup, service, fetched>>

Next == \E w \in Wirings : RunStep(w) \/ ServiceStep(w) \/ Terminated(w)

Spec == Init /\ [][Next]_vars
-----------------------------------------------------------------------------
\* What must become of an item whose primary answer needs a substitute.
Substituted(i) ==
    CASE wiring = "alternate" ->
            (CASE altMode[i] = "ok" -> "COMPLETED"
               [] altMode[i] = "inflated" -> "FROZEN"
               [] altMode[i] \in {"malformed", "stale", "down"} -> "ESCALATED")
      [] wiring = "authoritative" ->
            IF truth[i] = "REFUNDED" /\ mode[i] = "stale" THEN "FROZEN" ELSE "COMPLETED"
      [] wiring \in {"narrow", "ledger"} -> "ESCALATED"

\* What must become of an item, from the modes of its sources alone; for the worker
\* that is what ArWorker takes for granted.
Fate(i) ==
    IF mode[i] = "flaky" THEN "COMPLETED"
    ELSE IF wiring = "worker" \/ mode[i] \notin Cured THEN OutcomeOf[mode[i]]
    ELSE Substituted(i)

\* Every item meets its fate, whatever order the invoices come in, whatever happens
\* to the ledger's service meanwhile and however often the class of the failure
\* changes: the sources' modes decide, and only an envelope that expires in time
\* hands to a human what recovery would have settled (lab/attacks.py, the outcomes
\* the attacks assert; tests/test_workflows.py).  An oscillating source is left out: the
\* endpoint that makes one announces ESCALATE or FREEZE, and the first retry completes
\* the item.
FateIsForetold ==
    \A i \in Items : mode[i] # "oscillating" =>
        \/ items[i] = "PENDING"
        \/ items[i] = Fate(i)
        \/ expired /\ items[i] = "ESCALATED"

\* The primary source is asked once where it must not be asked again, twice where
\* the first retry succeeds, and three times where it stays down and there is no
\* substitute; an item that is pending when the run returns was never asked for, or
\* raised (the call counts that lab/attacks.py asserts).
CallsMatchMode ==
    \A i \in Items :
        /\ mode[i] \in {"ok", "http_401", "conflict", "unknown"} => fetched[i] <= 1
        /\ mode[i] \in FailingByTurns => fetched[i] <= 2
        /\ fetched[i] <= 1 + MaxAttempts
        /\ /\ items[i] = "ESCALATED" /\ ~expired
           /\ wiring = "narrow" /\ mode[i] = "http_503"
           => fetched[i] = 3
        /\ (report # "none" /\ items[i] = "PENDING") => halted /\ fetched[i] = 0
=============================================================================
