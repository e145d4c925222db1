------------------------------- MODULE Sources -------------------------------
(***************************************************************************)
(* The sources of the invoice workload, as operators from their fault      *)
(* modes to the answers they give:                                         *)
(*   - workloads/invoices.py    the primary, alternate, authoritative ones;*)
(*   - lab/attacks.py, api/routes.py   the primaries that fail by turns;   *)
(*   - external/ledger_server.py and external/client.py                    *)
(*                              the ledger that is reached over HTTP.      *)
(*                                                                         *)
(* Every invoice has the amount Due; an inflated record carries Inflated.  *)
(***************************************************************************)
EXTENDS FailurePolicy, SourceModes

CONSTANTS Due, Inflated

ASSUME AmountsDiffer == {Due, Inflated} \subseteq Amounts /\ Due # Inflated

\* Primary sources whose mode depends on how often they were asked before: one
\* that fails at the first call, one that fails at every other call.
FailingByTurns  == {"flaky", "oscillating"}
LabModes        == PrimaryModes \cup FailingByTurns
AlternateModes  == {"ok", "malformed", "inflated", "stale", "down"}
LedgerModes     == {"ok", "stale", "conflict", "down", "inflated"}
ServerStates    == {"up", "slow", "stopped"}

-----------------------------------------------------------------------------
Invoice(i, amount, status, age) ==
    [kind |-> "record", invoice |-> i, amount |-> amount, status |-> status, age |-> age]

\* An answer with data attached, ok or not; the source is always a known one.
Answer(data) ==
    [env |-> "dict", ok |-> TRUE, mark |-> "none", data |-> data, source |-> "trusted", err |-> {}]
Error(class) ==
    [env |-> "dict", ok |-> FALSE, mark |-> "none", data |-> NoData, source |-> "trusted",
     err |-> {class}]

-----------------------------------------------------------------------------
\* PrimaryAccounting.fetch(), and the wrappers around it, at the call that follows
\* `before' others for this invoice.  An unknown mode has no answer: it raises.
PrimaryAnswer(mode, before, i) ==
    LET paid == Answer(Invoice(i, Due, "PAID", "fresh")) IN
    CASE mode = "ok" -> paid
      [] mode = "flaky" -> IF before = 0 THEN Error("TRANSIENT") ELSE paid
      [] mode = "oscillating" -> IF before % 2 = 0 THEN Error("TRANSIENT") ELSE paid
      [] mode = "http_503" -> Error("TRANSIENT")
      [] mode = "http_401" -> Error("AUTHENTICATION")
      [] mode = "malformed_amount" -> Answer(Junk)
      [] mode = "stale" -> Answer(Invoice(i, Due, "PAID", "stale"))
      [] mode = "conflict" -> [paid EXCEPT !.mark = "conflict"]

\* AlternateSource.fetch(): "CONNECTION_REFUSED" when it is down.
AlternateAnswer(mode, i) ==
    CASE mode = "ok" -> Answer(Invoice(i, Due, "PAID", "fresh"))
      [] mode = "malformed" -> Answer(Junk)
      [] mode = "inflated" -> Answer(Invoice(i, Inflated, "PAID", "fresh"))
      [] mode = "stale" -> Answer(Invoice(i, Due, "PAID", "stale"))
      [] mode = "down" -> Error("TOOL_UNAVAILABLE")

\* AuthoritativeSource.fetch()
AuthoritativeAnswer(truth, i) == Answer(Invoice(i, Due, truth, "fresh"))

-----------------------------------------------------------------------------
\* The ledger over HTTP.

\* fetch_record(): the records of the service have no `updated_at', which the schema
\* requires; only the stale mode adds one.
LedgerRecord(mode, i) ==
    IF mode = "stale" THEN Invoice(i, Due, "PAID", "stale") ELSE Junk

\* AuthoritativeLedgerClient.fetch(): a 503, a timeout and a refused connection are
\* errors, everything else is the service's record.
LedgerAnswer(server, mode, i) ==
    CASE server = "stopped" -> Error("TOOL_UNAVAILABLE")
      [] server = "slow" -> Error("TRANSIENT")
      [] server = "up" /\ mode = "down" -> Error("TRANSIENT")
      [] server = "up" /\ mode # "down" -> Answer(LedgerRecord(mode, i))

-----------------------------------------------------------------------------
\* Every answer that one of the sources can give.
SourceAnswers ==
    UNION {{PrimaryAnswer(mode, n, i) : mode \in LabModes \ {"unknown"}, n \in 0..1}
             \cup {AlternateAnswer(mode, i) : mode \in AlternateModes}
             \cup {AuthoritativeAnswer(truth, i) : truth \in {"PAID", "REFUNDED"}}
             \cup {LedgerAnswer(server, mode, i) : server \in ServerStates, mode \in LedgerModes}
           : i \in Items}
=============================================================================
