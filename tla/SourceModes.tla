----------------------------- MODULE SourceModes -----------------------------
(***************************************************************************)
(* The fault modes of the primary source, and what a sweep of the worker   *)
(* makes of an item in each of them.  ArWorker takes OutcomeOf for what    *)
(* the runner does; FailureLab checks that the runner does it.             *)
(***************************************************************************)

\* The faults of the primary source that the alternate one makes up for: it has no
\* faults of its own in the worker's job, and it agrees with the ledger.
Cured == {"http_503", "malformed_amount", "stale"}

\* PrimaryAccounting.MODES, and any other word that a client injects (the
\* dashboard offers "partial" and "inflated").
PrimaryModes == Cured \cup {"ok", "conflict", "http_401", "unknown"}

\* What _reconcile_item() makes of an item in each mode of the primary source; a
\* mode that it does not know makes it raise.
OutcomeOf ==
    [mode \in PrimaryModes |->
        CASE mode \in Cured \cup {"ok"} -> "COMPLETED"
          [] mode = "conflict" -> "FROZEN"
          [] mode = "http_401" -> "ESCALATED"
          [] mode = "unknown" -> "raises"]
=============================================================================
