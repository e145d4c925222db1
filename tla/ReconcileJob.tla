---------------------------- MODULE ReconcileJob ----------------------------
(***************************************************************************)
(* What a caller of reconcile_all() may rely on, without any of its loops: *)
(* items leave PENDING one at a time and at most once, COMPLETED only with *)
(* an admissible record, a frozen item stops everything, and the report    *)
(* the caller gets tells what became of the items.                         *)
(***************************************************************************)
CONSTANTS
    Items,
    NoResult,    \* the value of results where there is no record
    Admissible   \* the records that may complete each item

VARIABLES
    items, results, halted,
    report,      \* how the call returned, "none" while it runs
    fault        \* the exception that escaped from it, or "none"

vars == <<items, results, halted, report, fault>>

Open == report = "none" /\ fault = "none"

Init ==
    /\ items \in [Items -> {"PENDING", "COMPLETED"}]
    /\ results = [i \in Items |-> NoResult]
    /\ halted = FALSE
    /\ report = "none"
    /\ fault = "none"

\* An item is reconciled, from the primary source or by recovery.
Reconcile(i) ==
    /\ Open
    /\ ~halted
    /\ items[i] = "PENDING"
    /\ items' = [items EXCEPT ![i] = "COMPLETED"]
    /\ \E r \in Admissible[i] : results' = [results EXCEPT ![i] = r]
    /\ UNCHANGED <<halted, report, fault>>

\* An item is handed to a human; the others go on.
HandOver(i) ==
    /\ Open
    /\ ~halted
    /\ items[i] = "PENDING"
    /\ items' = [items EXCEPT ![i] = "ESCALATED"]
    /\ UNCHANGED <<results, halted, report, fault>>

\* An item freezes, and with it the run.
Halt(i) ==
    /\ Open
    /\ ~halted
    /\ items[i] = "PENDING"
    /\ items' = [items EXCEPT ![i] = "FROZEN"]
    /\ halted' = TRUE
    /\ UNCHANGED <<results, report, fault>>

\* The report a caller must get for these item statuses.
Verdict ==
    IF halted THEN "FROZEN"
    ELSE IF \E i \in Items : items[i] = "PENDING" THEN "INCOMPLETE"
    ELSE IF \E i \in Items : items[i] = "ESCALATED" THEN "DONE_WITH_ESCALATIONS"
    ELSE "COMPLETED"

Return ==
    /\ Open
    /\ report' = Verdict
    /\ UNCHANGED <<items, results, halted, fault>>

\* A tool's exception, or the runner's own, ends the call.
Raise ==
    /\ Open
    /\ fault' \in {"tool_raised", "attribute_error"}
    /\ UNCHANGED <<items, results, halted, report>>

Next ==
    \/ \E i \in Items : Reconcile(i) \/ HandOver(i) \/ Halt(i)
    \/ Return
    \/ Raise

Spec == Init /\ [][Next]_vars
=============================================================================
