----------------------------- MODULE DurableJob -----------------------------
(***************************************************************************)
(* What the two tables of the worker promise, whoever sweeps, pauses or    *)
(* resets the job and whenever the process dies: an item that is saved as  *)
(* finished stays as it is saved until the whole job is cleared, and the   *)
(* job is saved as completed only over rows that are all finished.         *)
(***************************************************************************)
CONSTANTS Items, Finished   \* the statuses of an item that is done with

VARIABLES
    job,     \* the saved state of the job, "none" without a row
    rows     \* the saved status of each item, "none" without a row

vars == <<job, rows>>

Blank == [i \in Items |-> "none"]

Init == job = "none" /\ rows = Blank

\* The job's row is always the first one written.
SaveJob(s) ==
    /\ s = "COMPLETED" => \A i \in Items : rows[i] \in Finished
    /\ job' = s
    /\ UNCHANGED rows

SaveItem(i, s) ==
    /\ job # "none"
    /\ rows[i] \notin Finished
    /\ rows' = [rows EXCEPT ![i] = s]
    /\ UNCHANGED job

Clear == job' = "none" /\ rows' = Blank

Next ==
    \/ \E s \in {"RESUMED", "RUNNING", "FROZEN", "COMPLETED"} : SaveJob(s)
    \/ \E i \in Items, s \in Finished \cup {"PENDING"} : SaveItem(i, s)
    \/ Clear

Spec == Init /\ [][Next]_vars
=============================================================================
