------------------------------ MODULE ArWorker ------------------------------
(***************************************************************************)
(* worker/ar_worker.py and worker/store.py: the accounts-receivable job    *)
(* that HTTP requests start, pause, attack and reset, and that survives a  *)
(* kill of the process through two SQLite tables.                          *)
(*                                                                         *)
(* The worker's methods are serialised by one lock, which run() holds for  *)
(* a whole sweep; a request may call several methods in a row, releasing   *)
(* the lock between them.  The sweep saves its progress after every item,  *)
(* one committed row at a time, and the process may die between any two    *)
(* of these commits.                                                       *)
(*                                                                         *)
(* What becomes of an item is Workflow's business; here it follows from    *)
(* the fault injected for it (SourceModes), which FailureLab checks.       *)
(*                                                                         *)
(* Left out: the lifecycles shown for each item (_traces), which nothing   *)
(* branches on.                                                            *)
(***************************************************************************)
EXTENDS Naturals, Sequences, FiniteSets, SourceModes

CONSTANTS
    N,           \* the invoices of the job are 1..N, in the order of its ids
    Clients,     \* the threads that serve requests
    Free,        \* the holder of the lock when nobody holds it
    Modes,       \* the faults that clients inject
    MaxCrashes,  \* bound on the kills of the process
    Offered      \* the requests that clients make

Items == 1..N

ASSUME WorkerAssumption ==
    /\ N \in Nat \ {0}
    /\ Free \notin Clients
    /\ Modes \subseteq DOMAIN OutcomeOf
    /\ MaxCrashes \in Nat

\* The calls a request makes, in order.  A sweep may be limited to its first max
\* items.
Sweep(max)       == [op |-> "run", max |-> max]
Inject(i, mode)  == [op |-> "inject", item |-> i, mode |-> mode]
Simple(op)       == [op |-> op]
Target           == N
FalseCompletion  ==
    <<Simple("reset"), Inject(Target, "conflict"), Sweep(N)>>

Plans ==
    {<<Sweep(max)>> : max \in {m \in 1..N : "run" \in Offered}}
    \cup {<<Inject(i, mode)>> : i \in {j \in Items : "attack" \in Offered}, mode \in Modes}
    \cup {<<Simple(op)>> : op \in Offered \cap {"pause", "resume", "stop", "reset"}}
    \cup {p \in {FalseCompletion} : "false-completion" \in Offered}

NoRun == [state |-> "none", items |-> [i \in Items |-> "PENDING"]]

VARIABLES
    faults,    \* fault_overrides
    paused,    \* _paused
    stopped,   \* _stopped
    last,      \* _run, NoRun standing for None
    counted,   \* the items that _status_counts counts
    lock,      \* the client in run(), or Free
    plan,      \* the calls each client's request has still to make
    run,       \* the WorkflowRun of the sweep: its state and its items
    todo,      \* ids_to_run, less the items visited
    pc,        \* where the sweep is
    unsaved,   \* the rows that _persist_state has still to write
    job,       \* worker_jobs: the saved status of the job, "none" without a row
    rows,      \* worker_invoices: the saved status of each item, or "none"
    crashes    \* number of kills so far

memory == <<faults, paused, stopped, last, counted>>
sweep  == <<run, todo, pc, unsaved>>
db     == <<job, rows>>
vars   == <<memory, lock, plan, sweep, db, crashes>>

-----------------------------------------------------------------------------
NoFaults == [i \in Items |-> "ok"]
Pending(items) == {i \in Items : items[i] = "PENDING"}
First(set) == CHOOSE i \in set : \A j \in set : i <= j

Init ==
    /\ faults = NoFaults
    /\ paused = FALSE
    /\ stopped = FALSE
    /\ last = NoRun
    /\ counted = NoRun.items
    /\ lock = Free
    /\ plan = [c \in Clients |-> <<>>]
    /\ run = NoRun
    /\ todo = {}
    /\ pc = "none"
    /\ unsaved = {}
    /\ job = "none"
    /\ rows = [i \in Items |-> "none"]
    /\ crashes = 0

Request(c, p) ==
    /\ plan[c] = <<>>
    /\ plan' = [plan EXCEPT ![c] = p]
    /\ UNCHANGED <<memory, lock, sweep, db, crashes>>

\* c gets the lock for its next call.
Calls(c, op) ==
    /\ lock = Free
    /\ plan[c] # <<>>
    /\ Head(plan[c]).op = op

\* A call that ends without having been interleaved with another.
Atomic(c) ==
    /\ plan' = [plan EXCEPT ![c] = Tail(@)]
    /\ UNCHANGED <<lock, sweep, crashes>>

-----------------------------------------------------------------------------
\* The short methods.

InjectFault(c) ==
    /\ Calls(c, "inject")
    /\ faults' = [faults EXCEPT ![Head(plan[c]).item] = Head(plan[c]).mode]
    /\ Atomic(c)
    /\ UNCHANGED <<paused, stopped, last, counted, db>>

Pause(c) ==
    /\ Calls(c, "pause")
    /\ paused' = TRUE
    /\ Atomic(c)
    /\ UNCHANGED <<faults, stopped, last, counted, db>>

Resume(c) ==
    /\ Calls(c, "resume")
    /\ paused' = FALSE
    /\ Atomic(c)
    /\ UNCHANGED <<faults, stopped, last, counted, db>>

Stop(c) ==
    /\ Calls(c, "stop")
    /\ stopped' = TRUE
    /\ Atomic(c)
    /\ UNCHANGED <<faults, paused, last, counted, db>>

\* reset_job(): both deletes are committed at once.
ResetJob ==
    /\ job' = "none"
    /\ rows' = [i \in Items |-> "none"]

Reset(c) ==
    /\ Calls(c, "reset")
    /\ faults' = NoFaults
    /\ paused' = FALSE
    /\ stopped' = FALSE
    /\ last' = NoRun
    /\ counted' = NoRun.items
    /\ ResetJob
    /\ Atomic(c)

-----------------------------------------------------------------------------
\* run()

\* The first max of the pending items.
FirstPending(items, max) ==
    {i \in Pending(items) : Cardinality({j \in Pending(items) : j <= i}) <= max}

\* load_invoices(): the rows there are.
LoadInvoices == [i \in {j \in Items : rows[j] # "none"} |-> rows[i]]

\* Mutant: only the completed rows are restored.
RestoredItems_CompletedOnly ==
    [i \in Items |-> IF rows[i] = "COMPLETED" THEN "COMPLETED" ELSE "PENDING"]

\* The items of _make_run(): every row that is not PENDING is restored.
RestoredItems ==
    [i \in Items |-> IF i \in DOMAIN LoadInvoices THEN LoadInvoices[i] ELSE "PENDING"]

\* A new run is never halted: neither `halted' nor the job's status is restored.
StartSweep(c) ==
    /\ Calls(c, "run")
    /\ lock' = c
    /\ run' = [state |-> "RUNNING", items |-> RestoredItems]
    /\ todo' = FirstPending(RestoredItems, Head(plan[c]).max)
    /\ pc' = "loop"
    /\ unsaved' = {}
    /\ UNCHANGED <<memory, plan, db, crashes>>

\* The loop goes on to its next item.
AtNextItem(c) == lock = c /\ pc = "loop" /\ todo # {} /\ ~paused /\ ~stopped /\ run.state # "FROZEN"
AtEnd(c)      == lock = c /\ pc = "loop" /\ (todo = {} \/ paused \/ stopped \/ run.state = "FROZEN")

\* Mutant: progress is saved at the end of the sweep only.
SweepItem_NoCheckpoint(c) ==
    /\ AtNextItem(c)
    /\ LET i == First(todo)
           outcome == OutcomeOf[faults[i]]
       IN  /\ outcome # "raises"
           /\ run' = [state |-> IF outcome = "FROZEN" THEN "FROZEN" ELSE "RESUMED",
                      items |-> [run.items EXCEPT ![i] = outcome]]
           /\ todo' = todo \ {i}
    /\ counted' = run'.items
    /\ UNCHANGED <<faults, paused, stopped, last, lock, plan, pc, unsaved, db, crashes>>

\* _reconcile_item(), whose outcome is then counted and saved.
SweepItem(c) ==
    /\ AtNextItem(c)
    /\ LET i == First(todo)
           outcome == OutcomeOf[faults[i]]
       IN  /\ outcome # "raises"
           /\ run' = [state |-> IF outcome = "FROZEN" THEN "FROZEN" ELSE "RESUMED",
                      items |-> [run.items EXCEPT ![i] = outcome]]
           /\ todo' = todo \ {i}
    /\ counted' = run'.items
    /\ pc' = "save_job"
    /\ UNCHANGED <<faults, paused, stopped, last, lock, plan, unsaved, db, crashes>>

\* The locals of run() die when it returns or raises.
LeaveSweep ==
    /\ run' = NoRun
    /\ todo' = {}
    /\ pc' = "none"

\* Mutant: the lock is not released on the way out.
SweepRaises_KeepsLock(c) ==
    /\ AtNextItem(c)
    /\ OutcomeOf[faults[First(todo)]] = "raises"
    /\ LeaveSweep
    /\ plan' = [plan EXCEPT ![c] = <<>>]
    /\ UNCHANGED <<memory, lock, unsaved, db, crashes>>

\* The exception of the primary source leaves run(), and the request with it.
SweepRaises(c) ==
    /\ AtNextItem(c)
    /\ OutcomeOf[faults[First(todo)]] = "raises"
    /\ LeaveSweep
    /\ lock' = Free
    /\ plan' = [plan EXCEPT ![c] = <<>>]
    /\ UNCHANGED <<memory, unsaved, db, crashes>>

\* The loop is over.  Only a sweep that ran to its end and left nothing pending
\* completes the run; escalated items do not matter.
EndSweep(c) ==
    /\ AtEnd(c)
    /\ IF ~paused /\ ~stopped /\ run.state # "FROZEN" /\ Pending(run.items) = {}
       THEN run' = [run EXCEPT !.state = "COMPLETED"]
       ELSE UNCHANGED run
    /\ counted' = run.items
    /\ pc' = "save_job_last"
    /\ UNCHANGED <<faults, paused, stopped, last, lock, plan, todo, unsaved, db, crashes>>

\* _persist_state(): the job's row, then the rows of the items in order, each
\* committed by itself.
SaveJob(c) ==
    /\ lock = c
    /\ \/ pc = "save_job" /\ pc' = "save_rows"
       \/ pc = "save_job_last" /\ pc' = "save_rows_last"
    /\ job' = run.state
    /\ unsaved' = Items
    /\ UNCHANGED <<memory, lock, plan, run, todo, rows, crashes>>

SaveRow(c) ==
    /\ lock = c
    /\ unsaved # {}
    /\ LET i == First(unsaved)
       IN  /\ rows' = [rows EXCEPT ![i] = run.items[i]]
           /\ unsaved' = unsaved \ {i}
    /\ UNCHANGED <<memory, lock, plan, run, todo, pc, job, crashes>>

NextRound(c) ==
    /\ lock = c
    /\ pc = "save_rows"
    /\ unsaved = {}
    /\ pc' = "loop"
    /\ UNCHANGED <<memory, lock, plan, run, todo, unsaved, db, crashes>>

\* Mutant: the request goes on, the lock stays taken.
ReturnSweep_KeepsLock(c) ==
    /\ lock = c
    /\ pc = "save_rows_last"
    /\ unsaved = {}
    /\ last' = run
    /\ LeaveSweep
    /\ plan' = [plan EXCEPT ![c] = Tail(@)]
    /\ UNCHANGED <<faults, paused, stopped, counted, lock, unsaved, db, crashes>>

\* run() keeps the sweep as _run and gives the lock back.
ReturnSweep(c) ==
    /\ lock = c
    /\ pc = "save_rows_last"
    /\ unsaved = {}
    /\ last' = run
    /\ lock' = Free
    /\ LeaveSweep
    /\ plan' = [plan EXCEPT ![c] = Tail(@)]
    /\ UNCHANGED <<faults, paused, stopped, counted, unsaved, db, crashes>>

-----------------------------------------------------------------------------
\* status(): what the dashboard shows of an item, by itself and in the counts,
\* without the lock.
Shown(i) == {last.items[i], counted[i]}

\* The process is killed and started again: the database is all that is left.
Crash ==
    /\ crashes < MaxCrashes
    /\ crashes' = crashes + 1
    /\ faults' = NoFaults
    /\ paused' = FALSE
    /\ stopped' = FALSE
    /\ last' = NoRun
    /\ counted' = NoRun.items
    /\ lock' = Free
    /\ plan' = [c \in Clients |-> <<>>]
    /\ LeaveSweep
    /\ unsaved' = {}
    /\ UNCHANGED db

SweepStep(c) ==
    \/ SweepItem(c)
    \/ SweepRaises(c)
    \/ EndSweep(c)
    \/ SaveJob(c)
    \/ SaveRow(c)
    \/ NextRound(c)
    \/ ReturnSweep(c)

Next ==
    \/ \E c \in Clients :
          \/ \E p \in Plans : Request(c, p)
          \/ InjectFault(c)
          \/ Pause(c)
          \/ Resume(c)
          \/ Stop(c)
          \/ Reset(c)
          \/ StartSweep(c)
          \/ SweepStep(c)
    \/ Crash

Spec == Init /\ [][Next]_vars

\* The thread in run() keeps running: its sources answer, or raise.
FairSpec == Spec /\ \A c \in Clients : WF_vars(SweepStep(c))
-----------------------------------------------------------------------------
ItemStatuses == {"PENDING", "COMPLETED", "ESCALATED", "FROZEN"}
RunStates == {"none", "RUNNING", "RESUMED", "FROZEN", "COMPLETED"}

\* Every variable has its type.
TypeOK ==
    /\ faults \in [Items -> DOMAIN OutcomeOf]
    /\ paused \in BOOLEAN
    /\ stopped \in BOOLEAN
    /\ last \in [state : RunStates, items : [Items -> ItemStatuses]]
    /\ counted \in [Items -> ItemStatuses]
    /\ lock \in Clients \cup {Free}
    /\ run \in [state : RunStates, items : [Items -> ItemStatuses]]
    /\ todo \subseteq Items
    /\ pc \in {"none", "loop", "save_job", "save_rows", "save_job_last", "save_rows_last"}
    /\ unsaved \subseteq Items
    /\ job \in RunStates
    /\ rows \in [Items -> ItemStatuses \cup {"none"}]
    /\ lock # Free => plan[lock] # <<>> /\ Head(plan[lock]).op = "run"

\* Between sweeps the dashboard never claims more than a restart would find: an
\* item that the last run or the counts have as finished is saved with that status,
\* also when a later sweep raised: it is counted, and not kept as the last run.
DashboardAgrees ==
    lock = Free => \A i \in Items : Shown(i) \subseteq {"PENDING", rows[i]}

\* Every sweep ends and gives the lock back, so pause, reset and the next sweep
\* get their turn.
LockIsReleased == lock # Free ~> lock = Free

Durable == INSTANCE DurableJob WITH Finished <- ItemStatuses \ {"PENDING"}

\* However requests, sweeps and kills between two commits fall, the tables change as
\* the durable job allows: no finished row is ever written with another status, by
\* the sweep that restored it or by the one after a kill, and "COMPLETED" is never
\* written over a row that is not finished (README: "completed items aren't
\* replayed").
ImplementsDurableJob == Durable!Spec

\* "the system never auto-resumes from FROZEN": a job saved as FROZEN stays so
\* until it is reset.
FrozenNeverResumes == [][job = "FROZEN" => job' \in {"FROZEN", "none"}]_vars
=============================================================================
