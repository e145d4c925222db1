--------------------------- MODULE ArWorkerProofs ---------------------------
(***************************************************************************)
(* The worker's tables keep what the durable job promises, and between     *)
(* sweeps the dashboard shows nothing that they do not hold: the types,    *)
(* then what memory and the tables know of each other at every point of a  *)
(* sweep, then the refinement of DurableJob.                               *)
(***************************************************************************)
EXTENDS ArWorker, WellFoundedInduction, TLAPS

Finished == ItemStatuses \ {"PENDING"}

\* The calls that a request may still have to make.
CallsOf ==
    {Sweep(max) : max \in 1..N}
    \cup {Inject(i, mode) : i \in Items, mode \in DOMAIN OutcomeOf}
    \cup {Simple(op) : op \in {"pause", "resume", "stop", "reset"}}

PlansTyped == plan \in [Clients -> Seq(CallsOf)]

Saving == {"save_rows", "save_rows_last"}

\* Where the sweep is: it has the lock, a state that is a row's, and rows to write
\* only while it writes them, after the job's row.
SweepKept ==
    /\ pc = "none" <=> lock = Free
    /\ pc = "none" <=> run.state = "none"
    /\ pc \notin Saving => unsaved = {}
    /\ pc \in Saving => job = run.state
    /\ \A i \in todo : run.items[i] = "PENDING"

\* A run is complete once every item is done with, and only to be saved so.
CompleteKept ==
    run.state = "COMPLETED" =>
        /\ pc \in {"save_job_last", "save_rows_last"}
        /\ \A i \in Items : run.items[i] # "PENDING"

\* A finished row is what the sweep holds of the item.
RowsKept ==
    lock # Free => \A i \in Items : rows[i] \in Finished => run.items[i] = rows[i]

\* What the sweep has finished is saved, but for the rows that it has still to write
\* and the item it comes from.
SavedKept ==
    /\ pc \in {"loop", "save_job_last"} =>
          \A i \in Items : run.items[i] \in {"PENDING", rows[i]}
    /\ pc \in Saving => \A i \in Items \ unsaved : rows[i] = run.items[i]

\* The last run is saved, and so are the counts between the items of a sweep; while
\* an item is saved the counts are the sweep's.
ShownKept ==
    /\ \A i \in Items : last.items[i] \in {"PENDING", rows[i]}
    /\ pc \in {"none", "loop"} => \A i \in Items : counted[i] \in {"PENDING", rows[i]}
    /\ pc \notin {"none", "loop"} => counted = run.items

IInv ==
    /\ TypeOK
    /\ PlansTyped
    /\ SweepKept
    /\ CompleteKept
    /\ RowsKept
    /\ SavedKept
    /\ ShownKept
-----------------------------------------------------------------------------
\* What is less than what, as a set of pairs.
Less == {p \in Nat \X Nat : p[1] < p[2]}

\* The item that comes next is one of those there are.
LEMMA FirstIsIn ==
    ASSUME NEW set, set \subseteq Items, set # {}
    PROVE  First(set) \in set
<1>1. set \subseteq Nat
  BY WorkerAssumption DEF Items
<1>2. IsWellFoundedOn(Less, Nat)
  BY NatLessThanWellFounded, SMT DEF OpToRel, Less
<1>3. PICK i \in set : \A j \in set : ~ (<<j, i>> \in Less)
  BY <1>1, <1>2, WFMin, Zenon
<1>4. ASSUME NEW j \in set PROVE i <= j
  <2>1. <<j, i>> \in Nat \X Nat /\ <<j, i>>[1] = j /\ <<j, i>>[2] = i
    BY <1>1
  <2>2. ~ (j < i)
    BY <2>1, <1>3, Zenon DEF Less
  <2> QED
    BY <1>1, <2>2
<1> QED
  BY <1>4 DEF First

LEMMA Outcomes ==
    ASSUME NEW mode \in DOMAIN OutcomeOf
    PROVE  OutcomeOf[mode] \in {"COMPLETED", "FROZEN", "ESCALATED", "raises"}
BY DEF OutcomeOf, PrimaryModes, Cured

LEMMA OkIsAMode == "ok" \in DOMAIN OutcomeOf /\ "conflict" \in DOMAIN OutcomeOf
BY DEF OutcomeOf, PrimaryModes, Cured

\* The rows that a sweep starts from.
LEMMA Restored ==
    ASSUME TypeOK
    PROVE  /\ RestoredItems \in [Items -> ItemStatuses]
           /\ \A i \in Items : RestoredItems[i] = IF rows[i] # "none" THEN rows[i] ELSE "PENDING"
BY DEF TypeOK, RestoredItems, LoadInvoices, ItemStatuses

LEMMA NoRunTyped ==
    NoRun \in [state : RunStates, items : [Items -> ItemStatuses]]
BY DEF NoRun, RunStates, ItemStatuses

\* A request's calls.
LEMMA PlanCalls ==
    ASSUME NEW p \in Plans
    PROVE  p \in Seq(CallsOf)
<1>1. \A max \in 1..N : Sweep(max) \in CallsOf
  BY DEF CallsOf
<1>2. \A i \in Items, mode \in DOMAIN OutcomeOf : Inject(i, mode) \in CallsOf
  BY DEF CallsOf
<1>3. \A op \in {"pause", "resume", "stop", "reset"} : Simple(op) \in CallsOf
  BY DEF CallsOf
<1>4. N \in 1..N /\ Target \in Items
  BY WorkerAssumption DEF Target, Items
<1>5. FalseCompletion \in Seq(CallsOf)
  BY <1>1, <1>2, <1>3, <1>4, OkIsAMode DEF FalseCompletion
<1>6. \A call \in CallsOf : <<call>> \in Seq(CallsOf)
  OBVIOUS
<1> QED
  BY <1>1, <1>2, <1>3, <1>5, <1>6, WorkerAssumption, SMTT(30) DEF Plans

\* The fields of the calls.
LEMMA CallFields ==
    ASSUME NEW call \in CallsOf
    PROVE  call.op = "inject" => call.item \in Items /\ call.mode \in DOMAIN OutcomeOf
BY DEF CallsOf, Sweep, Inject, Simple

-----------------------------------------------------------------------------
\* Types.

LEMMA InitType == Init => TypeOK /\ PlansTyped
<1> SUFFICES ASSUME Init PROVE TypeOK /\ PlansTyped
  OBVIOUS
<1>1. NoFaults \in [Items -> DOMAIN OutcomeOf]
  BY OkIsAMode DEF NoFaults
<1>2. NoRun.items \in [Items -> ItemStatuses]
  BY DEF NoRun, ItemStatuses
<1>3. TypeOK
  BY <1>1, <1>2, NoRunTyped DEF Init, TypeOK, RunStates
<1> QED
  BY <1>3 DEF Init, PlansTyped

LEMMA StepPlans ==
    ASSUME TypeOK, PlansTyped, [Next]_vars
    PROVE  PlansTyped'
<1>1. ASSUME NEW c \in Clients, plan[c] # <<>>, plan' = [plan EXCEPT ![c] = Tail(@)]
      PROVE  PlansTyped'
  BY <1>1 DEF PlansTyped
<1>2. ASSUME NEW c \in Clients, plan' = [plan EXCEPT ![c] = <<>>]
      PROVE  PlansTyped'
  BY <1>2 DEF PlansTyped
<1>3. plan' = plan => PlansTyped'
  BY DEF PlansTyped
<1>4. ASSUME NEW c \in Clients, NEW p \in Plans, Request(c, p)
      PROVE  PlansTyped'
  BY <1>4, PlanCalls DEF PlansTyped, Request
<1>5. ASSUME NEW c \in Clients,
             InjectFault(c) \/ Pause(c) \/ Resume(c) \/ Stop(c) \/ Reset(c)
      PROVE  PlansTyped'
  BY <1>1, <1>5 DEF InjectFault, Pause, Resume, Stop, Reset, Atomic, Calls
<1>6. ASSUME NEW c \in Clients, SweepRaises(c)
      PROVE  PlansTyped'
  BY <1>2, <1>6 DEF SweepRaises
<1>7. ASSUME NEW c \in Clients, ReturnSweep(c)
      PROVE  PlansTyped'
  BY <1>1, <1>7, WorkerAssumption DEF ReturnSweep, TypeOK
<1>8. Crash => PlansTyped'
  BY DEF Crash, PlansTyped
<1>9. ASSUME NEW c \in Clients,
             StartSweep(c) \/ SweepItem(c) \/ EndSweep(c) \/ SaveJob(c) \/ SaveRow(c) \/ NextRound(c)
      PROVE  PlansTyped'
  BY <1>3, <1>9 DEF StartSweep, SweepItem, EndSweep, SaveJob, SaveRow, NextRound
<1>10. UNCHANGED vars => PlansTyped'
  BY <1>3 DEF vars
<1> QED
  BY <1>4, <1>5, <1>6, <1>7, <1>8, <1>9, <1>10 DEF Next, SweepStep

LEMMA StepType ==
    ASSUME TypeOK, PlansTyped, [Next]_vars
    PROVE  TypeOK'
<1>a. NoRun \in [state : RunStates, items : [Items -> ItemStatuses]]
         /\ NoRun.items \in [Items -> ItemStatuses]
  BY NoRunTyped DEF NoRun, ItemStatuses
<1>b. NoFaults \in [Items -> DOMAIN OutcomeOf]
  BY OkIsAMode DEF NoFaults
<1>c. lock # Free => lock \in Clients
  BY DEF TypeOK
<1>1. ASSUME NEW c \in Clients, NEW p \in Plans, Request(c, p)
      PROVE  TypeOK'
  BY <1>1, <1>c DEF TypeOK, PlansTyped, Request, memory, sweep, db
<1>2. ASSUME NEW c \in Clients, InjectFault(c)
      PROVE  TypeOK'
  <2>1. Head(plan[c]) \in CallsOf
    BY <1>2 DEF InjectFault, Calls, PlansTyped
  <2>2. Head(plan[c]).item \in Items /\ Head(plan[c]).mode \in DOMAIN OutcomeOf
    BY <1>2, <2>1, CallFields DEF InjectFault, Calls
  <2> QED
    BY <1>2, <2>2 DEF TypeOK, InjectFault, Calls, Atomic, sweep, db
<1>3. ASSUME NEW c \in Clients, Pause(c) \/ Resume(c) \/ Stop(c)
      PROVE  TypeOK'
  BY <1>3 DEF TypeOK, Pause, Resume, Stop, Calls, Atomic, sweep, db
<1>4. ASSUME NEW c \in Clients, Reset(c)
      PROVE  TypeOK'
  BY <1>4, <1>a, <1>b DEF TypeOK, Reset, ResetJob, Calls, Atomic, sweep, db, RunStates
<1>5. ASSUME NEW c \in Clients, StartSweep(c)
      PROVE  TypeOK'
  <2>1. run' \in [state : RunStates, items : [Items -> ItemStatuses]]
    BY <1>5, Restored DEF StartSweep, RunStates
  <2>2. todo' \subseteq Items
    BY <1>5 DEF StartSweep, FirstPending, Pending
  <2> QED
    BY <1>5, <2>1, <2>2 DEF TypeOK, StartSweep, Calls, memory, db
<1>6. ASSUME NEW c \in Clients, SweepItem(c)
      PROVE  TypeOK'
  <2> DEFINE i == First(todo)
             outcome == OutcomeOf[faults[i]]
  <2>1. i \in todo /\ i \in Items
    BY <1>6, FirstIsIn DEF SweepItem, AtNextItem, TypeOK
  <2>2. outcome \in {"COMPLETED", "FROZEN", "ESCALATED"}
    BY <1>6, <2>1, Outcomes DEF SweepItem, TypeOK
  <2>3. run' \in [state : RunStates, items : [Items -> ItemStatuses]]
           /\ run'.items \in [Items -> ItemStatuses]
    BY <1>6, <2>1, <2>2 DEF SweepItem, TypeOK, RunStates, ItemStatuses
  <2> QED
    BY <1>6, <2>3 DEF TypeOK, SweepItem, db
<1>7. ASSUME NEW c \in Clients, SweepRaises(c)
      PROVE  TypeOK'
  BY <1>7, <1>a DEF TypeOK, SweepRaises, LeaveSweep, memory, db
<1>8. ASSUME NEW c \in Clients, EndSweep(c)
      PROVE  TypeOK'
  <2>1. run' \in [state : RunStates, items : [Items -> ItemStatuses]]
    BY <1>8 DEF EndSweep, TypeOK, RunStates
  <2> QED
    BY <1>8, <2>1 DEF TypeOK, EndSweep, db
<1>9. ASSUME NEW c \in Clients, SaveJob(c)
      PROVE  TypeOK'
  BY <1>9 DEF TypeOK, SaveJob, memory
<1>10. ASSUME NEW c \in Clients, SaveRow(c)
       PROVE  TypeOK'
  <2>1. First(unsaved) \in Items
    BY <1>10, FirstIsIn DEF SaveRow, TypeOK
  <2> QED
    BY <1>10, <2>1 DEF TypeOK, SaveRow, memory
<1>11. ASSUME NEW c \in Clients, NextRound(c)
       PROVE  TypeOK'
  BY <1>11 DEF TypeOK, NextRound, memory, db
<1>12. ASSUME NEW c \in Clients, ReturnSweep(c)
       PROVE  TypeOK'
  BY <1>12, <1>a DEF TypeOK, ReturnSweep, LeaveSweep, db
<1>13. Crash => TypeOK'
  BY <1>a, <1>b DEF TypeOK, Crash, LeaveSweep, db
<1>14. UNCHANGED vars => TypeOK'
  BY DEF TypeOK, vars, memory, sweep, db
<1> QED
  BY <1>1, <1>2, <1>3, <1>4, <1>5, <1>6, <1>7, <1>8, <1>9, <1>10, <1>11, <1>12, <1>13, <1>14
  DEF Next, SweepStep
-----------------------------------------------------------------------------
\* What memory and the tables know of each other.

LEMMA InitKept == Init => SweepKept /\ CompleteKept /\ RowsKept /\ SavedKept /\ ShownKept
BY DEF Init, SweepKept, CompleteKept, RowsKept, SavedKept, ShownKept, NoRun, Saving

\* A short method that leaves the tables and what is shown of them alone.
LEMMA ShortKept ==
    ASSUME IInv, UNCHANGED <<lock, sweep, db, last, counted>>
    PROVE  SweepKept' /\ CompleteKept' /\ RowsKept' /\ SavedKept' /\ ShownKept'
BY DEF IInv, SweepKept, CompleteKept, RowsKept, SavedKept, ShownKept, sweep, db

LEMMA ResetKept ==
    ASSUME IInv, NEW c \in Clients, Reset(c)
    PROVE  SweepKept' /\ CompleteKept' /\ RowsKept' /\ SavedKept' /\ ShownKept'
<1>1. lock = Free /\ pc = "none" /\ UNCHANGED <<lock, sweep>>
  BY DEF Reset, Calls, Atomic, IInv, SweepKept
<1>2. last'.items = [i \in Items |-> "PENDING"] /\ counted' = [i \in Items |-> "PENDING"]
  BY DEF Reset, NoRun
<1> QED
  BY <1>1, <1>2 DEF IInv, SweepKept, CompleteKept, RowsKept, SavedKept, ShownKept, sweep, Saving

\* A sweep starts with the rows that there are.
LEMMA StartKept ==
    ASSUME IInv, NEW c \in Clients, StartSweep(c)
    PROVE  SweepKept' /\ CompleteKept' /\ RowsKept' /\ SavedKept' /\ ShownKept'
<1>1. /\ lock' = c /\ lock' # Free /\ pc' = "loop" /\ unsaved' = {} /\ run'.state = "RUNNING"
      /\ run'.items = RestoredItems /\ rows' = rows /\ last' = last /\ counted' = counted
      /\ lock = Free /\ pc = "none"
  BY WorkerAssumption DEF StartSweep, Calls, memory, db, IInv, SweepKept
<1>2. todo' \subseteq {i \in Items : run'.items[i] = "PENDING"}
  BY <1>1 DEF StartSweep, FirstPending, Pending
<1>3. \A i \in Items : run'.items[i] = IF rows[i] # "none" THEN rows[i] ELSE "PENDING"
  BY <1>1, Restored DEF IInv
<1> QED
  BY <1>1, <1>2, <1>3
  DEF IInv, SweepKept, CompleteKept, RowsKept, SavedKept, ShownKept, Saving, Finished, ItemStatuses

\* An item is swept while it is pending, so its row is not finished either.
LEMMA ItemKept ==
    ASSUME IInv, NEW c \in Clients, SweepItem(c)
    PROVE  SweepKept' /\ CompleteKept' /\ RowsKept' /\ SavedKept' /\ ShownKept'
<1> DEFINE i == First(todo)
           outcome == OutcomeOf[faults[i]]
<1>1. i \in todo /\ i \in Items /\ run.items[i] = "PENDING"
  BY FirstIsIn DEF SweepItem, AtNextItem, IInv, SweepKept, TypeOK
<1>2. /\ lock' = lock /\ pc = "loop" /\ pc' = "save_job" /\ unsaved' = unsaved /\ todo' = todo \ {i}
      /\ run'.state \in {"FROZEN", "RESUMED"} /\ rows' = rows /\ last' = last /\ counted' = run'.items
      /\ run'.items = [run.items EXCEPT ![i] = outcome]
  BY DEF SweepItem, AtNextItem, db
<1>3. \A j \in Items \ {i} : run'.items[j] = run.items[j]
  BY <1>2 DEF IInv, TypeOK
<1>4. rows[i] \notin Finished
  BY <1>1, <1>2, WorkerAssumption DEF IInv, RowsKept, SweepKept, Finished
<1>5. \A j \in todo' : run'.items[j] = "PENDING"
  BY <1>2, <1>3 DEF IInv, SweepKept, TypeOK
<1> QED
  BY <1>2, <1>3, <1>4, <1>5
  DEF IInv, SweepKept, CompleteKept, RowsKept, SavedKept, ShownKept, Saving

\* A sweep that raises is between items: what it counted is saved.
LEMMA RaisesKept ==
    ASSUME IInv, NEW c \in Clients, SweepRaises(c)
    PROVE  SweepKept' /\ CompleteKept' /\ RowsKept' /\ SavedKept' /\ ShownKept'
<1>1. /\ lock' = Free /\ pc = "loop" /\ pc' = "none" /\ unsaved' = unsaved /\ todo' = {}
      /\ run'.state = "none" /\ rows' = rows /\ last' = last /\ counted' = counted
  BY DEF SweepRaises, AtNextItem, LeaveSweep, NoRun, memory, db
<1> QED
  BY <1>1 DEF IInv, SweepKept, CompleteKept, RowsKept, SavedKept, ShownKept, Saving

LEMMA EndKept ==
    ASSUME IInv, NEW c \in Clients, EndSweep(c)
    PROVE  SweepKept' /\ CompleteKept' /\ RowsKept' /\ SavedKept' /\ ShownKept'
<1>1. /\ lock' = lock /\ lock # Free /\ pc = "loop" /\ pc' = "save_job_last" /\ unsaved' = unsaved
      /\ todo' = todo /\ rows' = rows /\ last' = last /\ counted' = run.items
  BY WorkerAssumption DEF EndSweep, AtEnd, db
<1>2. run'.items = run.items
  BY DEF EndSweep, IInv, TypeOK
<1>3. run'.state = "COMPLETED" => Pending(run.items) = {}
  BY <1>1 DEF EndSweep, IInv, TypeOK, CompleteKept
<1>4. run'.state # "none"
  BY <1>1 DEF EndSweep, IInv, TypeOK, SweepKept
<1> QED
  BY <1>1, <1>2, <1>3, <1>4
  DEF IInv, SweepKept, CompleteKept, RowsKept, SavedKept, ShownKept, Saving, Pending

LEMMA SaveJobKept ==
    ASSUME IInv, NEW c \in Clients, SaveJob(c)
    PROVE  SweepKept' /\ CompleteKept' /\ RowsKept' /\ SavedKept' /\ ShownKept'
BY DEF SaveJob, memory, IInv, TypeOK, SweepKept, CompleteKept, RowsKept, SavedKept, ShownKept, Saving

\* The row that is written next: of an item of the job, and only while rows are saved.
LEMMA NextRow ==
    ASSUME IInv, NEW c \in Clients, SaveRow(c)
    PROVE  /\ First(unsaved) \in unsaved /\ First(unsaved) \in Items /\ pc \in Saving
           /\ job = run.state /\ run.state # "none" /\ lock # Free
           /\ rows' = [rows EXCEPT ![First(unsaved)] = run.items[First(unsaved)]]
           /\ unsaved' = unsaved \ {First(unsaved)}
           /\ UNCHANGED <<memory, lock, run, todo, pc, job>>
<1>1. First(unsaved) \in unsaved /\ unsaved \subseteq Items
  BY FirstIsIn DEF SaveRow, IInv, TypeOK
<1>2. pc \in Saving
  BY <1>1 DEF IInv, SweepKept
<1> QED
  BY <1>1, <1>2 DEF SaveRow, IInv, SweepKept, Saving

LEMMA SaveRowKept ==
    ASSUME IInv, NEW c \in Clients, SaveRow(c)
    PROVE  SweepKept' /\ CompleteKept' /\ RowsKept' /\ SavedKept' /\ ShownKept'
<1> DEFINE i == First(unsaved)
<1>1. /\ i \in Items /\ pc \in Saving /\ pc' = pc /\ lock # Free /\ lock' = lock /\ run' = run
      /\ job' = job /\ todo' = todo /\ last' = last /\ counted' = counted /\ unsaved' = unsaved \ {i}
  BY NextRow DEF memory
<1>2. rows'[i] = run.items[i] /\ \A j \in Items \ {i} : rows'[j] = rows[j]
  BY NextRow DEF IInv, TypeOK
<1>3. rows[i] \in Finished => rows[i] = run.items[i]
  BY <1>1 DEF IInv, RowsKept
<1>4. last.items[i] \in ItemStatuses
  BY <1>1 DEF IInv, TypeOK
<1>5. last.items[i] \in {"PENDING", rows'[i]}
  BY <1>1, <1>2, <1>3, <1>4 DEF IInv, ShownKept, Finished
<1>6. SweepKept' /\ CompleteKept'
  BY <1>1 DEF IInv, SweepKept, CompleteKept
<1>7. RowsKept' /\ SavedKept'
  BY <1>1, <1>2 DEF IInv, RowsKept, SavedKept, Saving
<1>8. ShownKept'
  BY <1>1, <1>2, <1>5 DEF IInv, ShownKept, Saving
<1> QED
  BY <1>6, <1>7, <1>8

LEMMA NextRoundKept ==
    ASSUME IInv, NEW c \in Clients, NextRound(c)
    PROVE  SweepKept' /\ CompleteKept' /\ RowsKept' /\ SavedKept' /\ ShownKept'
BY DEF NextRound, memory, db, IInv, SweepKept, CompleteKept, RowsKept, SavedKept, ShownKept, Saving

LEMMA ReturnKept ==
    ASSUME IInv, NEW c \in Clients, ReturnSweep(c)
    PROVE  SweepKept' /\ CompleteKept' /\ RowsKept' /\ SavedKept' /\ ShownKept'
<1>1. /\ lock' = Free /\ pc = "save_rows_last" /\ pc' = "none" /\ unsaved = {} /\ unsaved' = {} /\ todo' = {}
      /\ run'.state = "none" /\ rows' = rows /\ last' = run /\ counted' = counted
  BY DEF ReturnSweep, LeaveSweep, NoRun, db
<1>2. \A i \in Items : rows[i] = run.items[i]
  BY <1>1 DEF IInv, SavedKept, Saving
<1> QED
  BY <1>1, <1>2 DEF IInv, SweepKept, CompleteKept, RowsKept, SavedKept, ShownKept, Saving

LEMMA CrashKept ==
    ASSUME IInv, Crash
    PROVE  SweepKept' /\ CompleteKept' /\ RowsKept' /\ SavedKept' /\ ShownKept'
<1>1. /\ lock' = Free /\ pc' = "none" /\ unsaved' = {} /\ todo' = {} /\ run'.state = "none"
      /\ rows' = rows
  BY DEF Crash, LeaveSweep, NoRun, db
<1>2. last'.items = [i \in Items |-> "PENDING"] /\ counted' = [i \in Items |-> "PENDING"]
  BY DEF Crash, NoRun
<1> QED
  BY <1>1, <1>2 DEF SweepKept, CompleteKept, RowsKept, SavedKept, ShownKept, Saving

LEMMA StepKept ==
    ASSUME IInv, [Next]_vars
    PROVE  SweepKept' /\ CompleteKept' /\ RowsKept' /\ SavedKept' /\ ShownKept'
<1>1. ASSUME NEW c \in Clients,
             (\E p \in Plans : Request(c, p)) \/ InjectFault(c) \/ Pause(c) \/ Resume(c) \/ Stop(c)
      PROVE  UNCHANGED <<lock, sweep, db, last, counted>>
  BY <1>1 DEF Request, InjectFault, Pause, Resume, Stop, Atomic, memory
<1>2. UNCHANGED vars => UNCHANGED <<lock, sweep, db, last, counted>>
  BY DEF vars, memory
<1> QED
  BY <1>1, <1>2, ShortKept, ResetKept, StartKept, ItemKept, RaisesKept, EndKept, SaveJobKept,
     SaveRowKept, NextRoundKept, ReturnKept, CrashKept
  DEF Next, SweepStep

LEMMA StepInv ==
    ASSUME IInv, [Next]_vars
    PROVE  IInv'
BY StepType, StepPlans, StepKept DEF IInv

\* What a sweep knows of the tables, at every point of it and whenever the process is
\* killed: the invariant behind the results below.
THEOREM Inductive == Spec => []IInv
<1>1. Init => IInv
  BY InitType, InitKept DEF IInv
<1>2. IInv /\ [Next]_vars => IInv'
  BY StepInv
<1> QED
  BY <1>1, <1>2, PTL DEF Spec

-----------------------------------------------------------------------------
\* Every variable has its type, however many clients share the worker.
THEOREM TypeCorrect == Spec => []TypeOK
<1>1. IInv => TypeOK
  BY DEF IInv
<1> QED
  BY <1>1, Inductive, PTL

\* Between sweeps nothing that the last run or the counts show as done is missing
\* from the tables or saved otherwise, for any number of items, requests and kills.
THEOREM DashboardHolds == Spec => []DashboardAgrees
<1>1. IInv => DashboardAgrees
  <2> SUFFICES ASSUME IInv, lock = Free, NEW i \in Items PROVE Shown(i) \subseteq {"PENDING", rows[i]}
    BY DEF DashboardAgrees
  <2>1. last.items[i] \in {"PENDING", rows[i]} /\ counted[i] \in {"PENDING", rows[i]}
    BY DEF IInv, SweepKept, ShownKept
  <2> QED
    BY <2>1 DEF Shown
<1> QED
  BY <1>1, Inductive, PTL

-----------------------------------------------------------------------------
\* The tables change as the durable job allows.

\* The job's row is written before any other, and as completed only over rows that
\* are saved as finished.
LEMMA SaveJobRefines ==
    ASSUME IInv, NEW c \in Clients, SaveJob(c)
    PROVE  Durable!SaveJob(run.state) /\ run.state \in {"RESUMED", "RUNNING", "FROZEN", "COMPLETED"}
<1>1. run.state \in RunStates \ {"none"}
  BY DEF SaveJob, IInv, SweepKept, TypeOK
<1>2. ASSUME run.state = "COMPLETED", NEW i \in Items
      PROVE  rows[i] \in Finished
  <2>1. pc = "save_job_last" /\ run.items[i] # "PENDING" /\ run.items[i] \in ItemStatuses
    BY <1>2 DEF SaveJob, IInv, CompleteKept, TypeOK
  <2> QED
    BY <2>1 DEF IInv, SavedKept, Finished
<1> QED
  BY <1>1, <1>2 DEF SaveJob, Durable!SaveJob, RunStates, Finished

\* A row is written once it is not finished, or with what it has.
LEMMA SaveRowRefines ==
    ASSUME IInv, NEW c \in Clients, SaveRow(c)
    PROVE  \/ \E i \in Items, s \in Finished \cup {"PENDING"} : Durable!SaveItem(i, s)
           \/ UNCHANGED Durable!vars
<1> DEFINE i == First(unsaved)
<1>1. /\ i \in Items /\ rows' = [rows EXCEPT ![i] = run.items[i]] /\ job' = job
      /\ job # "none" /\ lock # Free
  BY NextRow
<1>2. CASE rows[i] \in Finished
  <2>1. rows[i] = run.items[i]
    BY <1>1, <1>2 DEF IInv, RowsKept
  <2>2. rows' = rows
    BY <1>1, <2>1 DEF IInv, TypeOK
  <2> QED
    BY <1>1, <2>2 DEF Durable!vars
<1>3. CASE rows[i] \notin Finished
  <2>1. run.items[i] \in Finished \cup {"PENDING"}
    BY <1>1 DEF IInv, TypeOK, Finished
  <2>2. Durable!SaveItem(i, run.items[i])
    BY <1>1, <1>3 DEF Durable!SaveItem, Finished
  <2> QED
    BY <1>1, <2>1, <2>2
<1> QED
  BY <1>2, <1>3

LEMMA StepRefines ==
    ASSUME IInv, [Next]_vars
    PROVE  [Durable!Next]_(Durable!vars)
<1>1. ASSUME NEW c \in Clients, SaveJob(c)
      PROVE  Durable!Next
  BY <1>1, SaveJobRefines DEF Durable!Next
<1>2. ASSUME NEW c \in Clients, SaveRow(c)
      PROVE  Durable!Next \/ UNCHANGED Durable!vars
  BY <1>2, SaveRowRefines DEF Durable!Next, Finished
<1>3. ASSUME NEW c \in Clients, Reset(c)
      PROVE  Durable!Next
  BY <1>3 DEF Reset, ResetJob, Durable!Next, Durable!Clear, Durable!Blank
<1>4. ASSUME NEW c \in Clients,
             \/ \E p \in Plans : Request(c, p)
             \/ InjectFault(c) \/ Pause(c) \/ Resume(c) \/ Stop(c)
             \/ StartSweep(c) \/ SweepItem(c) \/ SweepRaises(c) \/ EndSweep(c)
             \/ NextRound(c) \/ ReturnSweep(c)
      PROVE  UNCHANGED db
  BY <1>4 DEF Request, InjectFault, Pause, Resume, Stop, StartSweep, SweepItem, SweepRaises,
              EndSweep, NextRound, ReturnSweep, db
<1>5. Crash \/ UNCHANGED vars => UNCHANGED db
  BY DEF Crash, vars
<1>6. UNCHANGED db => UNCHANGED Durable!vars
  BY DEF db, Durable!vars
<1> QED
  BY <1>1, <1>2, <1>3, <1>4, <1>5, <1>6 DEF Next, SweepStep

\* The worker implements the durable job, whatever is asked of it, wherever its
\* sweeps raise or are interrupted, and whenever it is killed: a row that is saved as
\* finished stays as it is until the job is reset, and the job is saved as completed
\* only over finished rows.
THEOREM Refines == Spec => ImplementsDurableJob
<1>1. Init => Durable!Init
  BY DEF Init, Durable!Init, Durable!Blank
<1>2. IInv /\ [Next]_vars => [Durable!Next]_(Durable!vars)
  BY StepRefines
<1> QED
  BY <1>1, <1>2, Inductive, PTL DEF Spec, ImplementsDurableJob, Durable!Spec
=============================================================================
