---------------------------- MODULE Coordinator ----------------------------
(***************************************************************************)
(* agent/coordinator.py, agent/hooks.py and agent/tools.py: the model      *)
(* proposes and triggers, the coordinator gates.                           *)
(*                                                                         *)
(* Every agent has a hook with the scope it was built with; the tools act  *)
(* on the one coordinator that is bound in the process when they start,    *)
(* whichever agent calls them, and building another agent binds another    *)
(* one.  What the language model does is any sequence of tool calls.       *)
(*                                                                         *)
(* The framework (strands-agents) runs the tool calls of one turn one      *)
(* after the other, or each in a thread of its own; the coordinator has no *)
(* lock, so its reads and writes are steps.  Read-only tools and the       *)
(* report of run_agent_reconciliation() are left out.                      *)
(***************************************************************************)
EXTENDS FailurePolicy, FiniteSets

CONSTANTS
    Agents,        \* the live agents, each with its hook
    Coordinators,  \* the coordinators, each with a run of its own
    Unbound,       \* _CTX is None
    Slots,         \* the threads in which tool calls run
    NoCall,        \* what a thread does that runs no tool call
    Strangers,     \* item ids the model makes up, of no item of a run
    Asked,         \* the actions the model knows of
    Pairs,         \* the items and actions it proposes and triggers
    HookScope,     \* the scope of each agent's hook
    Scope,         \* the scope of each coordinator and of its run
    Forbidden,     \* forbidden_actions of run_envelope()
    Sources,       \* the fetch actions that have an adapter
    Expected,      \* the expected amounts of each item
    Answers,       \* what a source may answer
    MaxAttempts,   \* of the envelope
    MaxProposals   \* bound on the proposals of a pair to a coordinator, by parallel

Verdicts == {"none", "refused", "ok"}
Uncounted == {"discard", "bound", "read", "write", "call"}
PastBound == {"read", "write", "call", "answered"}

\* A tool call that is under way: where it is, whose it is, the coordinator that was
\* bound when it started, and what it has in its local variables.
Calls ==
    [pc : {"propose", "check", "answered"} \cup Uncounted, agent : Agents, ctx : Coordinators,
     pair : Pairs, seen : Nat, verdict : Verdicts]

ASSUME CoordinatorAssumption ==
    /\ Unbound \notin Coordinators
    /\ Strangers \cap Items = {}
    /\ Pairs \subseteq (Items \cup Strangers) \X Asked
    /\ IsFiniteSet(Slots) /\ Slots # {}
    /\ NoCall \notin Calls
    /\ HookScope \in [Agents -> SUBSET Asked]
    /\ Scope \in [Coordinators -> SUBSET Asked]
    /\ Expected \in [Items -> SUBSET Amounts]
    /\ Answers \subseteq Outcome
    /\ MaxAttempts \in Nat /\ MaxProposals \in [BOOLEAN -> [Pairs -> Nat]]

VARIABLES
    parallel,    \* whether the framework runs the calls of a turn in parallel
    bound,       \* _CTX
    late,        \* the coordinators whose envelope has expired
    call,        \* the tool call in each thread
    accepted,    \* accepted[c]: the pairs that may be executed
    proposals,   \* how often a pair is in the list of proposals
    executions,  \* and in the list of executions
    attempts,    \* attempts of the run of c
    last,        \* last_outcome of an item
    reached      \* the agents, coordinators and actions that reached a source

books == <<accepted, proposals, executions, attempts, last>>
vars  == <<parallel, bound, late, call, books, reached>>

Init ==
    /\ parallel \in BOOLEAN
    /\ bound = Unbound
    /\ late = {}
    /\ call = [s \in Slots |-> NoCall]
    /\ accepted = [c \in Coordinators |-> {}]
    /\ proposals = [c \in Coordinators |-> [p \in Pairs |-> 0]]
    /\ executions = [c \in Coordinators |-> [p \in Pairs |-> 0]]
    /\ attempts = [c \in Coordinators |-> [i \in Items |-> 0]]
    /\ last = [c \in Coordinators |-> [i \in Items |-> "none"]]
    /\ reached = {}

-----------------------------------------------------------------------------
\* bind_coordinator(), also when an agent is built; unbind_coordinator().
Bind(c) ==
    /\ bound' = c
    /\ UNCHANGED <<parallel, late, call, books, reached>>

Expire(c) ==
    /\ c \notin late
    /\ late' = late \cup {c}
    /\ UNCHANGED <<parallel, bound, call, books, reached>>

\* The allowed actions of the envelope are the scope's.
InEnvelope(c, action) == action \in Scope[c] \ Forbidden

-----------------------------------------------------------------------------
\* Mutant: the hook looks at the name of the tool only.
HookAllows_ToolOnly(a, action) == TRUE

\* The hook of agent a lets execute_authorized_recovery(item, action) run.
HookAllows(a, action) == action \in HookScope[a]

\* The framework starts a call, and current() finds the coordinator that is bound.
StartCall(s, a, pair, op) ==
    /\ call[s] = NoCall
    /\ parallel \/ \A t \in Slots : call[t] = NoCall
    /\ bound \in Coordinators
    /\ call' = [call EXCEPT ![s] =
                  [pc |-> op, agent |-> a, ctx |-> bound, pair |-> pair, seen |-> 0,
                   verdict |-> "none"]]
    /\ UNCHANGED <<parallel, bound, late, books, reached>>

\* propose_recovery() and execute_authorized_recovery(), for which the hook is asked.
CallPropose(s, a, pair) ==
    /\ StartCall(s, a, pair, "propose")
    /\ proposals[bound][pair] < MaxProposals[parallel][pair]
CallRecover(s, a, pair) ==
    /\ StartCall(s, a, pair, "check")
    /\ HookAllows(a, pair[2])

\* The call in thread s is at this step, and goes on to that one.
At(s, pc)    == call[s] # NoCall /\ call[s].pc = pc
GoesTo(s, pc) == call' = [call EXCEPT ![s] = [@ EXCEPT !.pc = pc]]
Returns(s)   == call' = [call EXCEPT ![s] = NoCall]

\* propose(); a refused proposal changes nothing.
Propose(s) ==
    /\ At(s, "propose")
    /\ LET c == call[s].ctx  p == call[s].pair IN
          IF InEnvelope(c, p[2])
          THEN /\ proposals' = [proposals EXCEPT ![c][p] = @ + 1]
               /\ accepted' = [accepted EXCEPT ![c] = @ \cup {p}]
          ELSE UNCHANGED <<proposals, accepted>>
    /\ Returns(s)
    /\ UNCHANGED <<parallel, bound, late, executions, attempts, last, reached>>

-----------------------------------------------------------------------------
\* recover(): PROPOSAL_REQUIRED, unless the pair was accepted.
Check(s) ==
    /\ At(s, "check")
    /\ IF call[s].pair \in accepted[call[s].ctx] THEN GoesTo(s, "discard") ELSE Returns(s)
    /\ UNCHANGED <<parallel, bound, late, books, reached>>

\* Mutant: a proposal is good for any number of executions.
Discard_Keeps(s) ==
    /\ At(s, "discard")
    /\ GoesTo(s, "bound")
    /\ UNCHANGED <<parallel, bound, late, books, reached>>

\* A proposal is used up by its execution, whatever becomes of that.
Discard(s) ==
    /\ At(s, "discard")
    /\ accepted' = [accepted EXCEPT ![call[s].ctx] = @ \ {call[s].pair}]
    /\ GoesTo(s, "bound")
    /\ UNCHANGED <<parallel, bound, late, proposals, executions, attempts, last, reached>>

\* The outcome of authorized_call() is known, and the execution recorded.
Answered(s, verdict) ==
    /\ call' = [call EXCEPT ![s] = [@ EXCEPT !.pc = "answered", !.verdict = verdict]]
    /\ executions' = [executions EXCEPT ![call[s].ctx][call[s].pair] = @ + 1]

Exhausted(c, item) == attempts[c][item] + 1 > MaxAttempts

\* _guarded_call() compares the attempts with their bound, ... There are none of an item
\* that is not in the run: the KeyError ends the call, and its proposal is used up.
AskAttempts(s) ==
    /\ At(s, "bound")
    /\ \/ /\ call[s].pair[1] \in Strangers
          /\ Returns(s)
          /\ UNCHANGED executions
       \/ /\ call[s].pair[1] \in Items
          /\ Exhausted(call[s].ctx, call[s].pair[1])
          /\ Answered(s, "refused")
       \/ /\ call[s].pair[1] \in Items
          /\ ~Exhausted(call[s].ctx, call[s].pair[1])
          /\ GoesTo(s, "read")
          /\ UNCHANGED executions
    /\ UNCHANGED <<parallel, bound, late, accepted, proposals, attempts, last, reached>>

\* ... and counts one more: a read and a write.
ReadAttempts(s) ==
    /\ At(s, "read")
    /\ call' = [call EXCEPT ![s] =
                  [@ EXCEPT !.pc = "write", !.seen = attempts[call[s].ctx][call[s].pair[1]]]]
    /\ UNCHANGED <<parallel, bound, late, books, reached>>

WriteAttempts(s) ==
    /\ At(s, "write")
    /\ attempts' = [attempts EXCEPT ![call[s].ctx][call[s].pair[1]] = call[s].seen + 1]
    /\ GoesTo(s, "call")
    /\ UNCHANGED <<parallel, bound, late, accepted, proposals, executions, last, reached>>

\* The executor lets the call through to its source.
Authorized(c, action) == c \notin late /\ InEnvelope(c, action) /\ action \in Sources

\* The envelope has expired, or nothing provides the action.
Refuse(s) ==
    /\ At(s, "call")
    /\ ~Authorized(call[s].ctx, call[s].pair[2])
    /\ Answered(s, "refused")
    /\ UNCHANGED <<parallel, bound, late, accepted, proposals, attempts, last, reached>>

\* Mutant: the class of a failure is given back in place of a verdict.
VerdictOf_Class(item, out) ==
    IF Classify(out) = NoFailure THEN "ok" ELSE Classify(out)

\* An answer is good if it is classified without a failure and then verified; one
\* that carries the control plane's own prefix is taken for a refusal.
VerdictOf(item, out) ==
    IF /\ out.env # "not_dict" /\ BlockedToken \notin out.err
       /\ Classify(out) = NoFailure
       /\ VerifyProblems(out.data, out.source, Expected[item]) = {}
    THEN "ok" ELSE "refused"

\* The source is called; it answers, or raises, which counts as a refusal.
Reach(s) ==
    /\ At(s, "call")
    /\ Authorized(call[s].ctx, call[s].pair[2])
    /\ \E verdict \in {"refused"} \cup {VerdictOf(call[s].pair[1], out) : out \in Answers} :
          Answered(s, verdict)
    /\ reached' = reached \cup {<<call[s].agent, call[s].ctx, call[s].pair[2]>>}
    /\ UNCHANGED <<parallel, bound, late, accepted, proposals, attempts, last>>

\* The result is kept as the last one of the item.
Finish(s) ==
    /\ At(s, "answered")
    /\ last' = [last EXCEPT ![call[s].ctx][call[s].pair[1]] = call[s].verdict]
    /\ Returns(s)
    /\ UNCHANGED <<parallel, bound, late, accepted, proposals, executions, attempts, reached>>

CallStep(s) ==
    \/ Propose(s)
    \/ Check(s)
    \/ Discard(s)
    \/ AskAttempts(s)
    \/ ReadAttempts(s)
    \/ WriteAttempts(s)
    \/ Refuse(s)
    \/ Reach(s)
    \/ Finish(s)

Next ==
    \/ \E c \in Coordinators \cup {Unbound} : Bind(c)
    \/ \E c \in Coordinators : Expire(c)
    \/ \E s \in Slots :
          \/ \E a \in Agents, pair \in Pairs : CallPropose(s, a, pair) \/ CallRecover(s, a, pair)
          \/ CallStep(s)

Spec == Init /\ [][Next]_vars

-----------------------------------------------------------------------------
\* Every variable has its type, and only items of the run get past the bound.
TypeOK ==
    /\ parallel \in BOOLEAN
    /\ bound \in Coordinators \cup {Unbound}
    /\ late \subseteq Coordinators
    /\ call \in [Slots -> Calls \cup {NoCall}]
    /\ accepted \in [Coordinators -> SUBSET Pairs]
    /\ proposals \in [Coordinators -> [Pairs -> Nat]]
    /\ executions \in [Coordinators -> [Pairs -> Nat]]
    /\ attempts \in [Coordinators -> [Items -> Nat]]
    /\ last \in [Coordinators -> [Items -> Verdicts]]
    /\ reached \subseteq Agents \X Coordinators \X Asked
    /\ \A s \in Slots : call[s] # NoCall /\ call[s].pc \in PastBound => call[s].pair[1] \in Items

\* The calls of c for p that are accepted and not yet executed.
Pending(c, p) ==
    {s \in Slots : call[s] # NoCall /\ call[s].pc \in Uncounted /\ call[s].ctx = c /\ call[s].pair = p}

\* "single-use proposals (replay without re-proposal is blocked)", where the calls
\* of a turn run one after the other: an execution takes a proposal of its own, made
\* to the same coordinator, and proposing again buys no attempts.
RecoveriesAreBounded ==
    ~parallel => \A c \in Coordinators :
        /\ \A p \in Pairs :
              executions[c][p] + Cardinality(Pending(c, p)) <= proposals[c][p]
        /\ \A i \in Items : attempts[c][i] <= MaxAttempts

\* The same of every call, those that run in parallel too: "single-use proposals
\* (replay without re-proposal is blocked)".
SingleUse == \A c \in Coordinators, p \in Pairs : executions[c][p] <= proposals[c][p]

\* Whatever coordinator is bound when an agent triggers, or is bound while its call is
\* under way, a source is reached only within the agent's own scope and within that of
\* the coordinator whose proposals and attempts it uses.
BothScopesHold ==
    \A r \in reached : r[3] \in HookScope[r[1]] /\ r[3] \in Scope[r[2]]
=============================================================================
