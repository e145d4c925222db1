--------------------------- MODULE MCCoordinator ---------------------------
(***************************************************************************)
(* Instances of Coordinator for TLC: two agents and two coordinators whose *)
(* scopes overlap in one source, and an answer for each verdict.           *)
(***************************************************************************)
EXTENDS Coordinator, TLC

CONSTANTS a1, a2, c1, c2, i1

Rec(i, amount) ==
    [kind |-> "record", invoice |-> i, amount |-> amount, status |-> "PAID", age |-> "fresh"]
Good(data) ==
    [env |-> "dict", ok |-> TRUE, mark |-> "none", data |-> data, source |-> "trusted", err |-> {}]
Bad(err) ==
    [env |-> "dict", ok |-> FALSE, mark |-> "none", data |-> NoData, source |-> "trusted", err |-> err]

MCAmounts  == {1, 2}
MCExpected == [i \in Items |-> {1}]
MCAnswers  == {Good(Rec(i, a)) : i \in Items, a \in MCAmounts}
                  \cup {Bad({}), Bad({BlockedToken}), NoAnswer}

MCHookScope == [a \in Agents |->
    IF a = a1 THEN {"fetch_primary", "fetch_alternate"} ELSE {"fetch_alternate"}]
MCScope == [c \in Coordinators |->
    IF c = c1 THEN {"fetch_alternate"} ELSE {"fetch_primary"}]

\* Both actions are asked for the invoice, one of them for an item that is none.
MCPairs == {p \in (Items \cup Strangers) \X Asked :
    p[1] \in Strangers => p[2] = "fetch_alternate"}

\* One after the other, both coordinators accept a fetch of the invoice, and one of them
\* a second time; in parallel, one does, and a fetch of an item that is none.
MCMaxProposals == [inParallel \in BOOLEAN |-> [p \in MCPairs |->
    IF inParallel THEN IF p[2] = "fetch_primary" THEN 0 ELSE 1
    ELSE IF p = <<i1, "fetch_alternate">> THEN 2 ELSE 1]]

Symmetry == Permutations(Slots)
=============================================================================
