--------------------------- MODULE MCRecoverable ---------------------------
(***************************************************************************)
(* Instances of Recoverable for TLC: answers of every class, and the       *)
(* configurations that make the strategies of two classes meet.            *)
(***************************************************************************)
EXTENDS Recoverable, TLC

Rec(amount, age) ==
    [kind |-> "record", invoice |-> CHOOSE i \in Items : TRUE, amount |-> amount,
     status |-> "PAID", age |-> age]
Good(data) ==
    [env |-> "dict", ok |-> TRUE, mark |-> "none", data |-> data, source |-> "trusted", err |-> {}]
Bad(err) ==
    [env |-> "dict", ok |-> FALSE, mark |-> "none", data |-> NoData, source |-> "trusted", err |-> err]

MCAmounts == {1, 2}

\* Amount 2 is one that the caller's verify() refuses; a stale or junk record is
\* a failure for the classifier only when there is a schema.
MCAnswers ==
    {Good(Rec(1, "fresh")), Good(Rec(2, "fresh")), Good(Rec(1, "stale")), Good(Junk),
     [Good(NoData) EXCEPT !.mark = "conflict"], NoAnswer, Bad({})}
  \cup {Bad({c}) : c \in {"TRANSIENT", "AUTHENTICATION", "INVALID_INPUT"}}

MCAccepted == {a \in MCAnswers : a.data.kind = "record" /\ a.data.amount = 1}

MCConfigs ==
    [transient : {"retry", "substitute", "freeze"}, malformed : {"retry", "substitute", "misspelt"},
     conflict : {"freeze", "retry"}, auth : {"escalate", "retry"},
     unknown : {"freeze", "substitute"}, max_attempts : -2..3,
     substitutable : BOOLEAN, schema : BOOLEAN]
=============================================================================
