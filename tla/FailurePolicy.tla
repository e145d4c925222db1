--------------------------- MODULE FailurePolicy ---------------------------
(***************************************************************************)
(* The decision procedures of the recovery runtime, as pure operators:     *)
(*   - what a tool may answer                  (untrusted outcome);        *)
(*   - failures/classifier.py    classify      outcome -> failure class;   *)
(*   - failures/selector.py      next_action   class, step -> action;      *)
(*   - verification/observations.py            the two independent checks; *)
(*   - workflows/run.py _verify_problem_class  problems -> failure class.  *)
(*                                                                         *)
(* Data abstraction.  A record keeps the fields a check compares: the      *)
(* invoice it names, its amount, its status and its age class.  "aging" is *)
(* a record that is fresh when classify() reads the clock and stale when   *)
(* verify_observation() reads it again.  An error text is the set of       *)
(* machine tokens it contains, each named by the class it stands for.      *)
(***************************************************************************)
EXTENDS Naturals, Sequences

CONSTANTS
    Items,    \* the invoices of a run
    Amounts   \* the amounts a record can carry

-----------------------------------------------------------------------------
\* The failure taxonomy.

FailureClass ==
    {"TRANSIENT", "AUTHENTICATION", "AUTHORIZATION", "INVALID_INPUT",
     "MALFORMED_OUTPUT", "STALE_DATA", "PARTIAL_RESULT",
     "CONFLICTING_RESULT", "TOOL_UNAVAILABLE", "UNKNOWN"}

-----------------------------------------------------------------------------
\* What a tool may answer.

Statuses == {"PAID", "REFUNDED", "PENDING"}
Ages     == {"fresh", "aging", "stale"}

NoData  == [kind |-> "none"]   \* no data attached
Junk    == [kind |-> "junk"]   \* data, or one of its records, fails the schema
Batches == [kind : {"batch"}, age : Ages]   \* a list of valid records
Records == [kind : {"record"}, invoice : Items, amount : Amounts,
            status : Statuses, age : Ages]

Data == {NoData, Junk} \cup Batches \cup Records

\* A data payload that is a JSON object (a junk payload may or may not be one:
\* both readings lead to the same class, see PriorOf in Workflow).
IsRecord(data) == data.kind = "record"

\* Mutant: the retryable codes are tried first.
CodeOrder_RetryableFirst ==
    <<"TRANSIENT", "TOOL_UNAVAILABLE", "STALE_DATA", "PARTIAL_RESULT", "AUTHENTICATION",
      "AUTHORIZATION", "INVALID_INPUT", "CONFLICTING_RESULT">>

\* error-code tokens in the order the classifier tries them
CodeOrder == <<"AUTHENTICATION", "AUTHORIZATION", "INVALID_INPUT",
               "CONFLICTING_RESULT", "TRANSIENT", "TOOL_UNAVAILABLE",
               "STALE_DATA", "PARTIAL_RESULT">>
CodedClasses == {"AUTHENTICATION", "AUTHORIZATION", "INVALID_INPUT",
                 "CONFLICTING_RESULT", "TRANSIENT", "TOOL_UNAVAILABLE",
                 "STALE_DATA", "PARTIAL_RESULT"}

\* the prefix with which the control plane marks its own refusals
BlockedToken == "RECOVERY_BLOCKED"

\* env: "dict" a dict with an `ok' flag and a dict (or absent) meta;
\*      "no_ok" a dict without the flag; "bad_meta" meta is not a dict;
\*      "not_dict" anything that is not a dict.
Envs == {"dict", "no_ok", "bad_meta", "not_dict"}

\* meta.source: one of TRUSTED_SOURCES, or any other text; the verifier repeats that
\* text in its problem, which may so contain the word STALE.
SourceNames == {"trusted", "unknown", "stale_name"}

Outcome == [env : Envs, ok : BOOLEAN, mark : {"none", "conflict", "partial"},
            data : Data, source : SourceNames,
            err : SUBSET (CodedClasses \cup {BlockedToken})]

\* The answer slot when no answer is being judged.
NoAnswer == [env |-> "not_dict", ok |-> FALSE, mark |-> "none", data |-> NoData,
             source |-> "unknown", err |-> {}]

-----------------------------------------------------------------------------
\* failures/classifier.py

\* The first class in CodeOrder one of whose tokens occurs in the error text.
CodeOf(err) ==
    IF err \cap CodedClasses = {}
    THEN "UNKNOWN"
    ELSE CodeOrder[CHOOSE k \in 1..Len(CodeOrder) :
                        /\ CodeOrder[k] \in err
                        /\ \A j \in 1..(k - 1) : CodeOrder[j] \notin err]

NoFailure == "NONE"

\* The classification, None being NoFailure.  The order of the tests is the
\* trust order of the module: envelope, schema, then markers or error codes.
Classify(out) ==
    IF out.env # "dict" \/ out.data.kind = "junk"
    THEN "MALFORMED_OUTPUT"
    ELSE IF ~out.ok THEN CodeOf(out.err)
    ELSE IF out.mark = "conflict" THEN "CONFLICTING_RESULT"
    ELSE IF out.mark = "partial" THEN "PARTIAL_RESULT"
    ELSE IF out.data.kind \in {"batch", "record"} /\ out.data.age = "stale"
    THEN "STALE_DATA"
    ELSE NoFailure

-----------------------------------------------------------------------------
\* verification/observations.py

Problems == {"NOT_AN_OBJECT", "UNTRUSTED_SOURCE", "UNTRUSTED_SOURCE:STALE", "STALE_DATA",
             "AMOUNT_MISMATCH", "IDENTITY_MISMATCH", "CONFLICT"}

\* The problem of an untrusted source, in the text of which its name is repeated.
SourceProblems(source) ==
    {p \in {"UNTRUSTED_SOURCE"} : source = "unknown"}
      \cup {p \in {"UNTRUSTED_SOURCE:STALE"} : source = "stale_name"}

\* Mutant: the freshness found by the classifier is trusted.
VerifyProblems_NoFreshness(data, source, expected) ==
    IF ~IsRecord(data)
    THEN {"NOT_AN_OBJECT"}
    ELSE SourceProblems(source)
           \cup {p \in {"AMOUNT_MISMATCH"} : expected # {} /\ data.amount \notin expected}

\* The problems verify_observation() finds, given the expected amounts (an
\* empty set when the caller expects nothing of this invoice).
VerifyProblems(data, source, expected) ==
    IF ~IsRecord(data)
    THEN {"NOT_AN_OBJECT"}
    ELSE SourceProblems(source)
           \cup {p \in {"STALE_DATA"} : data.age # "fresh"}
           \cup {p \in {"AMOUNT_MISMATCH"} : expected # {} /\ data.amount \notin expected}

\* Mutant: only the amounts of two records are compared.
CrossProblems_AmountOnly(first, second) ==
    IF first.invoice # second.invoice
    THEN {"IDENTITY_MISMATCH"}
    ELSE {p \in {"CONFLICT"} : first.amount # second.amount}

\* check_cross_source(): two records of one invoice must agree.
CrossProblems(first, second) ==
    IF first.invoice # second.invoice
    THEN {"IDENTITY_MISMATCH"}
    ELSE {p \in {"CONFLICT"} : \/ first.amount # second.amount
                               \/ first.status # second.status}

\* _verify_problem_class() looks for the word STALE anywhere in a problem's text.
VerifyProblemClass(problems) ==
    IF problems \cap {"CONFLICT", "AMOUNT_MISMATCH"} # {}
    THEN "CONFLICTING_RESULT"
    ELSE IF problems \cap {"STALE_DATA", "UNTRUSTED_SOURCE:STALE"} # {}
    THEN "STALE_DATA" ELSE "MALFORMED_OUTPUT"

-----------------------------------------------------------------------------
\* failures/selector.py

Actions == {"retry", "reject", "substitute", "retry_remainder", "rollback",
            "replan", "freeze", "escalate"}

DefaultChains ==
    [class \in FailureClass |->
        CASE class = "TRANSIENT" -> <<"retry", "retry", "substitute", "escalate">>
          [] class = "TOOL_UNAVAILABLE" -> <<"retry", "substitute", "escalate">>
          [] class = "MALFORMED_OUTPUT" -> <<"reject", "substitute", "escalate">>
          [] class = "STALE_DATA" -> <<"substitute", "escalate">>
          [] class = "PARTIAL_RESULT" -> <<"retry_remainder", "rollback", "escalate">>
          [] class = "CONFLICTING_RESULT" -> <<"freeze">>
          [] class \in {"AUTHENTICATION", "AUTHORIZATION", "INVALID_INPUT"} -> <<"escalate">>
          [] class = "UNKNOWN" -> <<"freeze", "escalate">>]

\* A chain table: the caller may leave classes out of it.
IsChains(chains) ==
    /\ DOMAIN chains \subseteq FailureClass
    /\ \A class \in DOMAIN chains : chains[class] \in Seq(Actions)

\* A table without any class is falsy, and the default chains are used in its place.
TableOf(chains) == IF DOMAIN chains = {} THEN DefaultChains ELSE chains

ChainOf(chains, class) ==
    IF class \in DOMAIN TableOf(chains) THEN TableOf(chains)[class] ELSE <<"freeze", "escalate">>

\* Mutant: the chain is counted from one, and its first action is never taken.
NextAction_SkipsFirst(chains, class, step, substituteAvailable) ==
    LET chain  == ChainOf(chains, class)
        action == IF step + 1 < Len(chain) THEN chain[step + 2] ELSE "escalate"
    IN  IF action = "substitute" /\ ~substituteAvailable THEN "escalate" ELSE action

\* The permitted action at this step (0-indexed); past the end, and where no
\* substitute is in scope, the chain collapses to escalation.
NextAction(chains, class, step, substituteAvailable) ==
    LET chain  == ChainOf(chains, class)
        action == IF step < Len(chain) THEN chain[step + 1] ELSE "escalate"
    IN  IF action = "substitute" /\ ~substituteAvailable THEN "escalate" ELSE action
=============================================================================
