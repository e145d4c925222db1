----------------------------- MODULE SdkChains -----------------------------
(***************************************************************************)
(* sdk.py, chains_for(): the chains that RecoveryRuntime derives from the  *)
(* list of policies it is given, and hands to the workflow runner.         *)
(***************************************************************************)
EXTENDS FailurePolicy, Integers, Sequences, FiniteSets

LOCAL INSTANCE SequencesExt

\* A policy; max_attempts is Retry's own, and 0 for the others.
Policy == [kind : {"Retry", "Substitute", "Rollback", "Escalate", "Freeze"}, max_attempts : Int]

Retry(n)     == [kind |-> "Retry", max_attempts |-> n]
Plain(kind)  == [kind |-> kind, max_attempts |-> 0]

\* What RecoveryRuntime uses without a list of its own.
DefaultPolicies == <<Retry(2), Plain("Substitute"), Plain("Escalate")>>

RetryActions == {"retry", "retry_remainder"}

RecoverableClasses ==
    {"TRANSIENT", "TOOL_UNAVAILABLE", "MALFORMED_OUTPUT", "STALE_DATA", "PARTIAL_RESULT"}

Kinds(policies) == {p.kind : p \in ToSet(policies)}

\* The first Retry of the list decides.
RetryBudget(policies) ==
    IF "Retry" \in Kinds(policies)
    THEN Head(SelectSeq(policies, LAMBDA p : p.kind = "Retry")).max_attempts
    ELSE 0

\* The step k of a default chain is one of its first n retries, or none.
WithinBudget(chain, k, n) ==
    chain[k] \in RetryActions => Cardinality({j \in 1..k : chain[j] \in RetryActions}) <= n

\* The steps that the policies leave of a default chain.
Declared(policies, chain) ==
    LET add(steps, k) ==
            IF ~WithinBudget(chain, k, RetryBudget(policies)) THEN steps
            ELSE IF chain[k] = "substitute" /\ "Substitute" \notin Kinds(policies)
                 THEN Append(steps, "escalate")
            ELSE Append(steps, chain[k])
    IN  FoldLeftDomain(add, <<>>, chain)

\* A rollback goes before the last escalate of a recoverable class.
WithRollback(policies, class, steps) ==
    IF /\ "Rollback" \in Kinds(policies)
       /\ class \in RecoverableClasses
       /\ steps # <<>> /\ Last(steps) = "escalate"
    THEN Front(steps) \o <<"rollback", "escalate">>
    ELSE steps

\* Repeated steps are one, except for retries.
Deduped(steps) ==
    LET add(kept, s) ==
            IF kept # <<>> /\ Last(kept) = s /\ s \notin RetryActions
            THEN kept ELSE Append(kept, s)
    IN  FoldLeft(add, <<>>, steps)

ChainFor(policies, class) ==
    LET steps == Deduped(WithRollback(policies, class, Declared(policies, DefaultChains[class])))
    IN  IF steps = <<>> THEN <<"escalate">> ELSE steps

ChainsFor(policies) == [class \in DOMAIN DefaultChains |-> ChainFor(policies, class)]
=============================================================================
