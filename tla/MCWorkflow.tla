----------------------------- MODULE MCWorkflow -----------------------------
(***************************************************************************)
(* Instances of Workflow for TLC: two invoices that both expect amount 1,  *)
(* and a catalogue of tool answers that reaches every branch of the        *)
(* classifier, of the verifier and of the cross-source check.              *)
(***************************************************************************)
EXTENDS Workflow, SdkChains, TLC

Symmetry == Permutations(Items)

Rec(i, amount, status, age) ==
    [kind |-> "record", invoice |-> i, amount |-> amount, status |-> status, age |-> age]
Batch(age) == [kind |-> "batch", age |-> age]

Good(data) ==
    [env |-> "dict", ok |-> TRUE, mark |-> "none", data |-> data, source |-> "trusted", err |-> {}]
Bad(err, data) ==
    [env |-> "dict", ok |-> FALSE, mark |-> "none", data |-> data, source |-> "trusted", err |-> err]

MCAmounts  == {1, 2}
MCExpected == [i \in Items |-> {1}]

\* The answers of a busy two-item run: one of each class, and a good record.
BriefAnswers ==
    {Good(Rec(i, 1, "PAID", "fresh")) : i \in Items}
  \cup {Good(Rec(i, 1, "REFUNDED", "stale")) : i \in Items}
  \cup {Good(Junk), NoAnswer, Bad({}, NoData), Bad({"TRANSIENT"}, NoData),
        Bad({"AUTHENTICATION"}, NoData), [Good(Batch("fresh")) EXCEPT !.mark = "partial"]}

\* One answer for each way the decision procedures tell answers apart: what they
\* treat alike is left to the proofs, which hold of every catalogue.
TelltaleAnswers ==
    UNION {{Good(Rec(i, 1, "PAID", "fresh")), Good(Rec(i, 1, "REFUNDED", "fresh")),
            Good(Rec(i, 1, "PAID", "aging")), Good(Rec(i, 2, "PAID", "fresh"))} : i \in Items}
  \cup {Good(Junk), NoAnswer, Bad({}, NoData), Bad({BlockedToken}, NoData),
        [Good(Batch("fresh")) EXCEPT !.mark = "partial"],
        Bad({"AUTHENTICATION", "TRANSIENT"}, NoData)}
  \cup {[Good(Rec(i, 1, "PAID", "fresh")) EXCEPT !.source = "unknown"] : i \in Items}
  \cup {Bad({c}, NoData) : c \in CodedClasses}

-----------------------------------------------------------------------------
\* RecoveryRuntime's chains, for the policies it uses when it is given none.
RuntimeChains == ChainsFor(DefaultPolicies)

\* Lists of up to three policies, with more than one Retry among them.
PolicyLists ==
    LET some == {Retry(1), Retry(3), Plain("Substitute"), Plain("Rollback"), Plain("Freeze")}
    IN  UNION {[1..n -> some] : n \in 0..3}

\* reconcile_all() without chains and a RecoveryRuntime without policies recover
\* in the same way.
ASSUME RuntimeAgreesWithRunner == RuntimeChains = DefaultChains

\* No list of policies lets a class that is not recoverable be retried,
\* substituted or rolled back.
ASSUME HardRules ==
    \A policies \in PolicyLists, class \in FailureClass \ RecoverableClasses :
        ChainFor(policies, class) = DefaultChains[class]

\* Every derived chain ends by handing over, and has the retries that the first
\* Retry pays for at most.
ASSUME ChainsAreBounded ==
    \A policies \in PolicyLists, class \in RecoverableClasses :
        LET chain == ChainFor(policies, class)
        IN  /\ chain[Len(chain)] = "escalate"
            /\ Cardinality({k \in DOMAIN chain : chain[k] \in RetryActions}) <= RetryBudget(policies)

\* The derived chains have the two shapes that the proofs about the runner ask of
\* its chains.
ASSUME DerivedChainsQualify ==
    \A policies \in PolicyLists :
        /\ NoCallForUnrecoverable(ChainsFor(policies))
        /\ RollbackBeforeEscalate(ChainsFor(policies))

\* Without Substitute the rollback that Rollback adds comes after the escalation
\* that stands for the substitute, so that it is never reached.
ASSUME RollbackNeedsSubstitute ==
    \A policies \in PolicyLists, class \in RecoverableClasses \ {"PARTIAL_RESULT"} :
        "Rollback" \in Kinds(policies) /\ "Substitute" \notin Kinds(policies) =>
            \E j, k \in DOMAIN ChainFor(policies, class) :
                /\ j < k
                /\ ChainFor(policies, class)[j] = "escalate"
                /\ ChainFor(policies, class)[k] = "rollback"

-----------------------------------------------------------------------------

\* A caller's own chains, as RecoveryRuntime and the tests pass them: classes
\* left out fall back to freeze, rejections are chained past the paranoia bound,
\* and a rollback is followed by another call.
MCCustomChains ==
    [c \in {"TRANSIENT", "MALFORMED_OUTPUT", "STALE_DATA", "PARTIAL_RESULT"} |->
        CASE c = "TRANSIENT" -> <<"substitute", "rollback", "retry">>
          [] c = "MALFORMED_OUTPUT" -> [k \in 1..13 |-> "reject"]
          [] c = "STALE_DATA" -> <<"replan", "substitute">>
          [] c = "PARTIAL_RESULT" -> <<"retry_remainder", "rollback", "escalate">>]

MCScope    == {"fetch_primary", "fetch_alternate"}
\* a scope in which the primary source may not be called again
NarrowScope == {"fetch_authoritative", "inspect_invoice"}
MCAdapters == {"alternate", "authoritative"}
=============================================================================
