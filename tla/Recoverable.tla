----------------------------- MODULE Recoverable -----------------------------
(***************************************************************************)
(* sdk.py, the `recoverable' decorator: one call of a decorated function.  *)
(*                                                                         *)
(* The wrapper calls the function, classifies what it answers and, while   *)
(* that is a failure, follows the strategy its class was given: retry,     *)
(* substitute, or give up.  It is the SDK's second recovery loop, beside   *)
(* the workflow runner's, with bounds and a verifier of its own.           *)
(*                                                                         *)
(* The configuration of the decorator is a variable that never changes, so *)
(* that one run covers every configuration in Configs.  The caller's       *)
(* verify() is a set of accepted outcomes: it is assumed to judge the same *)
(* outcome the same way twice, which is how often it may be asked.         *)
(***************************************************************************)
EXTENDS FailurePolicy, Integers

CONSTANTS
    Answers,   \* what the function and its alternate may return
    Accepted,  \* the answers that verify() accepts, all of them without one
    Configs    \* the configurations of the decorator

\* A strategy that is none of the four ends the call as well.
Strategies == {"retry", "substitute", "freeze", "escalate", "misspelt"}

\* substitutable: an alternate was given, and its name is in the scope;
\* schema: answers are checked against the record schema, and for freshness.
\* Nothing in the code asks max_attempts to be positive.
Config == [transient : Strategies, malformed : Strategies, conflict : Strategies,
           auth : Strategies, unknown : Strategies,
           max_attempts : Int, substitutable : BOOLEAN, schema : BOOLEAN]

ASSUME RecoverableAssumption ==
    /\ Answers \subseteq Outcome
    /\ Configs \subseteq Config

VARIABLES
    config,       \* the decorator's arguments
    calls,        \* number of calls of the function
    substituted,  \* the alternate has been called
    obs,          \* the last answer
    failure,      \* its failure class, or NoFailure
    guard,        \* iterations of the recovery loop
    pc,           \* "call", "judge", "recover", "resume", then how it ended:
                  \* "returned", "escalated" (RecoveryEscalated) or "raised"
    why           \* the reason of RecoveryEscalated, "none" before it

vars == <<config, calls, substituted, obs, failure, guard, pc, why>>

-----------------------------------------------------------------------------
\* classify(): without a schema the data is never looked at.
ClassifyFor(cfg, out) == Classify(IF cfg.schema THEN out ELSE [out EXCEPT !.data = NoData])

StrategyFor(cfg, class) ==
    IF class \in {"TRANSIENT", "TOOL_UNAVAILABLE", "PARTIAL_RESULT"} THEN cfg.transient
    ELSE IF class \in {"MALFORMED_OUTPUT", "STALE_DATA", "INVALID_INPUT"} THEN cfg.malformed
    ELSE IF class = "CONFLICTING_RESULT" THEN cfg.conflict
    ELSE IF class \in {"AUTHENTICATION", "AUTHORIZATION"} THEN cfg.auth
    ELSE cfg.unknown

Strategy == StrategyFor(config, failure)

Init ==
    /\ config \in Configs
    /\ calls = 0
    /\ substituted = FALSE
    /\ obs = NoAnswer
    /\ failure = NoFailure
    /\ guard = 0
    /\ pc = "call"
    /\ why = "none"

-----------------------------------------------------------------------------
\* The function, or its alternate, answers or raises; the wrapper does not catch
\* what they raise.
Call ==
    \/ obs' \in Answers /\ pc' = "judge"
    \/ pc' = "raised" /\ UNCHANGED obs

FirstCall ==
    /\ pc = "call"
    /\ calls' = calls + 1
    /\ Call
    /\ UNCHANGED <<config, substituted, failure, guard, why>>

\* In the recovery loop an answer without a failure must also pass verify(); one
\* that does not is a malformed output.
FailureOf ==
    IF ClassifyFor(config, obs) # NoFailure THEN ClassifyFor(config, obs)
    ELSE IF guard > 0 /\ obs \notin Accepted THEN "MALFORMED_OUTPUT"
    ELSE NoFailure

Judge ==
    /\ pc = "judge"
    /\ failure' = FailureOf
    /\ pc' = IF FailureOf = NoFailure THEN "resume" ELSE "recover"
    /\ UNCHANGED <<config, calls, substituted, obs, guard, why>>

\* RecoveryEscalated
GiveUp(reason) ==
    /\ pc' = "escalated"
    /\ why' = reason
    /\ UNCHANGED <<config, calls, substituted, obs, failure>>

\* The paranoia bound of the loop.
BoundExceeded ==
    /\ pc = "recover"
    /\ guard + 1 > config.max_attempts + 3
    /\ guard' = guard + 1
    /\ GiveUp("RECOVERY_BOUND_EXCEEDED")

\* One iteration of the loop, with one of these strategies.
Iterate(strategies) ==
    /\ pc = "recover"
    /\ guard + 1 <= config.max_attempts + 3
    /\ guard' = guard + 1
    /\ Strategy \in strategies

\* Mutant: the first call is not counted against max_attempts.
RetriesLeft_OneMore == calls <= config.max_attempts

RetriesLeft == calls < config.max_attempts

Retry ==
    /\ Iterate({"retry"})
    /\ RetriesLeft
    /\ calls' = calls + 1
    /\ Call
    /\ UNCHANGED <<config, substituted, failure, why>>

RetryExhausted ==
    /\ Iterate({"retry"})
    /\ ~RetriesLeft
    /\ GiveUp("RETRY_EXHAUSTED")

\* Mutant: the alternate is called again and again.
Substitute_Again ==
    /\ Iterate({"substitute"})
    /\ config.substitutable
    /\ Call
    /\ UNCHANGED <<config, calls, substituted, failure, why>>

\* The alternate is called once at most.
Substitute ==
    /\ Iterate({"substitute"})
    /\ config.substitutable
    /\ ~substituted
    /\ substituted' = TRUE
    /\ Call
    /\ UNCHANGED <<config, calls, failure, why>>

SubstituteRefused ==
    /\ Iterate({"substitute"})
    /\ substituted \/ ~config.substitutable
    /\ GiveUp("SUBSTITUTE_REFUSED")

Stop ==
    /\ Iterate(Strategies \ {"retry", "substitute"})
    /\ GiveUp("STOPPED")

\* Mutant: what has no failure is returned unverified.
Return_Unverified ==
    /\ pc = "resume"
    /\ pc' = "returned"
    /\ UNCHANGED <<config, calls, substituted, obs, failure, guard, why>>

\* The answer is verified, for the first time when it is the first one, and its
\* data is returned.
Return ==
    /\ pc = "resume"
    /\ obs \in Accepted
    /\ pc' = "returned"
    /\ UNCHANGED <<config, calls, substituted, obs, failure, guard, why>>

VerifyFailed ==
    /\ pc = "resume"
    /\ obs \notin Accepted
    /\ GiveUp("VERIFY_FAILED")
    /\ UNCHANGED guard

Step ==
    \/ FirstCall
    \/ Judge
    \/ BoundExceeded
    \/ Retry
    \/ RetryExhausted
    \/ Substitute
    \/ SubstituteRefused
    \/ Stop
    \/ Return
    \/ VerifyFailed

Ended == pc \in {"returned", "escalated", "raised"}
Terminated == Ended /\ UNCHANGED vars

Next == Step \/ Terminated

Spec == Init /\ [][Next]_vars
-----------------------------------------------------------------------------
Reasons == {"none", "RECOVERY_BOUND_EXCEEDED", "RETRY_EXHAUSTED", "SUBSTITUTE_REFUSED",
            "STOPPED", "VERIFY_FAILED"}

\* Every variable has its type.
TypeOK ==
    /\ config \in Config
    /\ calls \in Nat
    /\ substituted \in BOOLEAN
    /\ obs \in Outcome
    /\ failure \in FailureClass \cup {NoFailure}
    /\ guard \in Nat
    /\ pc \in {"call", "judge", "recover", "resume", "returned", "escalated", "raised"}
    /\ why \in Reasons

\* Where max_attempts is 1 or more the function is called at most that often,
\* whichever strategies alternate; and the recovery loop runs once for each call
\* after the first, one of which may be the alternate's, if it is in scope (the two
\* counters of the wrapper, `calls' and `guard', never drift apart).  For less than 1 the
\* docstring's "at most max_attempts primary calls" does not hold: the first call comes
\* before any bound is looked at.
CallsAreBounded ==
    /\ config.max_attempts >= 1 => calls <= config.max_attempts
    /\ substituted => config.substitutable
    /\ pc \in {"judge", "recover", "resume"} =>
          guard = (calls - 1) + (IF substituted THEN 1 ELSE 0)

\* The paranoia bound of the loop is slack down to max_attempts = -1: whatever is
\* answered, the calls run out before it, and a caller never sees
\* RECOVERY_BOUND_EXCEEDED.
BoundIsSlack == config.max_attempts >= -1 => why # "RECOVERY_BOUND_EXCEEDED"

\* What is returned has no failure and was accepted by the caller's verifier,
\* whichever call it came from.
ReturnedIsVerified ==
    pc = "returned" => ClassifyFor(config, obs) = NoFailure /\ obs \in Accepted
=============================================================================
