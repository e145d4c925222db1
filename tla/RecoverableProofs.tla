------------------------- MODULE RecoverableProofs -------------------------
(***************************************************************************)
(* The bounds of the `recoverable' decorator and what it returns, for      *)
(* every configuration, every function and every verifier.                 *)
(*                                                                         *)
(* The bounds follow from counting: an iteration of the loop makes one     *)
(* call, of the function or of its alternate, or it is the last one.       *)
(***************************************************************************)
EXTENDS Recoverable, FailurePolicyProofs

\* The first call has not been made.
Fresh ==
    pc = "call" => calls = 0 /\ guard = 0 /\ ~substituted /\ failure = NoFailure

\* In the loop and after it there was a call.
Called ==
    pc \in {"judge", "recover", "resume"} => calls >= 1

\* What is about to be returned has no failure.
Resumable ==
    pc = "resume" => ClassifyFor(config, obs) = NoFailure

\* The first call is made whatever max_attempts says; below 1 it is the only one.
OneCallAtLeast ==
    calls <= 1 \/ calls <= config.max_attempts

IInv ==
    /\ TypeOK
    /\ CallsAreBounded
    /\ OneCallAtLeast
    /\ BoundIsSlack
    /\ ReturnedIsVerified
    /\ Fresh
    /\ Called
    /\ Resumable

-----------------------------------------------------------------------------
\* What the classifier is asked about is an outcome, with or without its data.
LEMMA ClassifyForClass ==
    ASSUME NEW cfg, NEW out \in Outcome
    PROVE  ClassifyFor(cfg, out) \in FailureClass \cup {NoFailure}
<1>1. [out EXCEPT !.data = NoData] \in Outcome
  BY DEF Outcome, Data
<1> QED
  BY <1>1, ClassifyClass DEF ClassifyFor

\* The failure of an answer is a class, or there is none and the classifier
\* found none.
LEMMA FailureOfClass ==
    ASSUME obs \in Outcome
    PROVE  /\ FailureOf \in FailureClass \cup {NoFailure}
           /\ FailureOf = NoFailure => ClassifyFor(config, obs) = NoFailure
BY ClassifyForClass DEF FailureOf, FailureClass, NoFailure

LEMMA InitInv == Init => IInv
<1> SUFFICES ASSUME Init PROVE IInv
  OBVIOUS
<1>1. TypeOK
  BY RecoverableAssumption, NoAnswerType DEF Init, TypeOK, Reasons
<1>2. CallsAreBounded /\ OneCallAtLeast /\ BoundIsSlack /\ ReturnedIsVerified
  BY RecoverableAssumption DEF Init, Config, CallsAreBounded, OneCallAtLeast, BoundIsSlack, ReturnedIsVerified
<1>3. Fresh /\ Called /\ Resumable
  BY DEF Init, Fresh, Called, Resumable
<1> QED
  BY <1>1, <1>2, <1>3 DEF IInv

\* Every action keeps the types; the attempts of a configuration are a number.
LEMMA StepType == ASSUME TypeOK, [Next]_vars PROVE TypeOK'
<1> USE RecoverableAssumption DEF TypeOK
<1>1. CASE FirstCall
  BY <1>1 DEF FirstCall, Call
<1>2. CASE Judge
  BY <1>2, FailureOfClass DEF Judge
<1>3. CASE BoundExceeded
  BY <1>3 DEF BoundExceeded, GiveUp, Reasons
<1>4. CASE Retry \/ Substitute
  <2>1. obs' \in Outcome /\ pc' \in {"judge", "raised"} /\ guard' \in Nat
    BY <1>4 DEF Retry, Substitute, Iterate, Call
  <2>2. calls' \in Nat
    BY <1>4 DEF Retry, Substitute
  <2>3. substituted' \in BOOLEAN
    BY <1>4 DEF Retry, Substitute
  <2> QED
    BY <1>4, <2>1, <2>2, <2>3 DEF Retry, Substitute
<1>5. CASE RetryExhausted \/ SubstituteRefused \/ Stop
  BY <1>5 DEF RetryExhausted, SubstituteRefused, Stop, Iterate, GiveUp, Reasons
<1>6. CASE Return \/ VerifyFailed
  BY <1>6 DEF Return, VerifyFailed, GiveUp, Reasons
<1>7. CASE UNCHANGED vars
  BY <1>7 DEF vars
<1> QED
  BY <1>1, <1>2, <1>3, <1>4, <1>5, <1>6, <1>7 DEF Next, Step, Terminated

\* The loop makes a call in every iteration but its last, and none too many.
LEMMA StepBounds ==
    ASSUME IInv, [Next]_vars
    PROVE  CallsAreBounded' /\ OneCallAtLeast' /\ Fresh' /\ Called'
<1> USE DEF IInv, TypeOK, CallsAreBounded, OneCallAtLeast, Fresh, Called
<1>1. CASE FirstCall
  BY <1>1 DEF FirstCall, Call
<1>2. CASE Judge
  BY <1>2 DEF Judge
<1>3. CASE BoundExceeded \/ RetryExhausted \/ SubstituteRefused \/ Stop \/ VerifyFailed
  BY <1>3 DEF BoundExceeded, RetryExhausted, SubstituteRefused, Stop, VerifyFailed, Iterate, GiveUp
<1>4. CASE Retry
  <2>1. config' = config /\ config.max_attempts \in Int
    BY <1>4 DEF Retry, Config
  <2> QED
    BY <1>4, <2>1 DEF Retry, RetriesLeft, Iterate, Call
<1>5. CASE Substitute
  BY <1>5 DEF Substitute, Iterate, Call
<1>6. CASE Return
  BY <1>6 DEF Return
<1>7. CASE UNCHANGED vars
  BY <1>7 DEF vars
<1> QED
  BY <1>1, <1>2, <1>3, <1>4, <1>5, <1>6, <1>7 DEF Next, Step, Terminated

\* The loop's own bound is out of reach: the iterations that made a call are one
\* at most, or one more than the calls that max_attempts allows.
LEMMA BoundOutOfReach ==
    ASSUME IInv, config.max_attempts >= -1
    PROVE  ~BoundExceeded
<1> SUFFICES ASSUME BoundExceeded PROVE FALSE
  OBVIOUS
<1>1. config.max_attempts \in Int /\ calls \in Nat /\ guard \in Nat
  BY DEF IInv, TypeOK, Config
<1>2. guard <= calls
  BY DEF BoundExceeded, IInv, TypeOK, CallsAreBounded
<1>3. calls <= 1 \/ calls <= config.max_attempts
  BY DEF IInv, OneCallAtLeast
<1>4. guard + 1 > config.max_attempts + 3
  BY DEF BoundExceeded
<1> QED
  BY <1>1, <1>2, <1>3, <1>4

\* What is returned was judged and verified.
LEMMA StepVerified ==
    ASSUME IInv, [Next]_vars
    PROVE  BoundIsSlack' /\ ReturnedIsVerified' /\ Resumable'
<1> USE DEF IInv, BoundIsSlack, ReturnedIsVerified, Resumable
<1>1. CASE FirstCall
  BY <1>1 DEF FirstCall, Call
<1>2. CASE Judge
  BY <1>2, FailureOfClass DEF Judge, TypeOK
<1>3. CASE RetryExhausted \/ SubstituteRefused \/ Stop \/ VerifyFailed
  BY <1>3 DEF RetryExhausted, SubstituteRefused, Stop, VerifyFailed, Iterate, GiveUp
<1>4. CASE Retry \/ Substitute
  BY <1>4 DEF Retry, Substitute, Iterate, Call
<1>5. CASE Return
  BY <1>5 DEF Return
<1>6. CASE UNCHANGED vars
  BY <1>6 DEF vars
<1>7. CASE BoundExceeded
  BY <1>7, BoundOutOfReach DEF BoundExceeded, GiveUp
<1> QED
  BY <1>1, <1>2, <1>3, <1>4, <1>5, <1>6, <1>7 DEF Next, Step, Terminated

-----------------------------------------------------------------------------
\* The inductive invariant holds of every reachable state.
THEOREM Inductive == Spec => []IInv
<1>1. Init => IInv
  BY InitInv
<1>2. IInv /\ [Next]_vars => IInv'
  BY StepType, StepBounds, StepVerified DEF IInv
<1> QED
  BY <1>1, <1>2, PTL DEF Spec

\* Every variable of the decorator's wrapper has its type.
THEOREM TypeCorrect == Spec => []TypeOK
<1>1. IInv => TypeOK
  BY DEF IInv
<1> QED
  BY <1>1, Inductive, PTL

\* For every max_attempts of 1 or more the function is called at most that often;
\* for every other one it is called at most once, which is once too often: the bound
\* is looked at from the second call on.  The alternate is called once, in scope.
THEOREM CallsStayBounded ==
    Spec => [](CallsAreBounded /\ (config.max_attempts < 1 => calls <= 1))
<1> DEFINE Bounded == CallsAreBounded /\ (config.max_attempts < 1 => calls <= 1)
<1>1. IInv => Bounded
  BY DEF IInv, OneCallAtLeast, TypeOK, Config
<1> QED
  BY <1>1, Inductive, PTL

\* RECOVERY_BOUND_EXCEEDED is never raised, unless max_attempts is below -1.
THEOREM BoundStaysSlack == Spec => []BoundIsSlack
<1>1. IInv => BoundIsSlack
  BY DEF IInv
<1> QED
  BY <1>1, Inductive, PTL

\* What the wrapper returns was classified and verified.
THEOREM ReturnsAreVerified == Spec => []ReturnedIsVerified
<1>1. IInv => ReturnedIsVerified
  BY DEF IInv
<1> QED
  BY <1>1, Inductive, PTL
=============================================================================
