------------------------ MODULE FailurePolicyProofs ------------------------
(***************************************************************************)
(* What the decision procedures return, for every answer of a tool: the    *)
(* lemmas that the proofs about the two recovery loops rest on.            *)
(***************************************************************************)
EXTENDS FailurePolicy, TLAPS

\* The first coded class of an error text is a failure class.
LEMMA CodeOfClass ==
    ASSUME NEW err \in SUBSET (CodedClasses \cup {BlockedToken})
    PROVE  CodeOf(err) \in FailureClass
<1>1. CASE err \cap CodedClasses = {}
  BY <1>1 DEF CodeOf, FailureClass
<1>2. CASE err \cap CodedClasses # {}
  <2> DEFINE First(k) == /\ CodeOrder[k] \in err
                         /\ \A j \in 1..(k - 1) : CodeOrder[j] \notin err
  <2>1. \E k \in 1..Len(CodeOrder) : First(k)
    BY <1>2, SMTT(60) DEF CodeOrder, CodedClasses
  <2>2. \A k \in 1..Len(CodeOrder) : CodeOrder[k] \in FailureClass
    BY DEF CodeOrder, FailureClass
  <2>3. (CHOOSE k \in 1..Len(CodeOrder) : First(k)) \in 1..Len(CodeOrder)
    BY <2>1
  <2>4. QED
    BY <1>2, <2>2, <2>3 DEF CodeOf
<1>3. QED
  BY <1>1, <1>2

\* The classifier returns a failure class or none.
LEMMA ClassifyClass ==
    ASSUME NEW out \in Outcome
    PROVE  Classify(out) \in FailureClass \cup {NoFailure}
  BY CodeOfClass DEF Classify, Outcome, FailureClass

\* So does the verifier's mapping of problems to classes.
LEMMA VerifyClass ==
    ASSUME NEW problems
    PROVE  VerifyProblemClass(problems) \in FailureClass
  BY DEF VerifyProblemClass, FailureClass

\* The payload of an answer is a record exactly when it says so.
LEMMA RecordPayload ==
    ASSUME NEW out \in Outcome, IsRecord(out.data)
    PROVE  out.data \in Records
  BY DEF Outcome, Data, IsRecord, NoData, Junk, Batches, Records

\* The answer slot is well typed when it is empty.
LEMMA NoAnswerType == NoAnswer \in Outcome
  BY DEF NoAnswer, Outcome, SourceNames, Envs, Data, NoData
=============================================================================
