\* Two invoices under the default chains (RecoveryRuntime derives the same), with
\* an answer of every kind that the classifier, the verifier and the cross-source
\* check tell apart, and with a compensation that fails.
SPECIFICATION Spec
CONSTANTS
    Items = {i1, i2}
    Amounts <- MCAmounts
    NoItem = NoItem
    Scope <- MCScope
    Adapters <- MCAdapters
    Chains <- DefaultChains
    MaxAttempts = 3
    Expected <- MCExpected
    Answers <- TelltaleAnswers
    Registered = {"broken"}
SYMMETRY Symmetry
INVARIANTS TypeOK NoIllegalTransition FrozenHaltsRun ResultsVerified
PROPERTIES DirtyIsHandedOver NeverRetryUnrecoverable CompletionAgreesWithAnchor
