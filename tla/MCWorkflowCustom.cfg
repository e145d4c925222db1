\* Two invoices under a caller's own chains, as a fair run; recovery may not call
\* the primary source again.
SPECIFICATION FairSpec
CONSTANTS
    Items = {i1, i2}
    Amounts <- MCAmounts
    NoItem = NoItem
    Scope <- NarrowScope
    Adapters <- MCAdapters
    Chains <- MCCustomChains
    MaxAttempts = 3
    Expected <- MCExpected
    Answers <- BriefAnswers
    Registered = {"external", "broken"}
INVARIANTS RecoveryStaysInScope PendingIsClean
PROPERTIES ImplementsJob Terminates
