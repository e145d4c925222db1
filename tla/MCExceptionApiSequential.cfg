SPECIFICATION Spec
CONSTANTS
    Cases = {c1}
    Requests = {r1}
    Kinds = {"payment_webhook_failed", "ambiguous_financial_state"}
    Endpoints = {"investigate", "execute", "transition"}
    Worlds = {"canonical", "ambiguous"}
    MaxAttempts = 2
    DiskWorks = TRUE
    MaxFaults = 1
    MayRestart = TRUE
SYMMETRY Symmetry
INVARIANT TypeOK AtMostOnce AttemptsMatchEffects SavedIsCurrent LastRowNamesState RecordsAreTrue
PROPERTY TerminalIsFinal
