SPECIFICATION Spec
CONSTANTS
    Cases = {c1}
    Requests = {r1, r2}
    Kinds = {"payment_webhook_failed", "ambiguous_financial_state"}
    Endpoints = {"investigate", "execute"}
    Worlds = {"canonical", "ambiguous"}
    MaxAttempts = 2
    DiskWorks = FALSE
    MaxFaults = 0
    MayRestart = FALSE
SYMMETRY Symmetry
INVARIANT ResolvedIsProved EffectsWithinPolicy AttemptsAreBacked NoStrandedCase
