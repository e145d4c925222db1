\* The table cannot be read when the key is checked.
SPECIFICATION Spec
CONSTANTS
    BuiltIn = {"replay_webhook"}
    Registered = {"post_credit", "fetch_alternate"}
    ReadOnlyTools = {"fetch_alternate"}
    Asked = {"replay_webhook", "post_credit", "fetch_alternate", "unheard_of", "modify_payment"}
    Resources = {r1}
    Scope = {"replay_webhook", "post_credit", "fetch_alternate", "unheard_of"}
    Permitted = {"replay_webhook", "post_credit", "fetch_alternate", "unheard_of"}
    Stores = {s1, s2}
    Caps = {c1}
    Budgets <- MCBudgets
    MaxCalls = 2
    MaxCrashes = 1
    MaxFaults = 2
    NoCap = NoCap
    NoCall = NoCall
PROPERTIES RecordedNeverReexecuted
