\* Two agents, two coordinators that are bound in turn, one invoice.
SPECIFICATION Spec
CONSTANTS
    a1 = a1
    a2 = a2
    c1 = c1
    c2 = c2
    i1 = i1
    Items = {i1}
    Strangers = {x1}
    Amounts <- MCAmounts
    Agents = {a1, a2}
    Coordinators = {c1, c2}
    Unbound = Unbound
    Slots = {s1, s2}
    NoCall = NoCall
    Asked = {"fetch_primary", "fetch_alternate"}
    HookScope <- MCHookScope
    Scope <- MCScope
    Pairs <- MCPairs
    Forbidden = {"request_payroll_access"}
    Sources = {"fetch_primary", "fetch_alternate"}
    Expected <- MCExpected
    Answers <- MCAnswers
    MaxAttempts = 1
    MaxProposals <- MCMaxProposals
SYMMETRY Symmetry
INVARIANTS TypeOK RecoveriesAreBounded BothScopesHold
