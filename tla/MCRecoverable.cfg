\* One call under every configuration, with answers of every kind.
SPECIFICATION Spec
CONSTANTS
    Items = {i1}
    Amounts <- MCAmounts
    Answers <- MCAnswers
    Accepted <- MCAccepted
    Configs <- MCConfigs
INVARIANTS CallsAreBounded BoundIsSlack ReturnedIsVerified
