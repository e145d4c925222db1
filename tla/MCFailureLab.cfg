\* Two invoices, every wiring, and every combination of the sources' modes.
SPECIFICATION Spec
CONSTANTS
    Items = {i1, i2}
    Amounts <- MCAmounts
    Due = 1
    Inflated = 1000
    NoItem = NoItem
    MaxAttempts = 3
SYMMETRY Symmetry
INVARIANT FateIsForetold CallsMatchMode
