CONSTANTS
    W = 4
    K = 2
    Freq = 2
    Amounts = {1, 2, 3, 4, 5, 6}
    MaxLag = 2
SPECIFICATION Spec
INVARIANTS
    OverflowBranchOnlyOnOverflow
