CONSTANTS
    W = 4
    K = 2
    Freq = 2
    Amounts = {1, 2, 3, 4, 5, 6}
    MaxLag = 1
SPECIFICATION Spec
INVARIANTS
    NeverEarly
    NeverLate
PROPERTIES
    SleepReturns
