\* Answers may overtake each other.
SPECIFICATION Spec
CONSTANTS
    LastDay = 4
    Results <- WithAGap
    Span = 2
    Ordered = FALSE
    Failing = FALSE
    MaxChanges = 2
    MaxPins = 0
    MaxBatches = 0
INVARIANTS
    ChartsShowSelection
