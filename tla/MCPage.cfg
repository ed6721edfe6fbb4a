\* Both tabs: selections, pins, reloads, and files that may fail to load; answers
\* come in order.
SPECIFICATION Spec
CONSTANTS
    LastDay = 3
    Results <- AnEmptyDay
    Span = 2
    Ordered = TRUE
    Failing = TRUE
    MaxChanges = 2
    MaxPins = 2
    MaxBatches = 2
INVARIANTS
    SelectionExists
    ChartsShowSelection
    MarksAgree
    PinsAreStored
    SavedChartsDrawn
