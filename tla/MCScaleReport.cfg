\* What is left of the report of router_scale at the end.
SPECIFICATION Spec
CONSTANTS
    Plan <- ScaleOnly
    WaitCount = 2
    ReaperTicks = 1
    Recur = FALSE
    MaxLines = 1
    Crashes = 0
    Width = 2
INVARIANTS
    ReportHasRows
