\* The tests of the router in their order; receivers finish at any time or never,
\* and the router may die once.
SPECIFICATION FairSpec
CONSTANTS
    Plan <- AllTests
    WaitCount = 3
    ReaperTicks = 2
    Recur = FALSE
    MaxLines = 2
    Crashes = 1
    Width = 3
INVARIANTS
    VerdictIsTrue
    ReapersOutOfTheWay
    StartTogether
    RowsAreMeasured
PROPERTIES
    TestsEnd
