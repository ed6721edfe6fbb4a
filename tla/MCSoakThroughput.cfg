\* The throughput test: one sender, matching counts, no time stamps.
SPECIFICATION FairSpec
CONSTANTS
    s1 = s1
    s2 = s2
    s3 = s3
    Senders = {s1}
    Window = 4
    SendCount = 12
    SendFreq <- FreqFour
    ReportFaults = FALSE
    RecvCount = 12
    RecvFreq = 5
    Stamped <- StampNone
    Timestamping = FALSE
    RecvFaults = FALSE
    SleepCovers = TRUE
INVARIANTS
    CreditConserved
    SenderReportComplete
    KeptReportIsWhole
PROPERTIES
    TestEnds
    MeasuresTransferFairly
