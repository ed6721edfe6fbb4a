\* Everything that may fail does: report files that cannot be opened, a port
\* that is taken, a sender that starts before the receiver listens, one that has no
\* report frequency and divides by zero, and one whose messages lack the time stamps
\* the receiver asks for.
SPECIFICATION FairSpec
CONSTANTS
    s1 = s1
    s2 = s2
    s3 = s3
    Senders = {s1, s2, s3}
    Window = 2
    SendCount = 3
    SendFreq <- FreqMissing
    ReportFaults = TRUE
    RecvCount = 2
    RecvFreq = 2
    Stamped <- StampSome
    Timestamping = TRUE
    RecvFaults = TRUE
    SleepCovers = FALSE
INVARIANTS
    IInv
PROPERTIES
    SendersExit
    MeasuresTransfer
CHECK_DEADLOCK FALSE
