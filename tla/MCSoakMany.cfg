\* Two senders that stamp their messages, for a receiver that needs far fewer messages
\* than they send together: it shuts down under load, and the bound on what it counts
\* past msg_count is one less than all there is to count.
SPECIFICATION FairSpec
CONSTANTS
    s1 = s1
    s2 = s2
    s3 = s3
    Senders = {s1, s2}
    Window = 2
    SendCount = 5
    SendFreq <- FreqTwo
    ReportFaults = FALSE
    RecvCount = 2
    RecvFreq = 2
    Stamped <- StampAll
    Timestamping = TRUE
    RecvFaults = FALSE
    SleepCovers = FALSE
INVARIANTS
    RowsCoverTheirPeriod
    ShutdownClosesAll
    ListHoldsLiveConnections
    OverrunIsCreditOnly
    CompletedMeansCounted
PROPERTIES
    ReceiverExits
CHECK_DEADLOCK FALSE
