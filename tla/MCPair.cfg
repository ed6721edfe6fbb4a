\* A pair as the router tests start it.  The sender's connection breaks up to
\* three times, which uses up its attempts, or is closed by the router, and the
\* receiver's breaks once; then the other end waits for ever, so the pair may stop
\* short.
SPECIFICATION FairSpec
CONSTANTS
    Capacity = 2
    MayDismiss = TRUE
    Requested = 4
    MaxSent = 4
    Patience = 4
    MaxTries = 3
    SendFreqs = {0, 2}
    Expected = 4
    RecvFreqs = {0, 3}
    SendBreaks = 3
    RecvBreaks = 1
INVARIANTS
    IInv
    OkMeansAllSent
    RetryNeverSkips
    ConfirmedMeansReceived
PROPERTIES
    BothSucceed
    ReceiverSucceeds
CHECK_DEADLOCK FALSE
