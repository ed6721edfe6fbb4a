\* One simple_recv and two readers, one after the other; two connections break.
\* direct_send may be left listening with nobody to come, so it may stop short.
SPECIFICATION FairSpec
CONSTANTS
    Receivers = {r1, r2, r3}
    Readers = {r2, r3}
    Requested = 4
    Freqs = {0, 2}
    Expected = 4
    Window = 3
    AtOnce = 1
    Breaks = 2
INVARIANTS
    IInv
    AllRows
PROPERTIES
    NoGap
    ServedToTheEnd
CHECK_DEADLOCK FALSE
