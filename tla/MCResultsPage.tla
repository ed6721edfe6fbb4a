---------------------------- MODULE MCResultsPage ----------------------------
(* ResultsPage for TLC. *)
EXTENDS ResultsPage

Soak(l, c) == Entry("p2p_soak", l, c)
Size(c) == Entry("message_size", "C", c)

\* Only the last day has the C++ test; the first has no message sizes, and the
\* tests did not run on the second.
WithAGap == <<
    {Soak("C", "receiver"), Soak("C", "sender")},
    {},
    {Soak("C", "receiver"), Size("receiver")},
    {Soak("C", "receiver"), Soak("CPP", "receiver"), Size("receiver")}>>

\* The tests did not run on the first day, the others share one directory, and there
\* is a test that the page draws no chart for.
AnEmptyDay == <<
    {},
    {Soak("C", "receiver"), Entry("router_scale", "CPP", "sender")},
    {Soak("C", "receiver"), Soak("CPP", "receiver")}>>
=============================================================================
