----------------------------- MODULE AtLeastOnce -----------------------------
(***************************************************************************)
(* What a sender that counts acceptances promises: the messages 1..Total   *)
(* are delivered in order and without a gap, though some more than once,   *)
(* only what was delivered is confirmed, and the transfer is complete only *)
(* when all of it was.                                                     *)
(***************************************************************************)
EXTENDS Integers

CONSTANT Total

VARIABLES delivered,  \* the messages delivered so far
          confirmed,  \* how many of them the sender knows of
          complete    \* has the sender ended with success?

vars == <<delivered, confirmed, complete>>

Init == delivered = {} /\ confirmed = 0 /\ complete = FALSE

\* The next message, or one that was delivered before.
Deliver(n) ==
    /\ 1..(n - 1) \subseteq delivered
    /\ delivered' = delivered \union {n}
    /\ UNCHANGED <<confirmed, complete>>

Confirm ==
    /\ 1..(confirmed + 1) \subseteq delivered
    /\ confirmed' = confirmed + 1
    /\ UNCHANGED <<delivered, complete>>

Complete ==
    /\ delivered = 1..Total
    /\ confirmed = Total
    /\ complete' = TRUE
    /\ UNCHANGED <<delivered, confirmed>>

Next == (\E n \in 1..Total : Deliver(n)) \/ Confirm \/ Complete

Spec == Init /\ [][Next]_vars
=============================================================================
