--------------------------- MODULE MeasuredTransfer ---------------------------
(***************************************************************************)
(* What a sender/receiver test of apps/C promises, whatever the two        *)
(* programs do to keep it: each source offers at most SendCount messages   *)
(* and never runs more than Window messages ahead of the sink; the sink    *)
(* counts each message once, and calls the measurement complete exactly    *)
(* when the messages it counted reach RecvCount.                           *)
(***************************************************************************)
EXTENDS Integers

CONSTANTS Senders, Window, SendCount, RecvCount

VARIABLES offered,  \* offered[s]: messages s has handed over
          counted,  \* counted[s]: messages of s the sink has counted
          total,    \* messages the sink has counted
          complete  \* has the sink called the measurement complete?

mtVars == <<offered, counted, total, complete>>

Init ==
    /\ offered = [s \in Senders |-> 0]
    /\ counted = [s \in Senders |-> 0]
    /\ total = 0
    /\ complete = FALSE

Offer(s) ==
    /\ \E n \in 1..Window :
          /\ offered[s] + n <= SendCount
          /\ offered[s] + n <= counted[s] + Window
          /\ offered' = [offered EXCEPT ![s] = @ + n]
    /\ UNCHANGED <<counted, total, complete>>

Count(s) ==
    /\ counted[s] < offered[s]
    /\ counted' = [counted EXCEPT ![s] = @ + 1]
    /\ total' = total + 1
    /\ complete' = (complete \/ total + 1 >= RecvCount)
    /\ UNCHANGED offered

Next == \E s \in Senders : Offer(s) \/ Count(s)

Spec == Init /\ [][Next]_mtVars

\* Once complete, a source may be told to stop before it has offered all.
Fairness ==
    \A s \in Senders :
        WF_mtVars(~complete /\ Offer(s)) /\ WF_mtVars(Count(s))

FairSpec == Spec /\ Fairness
=============================================================================
