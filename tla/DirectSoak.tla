------------------------------ MODULE DirectSoak ------------------------------
(***************************************************************************)
(* tests/p2p_soak/CPP: direct_send and the receivers that connect to it.   *)
(* simple_recv expects a body that is a double, direct_send sends a map,   *)
(* so the simple_recv of this repository throws at its first message;      *)
(* Readers are other programs, which can read it.                          *)
(***************************************************************************)
EXTENDS DirectSend, FiniteSets

CONSTANTS Readers,   \* the receivers that can read a map
          Expected,  \* their -m; the script gives both programs the same
          Window,    \* the credit that proton grants at first
          AtOnce,    \* bound: how many receivers are connected at a time
          Breaks     \* bound: how many connections break

ASSUME DirectSoakAssumption ==
    /\ IsFiniteSet(Receivers) /\ Readers \subseteq Receivers
    /\ Expected \in Nat \ {0} /\ Window \in Nat \ {0} /\ AtOnce \in Nat \ {0} /\ Breaks \in Nat

VARIABLES received,   \* received[r]: received, in r
          delivered,  \* the messages accepted by any receiver so far
          breaks      \* how many connections broke

vars == <<sendVars, pipeVars, received, delivered, breaks>>

TypeOK ==
    /\ SendTypeOK
    /\ received \in [Receivers -> Nat] /\ delivered \subseteq Nat
    /\ breaks \in 0..Breaks

Init ==
    /\ SendInit
    /\ received = [r \in Receivers |-> 0] /\ delivered = {} /\ breaks = 0

\* A receiver connects and grants its first credit, or finds nobody listening.
Connect(r) ==
    /\ conn[r] = "off"
    /\ IF listening
       THEN /\ Cardinality({q \in Receivers : Joined(q)}) < AtOnce
            /\ conn' = [conn EXCEPT ![r] = "open"]
            /\ grants' = [grants EXCEPT ![r] = Window]
       ELSE conn' = [conn EXCEPT ![r] = "gone"] /\ UNCHANGED grants
    /\ UNCHANGED <<sendVars, credit, wire, acks, received, delivered, breaks>>

\* on_message in a reader: the message is accepted, which makes room for another
\* one, and counted, up to the expected number; the last one closes.
Take(r) ==
    /\ r \in Readers /\ conn[r] \in {"open", "left", "closing"} /\ wire[r] # <<>>
    /\ wire' = [wire EXCEPT ![r] = Tail(@)]
    /\ acks' = [acks EXCEPT ![r] = @ + 1]
    /\ grants' = [grants EXCEPT ![r] = @ + 1]
    /\ delivered' = delivered \union {Head(wire[r])}
    /\ IF received[r] < Expected
       THEN /\ received' = [received EXCEPT ![r] = @ + 1]
            /\ conn' = IF received'[r] = Expected /\ conn[r] = "open"
                       THEN [conn EXCEPT ![r] = "left"] ELSE conn
       ELSE UNCHANGED <<received, conn>>
    /\ UNCHANGED <<sendVars, credit, breaks>>

\* A lost connection that direct_send has closed already is no disconnection.
Lost(r) == IF conn[r] = "closing" THEN "gone" ELSE "broken"

\* on_message in simple_recv: get<double>() throws before the message is
\* accepted or counted, main returns 2, and the kernel closes the socket.
Misread(r) ==
    /\ r \notin Readers /\ conn[r] \in {"open", "closing"} /\ wire[r] # <<>>
    /\ conn' = [conn EXCEPT ![r] = Lost(r)]
    /\ wire' = [wire EXCEPT ![r] = <<>>]
    /\ UNCHANGED <<sendVars, credit, grants, acks, received, delivered, breaks>>

\* A receiver answers the close of direct_send.
Answer(r) ==
    /\ conn[r] = "closing"
    /\ conn' = [conn EXCEPT ![r] = "gone"]
    /\ wire' = [wire EXCEPT ![r] = <<>>]
    /\ UNCHANGED <<sendVars, credit, grants, acks, received, delivered, breaks>>

\* A connection breaks: what was on the way to the receiver is lost, and the
\* last of what was on the way back.
Break(r) ==
    /\ breaks < Breaks /\ breaks' = breaks + 1
    /\ conn[r] \in {"open", "left", "closing"}
    /\ conn' = [conn EXCEPT ![r] = Lost(r)]
    /\ wire' = [wire EXCEPT ![r] = <<>>]
    /\ \E n \in 0..acks[r] : acks' = [acks EXCEPT ![r] = n]
    /\ UNCHANGED <<sendVars, credit, grants, received, delivered>>

Sender ==
    /\ \/ Listen \/ Exit
       \/ \E r \in Receivers :
            \/ OnSendable(r) \/ DivideByZero(r) \/ OnAccepted(r)
            \/ OnDisconnected(r) \/ OnClosed(r)
    /\ UNCHANGED <<received, delivered, breaks>>

Receiver(r) == Take(r) \/ Misread(r) \/ Answer(r)

Next == Sender \/ \E r \in Receivers : Connect(r) \/ Receiver(r) \/ Break(r)

Spec == Init /\ [][Next]_vars

\* Each process runs when it can and proton delivers what is due.  Receivers
\* need not be started, and connections need not break.
FairSpec ==
    /\ Spec /\ WF_vars(Sender)
    /\ \A r \in Receivers : WF_vars(Receiver(r))
-----------------------------------------------------------------------------
(* Safety *)

\* With one receiver at a time, direct_send is a transfer without a gap, however
\* often a connection breaks with acceptances on their way: it resends exactly
\* from the first message it has not been told of.
Transfer == INSTANCE AtLeastOnce
              WITH Total <- Requested, complete <- sproc = "ok"
NoGap == Transfer!Spec

\* The report of a direct_send that ends well has all its rows: falling back to
\* the confirmed count repeats rows and never steps over one.
AllRows ==
    sproc = "ok" => \A k \in 1..Requested : k % freq = 0 => k \in rows

\* direct_send.cpp:145 prints "all messages confirmed" and ends: all messages
\* have been delivered, whoever connected.
AllMessagesConfirmed == sproc = "ok" => delivered = 1..Requested

(* The inductive invariant, for one receiver at a time *)

\* The connection that there is has taken part of what was sent since it opened,
\* in order; a broken one has lost the end of it.
Flow(r) ==
    /\ conn[r] \in {"open", "left", "closing"} =>
          /\ sent = confirmed + acks[r] + Len(wire[r])
          /\ received[r] <= confirmed + acks[r]
    /\ conn[r] = "broken" => sent >= confirmed + acks[r] /\ wire[r] = <<>>
    /\ Joined(r) =>
          /\ \A i \in 1..Len(wire[r]) : wire[r][i] = confirmed + acks[r] + i
          /\ 1..(confirmed + acks[r]) \subseteq delivered
    /\ conn[r] = "left" => sent = Requested /\ wire[r] = <<>>
    /\ conn[r] = "closing" => confirmed = Requested
    /\ conn[r] = "off" => received[r] = 0 /\ acks[r] = 0 /\ wire[r] = <<>>

FlowInv == \A r \in Receivers : Flow(r)

\* Without a connection nothing is under way.
IdleInv ==
    /\ (\A r \in Receivers : ~Joined(r)) /\ sproc # "crashed" => sent = confirmed
    /\ sproc # "run" => \A r \in Receivers : ~Joined(r)
    /\ sproc \in {"start", "failed"} => sent = 0
    /\ sproc \in {"run", "ok"} /\ ~listening => confirmed = Requested
    /\ listening => sproc = "run"

\* What is delivered has no gap, and what is confirmed is delivered.
DeliveryInv ==
    /\ sent <= Requested /\ confirmed <= sent
    /\ 1..confirmed \subseteq delivered /\ delivered \subseteq 1..Requested
    /\ \A n \in delivered : 1..n \subseteq delivered

RowsInv ==
    sproc # "crashed" => \A k \in 1..sent : freq # 0 /\ (k % freq = 0 => k \in rows)

OneAtATime == \A r, q \in Receivers : Joined(r) /\ Joined(q) => r = q

IInv == TypeOK /\ OneAtATime /\ FlowInv /\ IdleInv /\ DeliveryInv /\ RowsInv

(* Liveness *)

\* Once a reader is connected and nothing breaks any more, direct_send ends: the
\* credit that is left and the messages that are due never wait for each other.
ServedToTheEnd ==
    \A r \in Readers :
        (conn[r] = "open" /\ breaks = Breaks) ~> sproc \in {"ok", "crashed"}
=============================================================================
