------------------------------ MODULE DirectSend ------------------------------
(***************************************************************************)
(* apps/CPP/direct_send.cpp: a process that listens, sends the messages    *)
(* 1..Requested to whoever connects, as far as there is credit, counts the *)
(* acceptances, and starts again after the last accepted message when a    *)
(* receiver disconnects.  Callbacks run one at a time in container.run(),  *)
(* so each is one action.  What proton keeps for a connection is modelled  *)
(* from how the callbacks use it.                                          *)
(***************************************************************************)
EXTENDS Integers, Sequences

CONSTANTS Receivers,  \* the processes that may connect
          Requested,  \* -m
          Freqs       \* values of -f at the start of direct_send

ASSUME DirectSendAssumption == Requested \in Nat /\ Freqs \subseteq Nat

VARIABLES sproc,      \* "start", "run", the exit ("ok", "failed") or "crashed"
          freq,       \* report_frequency
          listening,  \* is the acceptor open?
          sent,       \* sent
          confirmed,  \* confirmed
          rows,       \* the counts for which the report has a row
          conn,       \* conn[r]: the connection with r
          credit,     \* credit[r]: credit of the sender link, as proton knows it
          grants,     \* grants[r]: credit on its way to direct_send
          wire,       \* wire[r]: the messages on their way to r, in order
          acks        \* acks[r]: the acceptances on their way to direct_send

sendVars == <<sproc, freq, listening, sent, confirmed, rows>>
pipeVars == <<conn, credit, grants, wire, acks>>

\* "left": closed by the receiver; "closing": closed by direct_send; "broken":
\* the socket is gone, which direct_send has still to learn.
ConnStates == {"off", "open", "left", "closing", "broken", "gone"}
Joined(r)  == conn[r] \in {"open", "left", "closing", "broken"}

SendTypeOK ==
    /\ sproc \in {"start", "run", "ok", "failed", "crashed"}
    /\ freq \in Freqs /\ listening \in BOOLEAN
    /\ sent \in Nat /\ confirmed \in Nat /\ rows \subseteq Nat
    /\ conn \in [Receivers -> ConnStates]
    /\ credit \in [Receivers -> Nat] /\ grants \in [Receivers -> Nat]
    /\ wire \in [Receivers -> Seq(Nat)] /\ acks \in [Receivers -> Nat]

SendInit ==
    /\ sproc = "start" /\ freq \in Freqs /\ listening = FALSE
    /\ sent = 0 /\ confirmed = 0 /\ rows = {}
    /\ conn = [r \in Receivers |-> "off"]
    /\ credit = [r \in Receivers |-> 0] /\ grants = [r \in Receivers |-> 0]
    /\ wire = [r \in Receivers |-> <<>>] /\ acks = [r \in Receivers |-> 0]

\* main opens the report, waits (-D) and runs the container: on_start listens.
Listen ==
    /\ sproc = "start"
    /\ \/ sproc' = "run" /\ listening' = TRUE
       \/ sproc' = "failed" /\ UNCHANGED listening  \* fopen fails: exit(1)
    /\ UNCHANGED <<freq, sent, confirmed, rows, pipeVars>>

\* Definitions named Bug... are faulty variants of the definition that follows.

\* The test of sent is missing.
BugBurst(available) == available

\* How often the loop in on_sendable sends, with this much credit.
Burst(available) ==
    CASE sent + available <= Requested -> available
      [] sent + available > Requested /\ sent < Requested -> Requested - sent
      [] OTHER -> 0

\* Rows for whole bursts only.
BugDue(n) == {k \in {sent + n} : k % freq = 0}

\* The rows that the loop writes.
Due(n) == {k \in (sent + 1)..(sent + n) : k % freq = 0}

\* proton hands the socket what was sent; the socket may be gone.
Handed(r, n) ==
    IF conn[r] = "broken" THEN wire[r] ELSE wire[r] \o [i \in 1..n |-> sent + i]

\* on_sendable: credit has arrived.
OnSendable(r) ==
    /\ sproc = "run" /\ conn[r] \in {"open", "left", "broken"} /\ grants[r] > 0
    /\ \E n \in {Burst(credit[r] + grants[r])} :
         /\ n = 0 \/ freq # 0
         /\ sent' = sent + n
         /\ rows' = IF n = 0 THEN rows ELSE rows \union Due(n)
         /\ wire' = [wire EXCEPT ![r] = Handed(r, n)]
         /\ credit' = [credit EXCEPT ![r] = @ + grants[r] - n]
         /\ grants' = [grants EXCEPT ![r] = 0]
    /\ UNCHANGED <<sproc, freq, listening, confirmed, conn, acks>>

\* The frequency is 0: sent % report_frequency raises SIGFPE at the first message,
\* before the socket gets it, and the kernel closes all connections.
DivideByZero(r) ==
    /\ sproc = "run" /\ conn[r] \in {"open", "left", "broken"} /\ grants[r] > 0
    /\ freq = 0 /\ Burst(credit[r] + grants[r]) > 0
    /\ sproc' = "crashed" /\ listening' = FALSE /\ sent' = sent + 1
    /\ conn' = [q \in Receivers |-> IF Joined(q) THEN "gone" ELSE conn[q]]
    /\ UNCHANGED <<freq, confirmed, rows, credit, grants, wire, acks>>

\* One acceptance too early.
BugAllConfirmed == confirmed' = Requested - 1

AllConfirmed == confirmed' = Requested

\* on_accepted: the connection over which the last acceptance came is closed,
\* and the acceptor.
OnAccepted(r) ==
    /\ sproc = "run" /\ Joined(r) /\ acks[r] > 0
    /\ acks' = [acks EXCEPT ![r] = @ - 1]
    /\ confirmed' = confirmed + 1
    /\ IF AllConfirmed
       THEN /\ listening' = FALSE
            /\ conn' = [conn EXCEPT ![r] =
                           CASE @ = "open" -> "closing" [] @ = "broken" -> "gone"
                             [] OTHER -> @]
       ELSE UNCHANGED <<listening, conn>>
    /\ UNCHANGED <<sproc, freq, sent, rows, credit, grants, wire>>

\* The resend that is missing.
BugResume == sent

\* Where sending goes on after a disconnection.
Resume == confirmed

\* on_disconnected, unless direct_send has closed the connection itself: the
\* acceptances that did arrive come before it.
OnDisconnected(r) ==
    /\ sproc = "run" /\ conn[r] = "broken" /\ acks[r] = 0
    /\ conn' = [conn EXCEPT ![r] = "gone"]
    /\ sent' = Resume
    /\ UNCHANGED <<sproc, freq, listening, confirmed, rows, credit, grants, wire, acks>>

\* A receiver has closed its connection: proton closes ours and does not call
\* that a disconnection, so sent stays what it is.
OnClosed(r) ==
    /\ sproc = "run" /\ conn[r] = "left" /\ acks[r] = 0
    /\ conn' = [conn EXCEPT ![r] = "gone"]
    /\ wire' = [wire EXCEPT ![r] = <<>>]
    /\ UNCHANGED <<sendVars, credit, grants, acks>>

\* No acceptor and no connection is left: run() returns, and main returns 0.
Exit ==
    /\ sproc = "run" /\ ~listening /\ \A r \in Receivers : ~Joined(r)
    /\ sproc' = "ok"
    /\ UNCHANGED <<freq, listening, sent, confirmed, rows, pipeVars>>
=============================================================================
