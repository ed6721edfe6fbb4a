------------------------------ MODULE RouterPair ------------------------------
(***************************************************************************)
(* A sender-receiver pair of the router tests: simple_send and simple_recv *)
(* on one address of the router, with connections that may break.          *)
(***************************************************************************)
EXTENDS SimpleSend, SimpleRecv

CONSTANTS SendBreaks,  \* bound: how often the sender's connection breaks
          RecvBreaks   \* bound: how often the receiver's does

ASSUME BreaksAssumption == SendBreaks \in Nat /\ RecvBreaks \in Nat

VARIABLES sbreaks, rbreaks  \* how often they broke

vars == <<routerVars, sendVars, recvVars, sbreaks, rbreaks>>

TypeOK ==
    /\ SendTypeOK /\ RecvTypeOK
    /\ queue \in Seq([id : Nat, try : 0..(MaxTries - 1)])
    /\ settles \in Nat
    /\ sConn \in ConnStates /\ rConn \in ConnStates /\ dismissed \in BOOLEAN
    /\ sbreaks \in 0..SendBreaks /\ rbreaks \in 0..RecvBreaks

Init == RouterInit /\ SendInit /\ RecvInit /\ sbreaks = 0 /\ rbreaks = 0

Sending   == SendStep /\ UNCHANGED <<recvVars, sbreaks, rbreaks>>
Receiving == RecvStep(try) /\ UNCHANGED <<sendVars, sbreaks, rbreaks>>
Releasing == Release(try) /\ UNCHANGED <<sendVars, recvVars, sbreaks, rbreaks>>
Dismissing == Dismiss(try) /\ UNCHANGED <<sendVars, recvVars, sbreaks, rbreaks>>

SendBreak ==
    /\ sbreaks < SendBreaks /\ sbreaks' = sbreaks + 1
    /\ STransportError
    /\ UNCHANGED <<recvVars, rbreaks>>

RecvBreak ==
    /\ rbreaks < RecvBreaks /\ rbreaks' = rbreaks + 1
    /\ RTransportError
    /\ UNCHANGED <<sendVars, sbreaks>>

\* Both processes are over, and the router has nothing left to give back.
Finished ==
    /\ {sproc, rproc} \subseteq {"ok", "failed", "crashed"} /\ queue = <<>>
    /\ UNCHANGED vars

Next == Sending \/ Receiving \/ Releasing \/ Dismissing \/ SendBreak \/ RecvBreak \/ Finished

Spec == Init /\ [][Next]_vars

\* Each process runs when it can, timers expire, and the router forwards,
\* settles and answers; it need not dismiss anyone, and breaks need not happen.
Fairness ==
    /\ WF_vars(SStart /\ UNCHANGED <<recvVars, sbreaks, rbreaks>>)
    /\ WF_vars(STick /\ UNCHANGED <<recvVars, sbreaks, rbreaks>>)
    /\ WF_vars(SSettled /\ UNCHANGED <<recvVars, sbreaks, rbreaks>>)
    /\ WF_vars(SConnectionClose /\ UNCHANGED <<recvVars, sbreaks, rbreaks>>)
    /\ WF_vars(Receiving) /\ WF_vars(Releasing)

FairSpec == Spec /\ Fairness
-----------------------------------------------------------------------------
(* Safety *)

\* Every message of the current attempt is at the router, on its way back as a
\* settlement, or confirmed: nothing is confirmed that was not sent, and what an
\* earlier attempt left behind, the first c messages, never counts for this one.
AttemptAccounted ==
    sConn = "open" /\ ~dismissed =>
        \E c \in 0..Len(queue) :
            /\ \A i \in 1..Len(queue) : queue[i].try = try <=> i > c
            /\ sent = confirmed + settles + (Len(queue) - c)

\* Unless the router closes its connection unasked, simple_send exits with 0 only when
\* it has sent all it was asked for: neither a settlement, nor its patience, nor the
\* answer to a close it asked for makes it exit before.  on_connection_close exits
\* with 0 whatever was sent, so a test cannot tell a dismissed sender from a good one.
OkMeansAllSent == sproc = "ok" /\ ~dismissed => sent = Requested

\* An attempt that starts over repeats messages but leaves none out: the
\* receiver has seen every earlier message of the sequence before a later one.
RetryNeverSkips ==
    \A i \in 1..Len(rseen) :
        rseen[i] = 1 \/ \E j \in 1..(i - 1) : rseen[j] = rseen[i] - 1

\* While a receiver that expects all messages neither crashes nor loses its
\* connection, the sender confirms no more than the receiver counted, over any
\* number of attempts.
ConfirmedMeansReceived ==
    rbreaks = 0 /\ rproc # "crashed" /\ Expected = Requested => confirmed <= received

(* The inductive invariant *)

ConnInv ==
    /\ sproc = "run" <=> sConn \in {"open", "closing"}
    /\ sproc = "start" =>
          /\ sConn = "none" /\ ~dismissed
          /\ sent = 0 /\ confirmed = 0 /\ settles = 0 /\ waited = -1
    /\ rproc = "run" <=> rConn \in {"open", "closing"}
    /\ rConn = "none" <=> rproc = "start" \/ (rproc = "failed" /\ ~rfile)
    /\ rConn = "open" => Counts
    /\ rConn = "closing" => received = Expected /\ Expected > 0
    /\ rproc = "run" => rfile
    /\ rproc = "start" => received = 0

\* The messages after the first c are those of this attempt, and nothing is
\* confirmed twice.
Cut(c) ==
    /\ \A i \in 1..Len(queue) :
          IF i <= c THEN queue[i].try < try ELSE queue[i].try = try
    /\ sproc = "start" => c = Len(queue)
    /\ sproc = "run" => confirmed + settles + (Len(queue) - c) <= sent
    /\ sConn = "open" /\ ~dismissed => confirmed + settles + (Len(queue) - c) = sent

QueueInv == \E c \in 0..Len(queue) : Cut(c)

CountInv ==
    /\ ~Forever => sent <= Requested
    /\ waited >= 0 \/ sConn = "closing" \/ (sproc = "ok" /\ ~dismissed)
          => sent >= Requested
    /\ confirmed <= sent
    /\ sproc = "run" => waited < Patience

\* Each report has the rows of what was counted so far.
RowsInv ==
    /\ sproc # "crashed" => \A n \in 1..sent :
           sfreq # 0 /\ (n % sfreq = 0 => [try |-> try, sent |-> n] \in srows)
    /\ rproc # "crashed" => \A n \in 1..received :
           rfreq # 0 /\ (n % rfreq = 0 => n \in rrows)

Seen(s, id) == \E j \in 1..Len(s) : s[j] = id
Queued(q, id, n) == \E j \in 1..n : q[j].id = id

\* What comes before a message was seen, or comes before it in the queue.
OrderInv ==
    rConn \in {"none", "open"} =>
        /\ \A i \in 1..Len(queue) :
              LET before == queue[i].id - 1
              IN  before = 0 \/ Queued(queue, before, i - 1) \/ Seen(rseen, before)
        /\ sConn = "open" /\ ~dismissed =>
              sent = 0 \/ Queued(queue, sent, Len(queue)) \/ Seen(rseen, sent)

ConfirmInv ==
    rbreaks = 0 /\ rproc # "crashed" =>
        IF rConn \in {"none", "open"} THEN confirmed + settles <= received
        ELSE received = Expected

IInv ==
    /\ TypeOK /\ ConnInv /\ QueueInv /\ CountInv /\ RowsInv
    /\ RetryNeverSkips /\ OrderInv /\ ConfirmInv

(* Liveness *)

\* Both programs can write their reports and do not divide by 0.
ProperStart == sfile /\ rfile /\ sfreq # 0 /\ rfreq # 0

\* Both programs end with success, unless a connection breaks or the router closes
\* the sender's.
BothSucceed ==
    ProperStart =>
        <>(sproc = "ok" /\ rproc = "ok") \/ <>(sbreaks > 0 \/ rbreaks > 0 \/ dismissed)

\* The receiver gets all its messages, unless every one of the MaxTries attempts
\* of the sender breaks, or its own connection does, or the router closes the
\* sender's, which ends the sender with an attempt to spare.
ReceiverSucceeds ==
    ProperStart =>
        <>(rproc = "ok") \/ <>(sbreaks >= MaxTries \/ rbreaks > 0 \/ dismissed)
=============================================================================
