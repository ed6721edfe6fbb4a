------------------------------- MODULE P2PSoak -------------------------------
(***************************************************************************)
(* tests/p2p_soak/C/throughput/test.sh and .../latency/test.sh: the shell  *)
(* starts reactor-recv in the background, sleeps, starts reactor-send,     *)
(* waits for every child and keeps the receiver's report.  The tests start *)
(* one sender; both programs are written for any number, and so is this.   *)
(***************************************************************************)
EXTENDS ReactorSend, ReactorRecv

CONSTANT SleepCovers  \* is `sleep 2' long enough for the receiver to listen?

ASSUME SleepAssumption == SleepCovers \in BOOLEAN

VARIABLES pc,    \* where the script is
          saved  \* the rows of receiver/tp_report.txt (l_report.txt)

vars == <<pipeVars, sendVars, recvVars, pc, saved>>

TypeOK ==
    /\ PipeTypeOK /\ SendTypeOK /\ RecvTypeOK
    /\ pc \in {"recv", "send", "wait", "done"}
    /\ saved \in SUBSET [count : Nat, samples : Nat]

Init ==
    /\ PipeInit /\ SendInit /\ RecvInit
    /\ pc = "recv" /\ saved = {}

LaunchReceiver ==
    /\ pc = "recv" /\ pc' = "send"
    /\ RLaunch
    /\ UNCHANGED <<sendVars, saved>>

\* The senders start one after the other, the sleep before the first.
LaunchSender(s) ==
    /\ pc = "send"
    /\ SleepCovers => acceptor # "none"
    /\ SLaunch(s)
    /\ pc' = IF \A t \in Senders \ {s} : sproc[t] # "idle" THEN "wait" ELSE "send"
    /\ UNCHANGED <<recvVars, saved>>

\* `wait' returns when every child is over; then the report is moved.
WaitAndKeep ==
    /\ pc = "wait" /\ pc' = "done"
    /\ rproc \in Over /\ \A s \in Senders : sproc[s] \in Over
    /\ saved' = rrows
    /\ UNCHANGED <<pipeVars, sendVars, recvVars>>

Sending(s) == SendStep(s) /\ UNCHANGED <<recvVars, pc, saved>>

Receiving ==
    /\ RReactorInit \/ RReactorFinal \/ \E s \in Senders : RecvStep(s)
    /\ UNCHANGED <<sendVars, pc, saved>>

\* The script has ended: nothing is left to happen.
Finished == pc = "done" /\ UNCHANGED vars

Next ==
    \/ LaunchReceiver
    \/ \E s \in Senders : LaunchSender(s) \/ Sending(s)
    \/ Receiving
    \/ WaitAndKeep
    \/ Finished

Spec == Init /\ [][Next]_vars

\* The operating system runs every process that can run, and proton delivers
\* every event that is due, on each connection.
Fairness ==
    /\ WF_vars(LaunchReceiver) /\ WF_vars(WaitAndKeep)
    /\ WF_vars(RReactorInit /\ UNCHANGED <<sendVars, pc, saved>>)
    /\ WF_vars(RReactorFinal /\ UNCHANGED <<sendVars, pc, saved>>)
    /\ \A s \in Senders :
          /\ WF_vars(LaunchSender(s)) /\ WF_vars(Sending(s))
          /\ WF_vars(RecvStep(s) /\ UNCHANGED <<sendVars, pc, saved>>)

FairSpec == Spec /\ Fairness
-----------------------------------------------------------------------------
(* Safety *)

\* The flow controller keeps a sender at most one window of credit ahead of
\* the receiver, and no message is lost or counted twice on the way.
CreditConserved ==
    \A s \in Senders :
        /\ sent[s] = taken[s] + wire[s]
        /\ sent[s] <= limit[s] /\ limit[s] <= named[s] /\ named[s] <= granted[s]
        /\ granted[s] <= taken[s] + Window
        /\ rLink[s] = "active" => named[s] = taken[s] + Window

\* A sender that is done has sent msg_count messages, and its report holds one
\* row per report_frequency of them; the report is never closed twice, however
\* many PN_LINK_FLOW events come after the close.
SenderReportComplete ==
    \A s \in Senders :
        /\ done[s] => sent[s] = SendCount /\ srows[s] = DueRows(0, SendCount, SendFreq[s])
        /\ sfp[s] # "corrupt"

\* Every row of the receiver's report covers exactly report_frequency messages
\* since the row before, with as many latencies in its mean; no row is missing.
RowsCoverTheirPeriod ==
    /\ {row.count : row \in rrows} = DueRows(0, received, RecvFreq)
    /\ \A row \in rrows : row.samples = IF Timestamping THEN RecvFreq ELSE 0

\* Once the receiver shuts down, no connection it lists stays open at its end,
\* not even one whose link opens during the shutdown, and it stops listening.
ShutdownClosesAll ==
    rproc = "running" /\ shuttingDown =>
        /\ acceptor = "closed"
        /\ \A s \in active : rLink[s] # "active"

\* global_shutdown walks active_connections: a connection that was unbound and
\* released is never in the list, and an open one is never missing from it.
ListHoldsLiveConnections ==
    rproc = "running" =>
        active = {s \in Senders : rLink[s] \in {"active", "closing", "closed", "ended"}}

\* The receiver shuts down at msg_count messages, no earlier.  What it counts past
\* msg_count is less than two windows for each connection: one that had been granted
\* before, and, as the flow controller goes on, one that leaves with the close.
OverrunIsCreditOnly ==
    /\ shuttingDown <=> received > 0 /\ received >= RecvCount
    /\ RecvCount > 0 =>
          received < RecvCount + 2 * Window * Cardinality(Senders)

\* A sender that completed and a receiver that exited agree on every message.
CompletedMeansCounted ==
    \A s \in Senders :
        done[s] /\ rproc = "exited" => taken[s] = SendCount

\* If reactor-recv exited by itself, the report the script keeps has a row for
\* every full period up to msg_count.
KeptReportIsWhole ==
    pc = "done" /\ rproc = "exited" =>
        DueRows(0, RecvCount, RecvFreq) \subseteq {row.count : row \in saved}

\* reactor-recv ends by itself only with a measurement that is complete.
ExitMeansComplete == rproc = "exited" => received >= RecvCount

(* The inductive invariant *)

\* Credit, and the bounds it rests on: a connection that is not open yet has
\* been granted nothing.
CreditInv ==
    /\ CreditConserved
    /\ \A s \in Senders :
          /\ sent[s] <= SendCount
          /\ rLink[s] \in {"none", "accepted"} => granted[s] = 0
          /\ granted[s] \in {0, taken[s] + Window}

\* The report of a sender is open until the handler sets done, and the sender
\* closes the connection only then.
SenderInv ==
    \A s \in Senders :
        /\ srows[s] = DueRows(0, sent[s], SendFreq[s])
        /\ done[s] => sent[s] = SendCount /\ sLink[s] \in {"closed", "ended"}
        /\ sLink[s] = "closed" => done[s]
        /\ sproc[s] = "running" /\ ~done[s] => sfp[s] = "open"
        /\ sproc[s] = "idle" => ~done[s]
        /\ sfp[s] # "corrupt"

\* The list, the sockets and the shutdown flag agree.
ListInv ==
    /\ rproc = "idle" =>
          active = {} /\ ~shuttingDown /\ acceptor = "none"
            /\ \A s \in Senders : rLink[s] = "none"
    /\ ListHoldsLiveConnections
    /\ shuttingDown => acceptor = "closed" /\ \A s \in Senders : rLink[s] # "active"
    /\ shuttingDown => received >= RecvCount
    /\ rproc \in {"running", "exited"} /\ acceptor = "closed" => shuttingDown
    /\ rproc = "exited" => acceptor = "closed"
    /\ rproc = "exited" => \A s \in Senders : rLink[s] \in {"none", "unbound"}

\* A connection both ends have closed carries nothing more.
DrainInv ==
    rproc # "failed" =>
        \A s \in Senders : rLink[s] \in {"ended", "unbound"} =>
            wire[s] = 0 /\ sLink[s] \in {"closed", "ended"}

\* total_latency sums the messages since the last row.
RowInv ==
    /\ RowsCoverTheirPeriod
    /\ RecvFreq = 0 => received = 0
    /\ latencies = IF Timestamping /\ RecvFreq > 0 THEN received % RecvFreq ELSE 0

SavedInv == pc = "done" => saved = rrows /\ rproc \in Over

\* The count that s may reach when nothing is granted any more: a connection that
\* is about to be closed has a window to come, if it has a flow controller.
Reach(s) ==
    IF rLink[s] = "closing" /\ granted[s] > 0 THEN named[s] + Window ELSE named[s]

\* The credit nobody has used yet, as the deliveries it is for.
Outstanding == UNION {{s} \X ((taken[s] + 1)..Reach(s)) : s \in Senders}

\* What is counted past msg_count uses up the credit there was when the shutdown
\* began.
OverrunInv ==
    /\ shuttingDown <=> received > 0 /\ received >= RecvCount
    /\ shuttingDown /\ RecvCount > 0 =>
          received + Cardinality(Outstanding) < RecvCount + 2 * Window * Cardinality(Senders)

IInv ==
    /\ TypeOK /\ CreditInv /\ SenderInv /\ ListInv /\ DrainInv /\ RowInv /\ SavedInv
    /\ OverrunInv

(* Liveness *)

\* No sender is left running: it completes, or loses its connection.
SendersExit == \A s \in Senders : sproc[s] = "running" ~> sproc[s] \in Over

\* Once enough messages were counted the receiver ends, whatever connections
\* are still being opened or still sending.
ReceiverExits == shuttingDown ~> rproc \in Over

\* With matching counts and a receiver that listens in time, the test ends.
TestEnds == <>(pc = "done")

(* Refinement *)

MT == INSTANCE MeasuredTransfer WITH
          offered <- sent, counted <- taken,
          total <- received, complete <- shuttingDown

\* The two programs keep the promise of MeasuredTransfer.
MeasuresTransfer == MT!Spec

\* ... and make progress with it, when nothing fails.
MeasuresTransferFairly == MT!FairSpec
=============================================================================
