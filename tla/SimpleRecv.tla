------------------------------ MODULE SimpleRecv ------------------------------
(***************************************************************************)
(* apps/CPP/simple_recv.cpp: a process that counts messages up to the      *)
(* number it expects, then closes, leaves a file that says it is done, and *)
(* exits with 0, or with 1 if its connection ends before.                  *)
(***************************************************************************)
EXTENDS DispatchRouter

CONSTANTS Expected,  \* -m; 0 and -1 stand for "forever"
          RecvFreqs  \* values of -f

ASSUME SimpleRecvAssumption == Expected \in Nat \union {-1} /\ RecvFreqs \subseteq Nat

VARIABLES rproc,     \* "start", "run", or how it ended
          rfreq,     \* report_frequency
          rfile,     \* can its report be opened?
          rrows,     \* the rows of the report
          received,  \* received
          rseen,     \* the ids received, in order (no variable of the code)
          doneFile   \* does /tmp/simple_recv_PID_is_done exist?

ropts    == <<rfreq, rfile>>
recvVars == <<rproc, ropts, rrows, received, rseen, doneFile>>

RecvTypeOK ==
    /\ rproc \in {"start", "run", "ok", "failed", "crashed"}
    /\ rfreq \in RecvFreqs /\ rfile \in BOOLEAN /\ rrows \subseteq Nat
    /\ received \in Nat /\ rseen \in Seq(Nat) /\ doneFile \in BOOLEAN

RecvInit ==
    /\ rproc = "start" /\ rfreq \in RecvFreqs /\ rfile \in BOOLEAN /\ rrows = {}
    /\ received = 0 /\ rseen = <<>> /\ doneFile = FALSE

\* The report is opened, or else exit(1); on_start opens the receiver.
RStart ==
    /\ rproc = "start"
    /\ IF rfile THEN rproc' = "run" /\ rConn' = "open"
       ELSE rproc' = "failed" /\ UNCHANGED rConn
    /\ UNCHANGED <<ropts, rrows, received, rseen, doneFile, queue, settles, sConn, dismissed>>

\* Definitions named Bug... are faulty variants of the definition that follows.

\* One message less.
BugCounts == Expected \in {0, -1} \/ received < Expected - 1

\* The test that lets a message count.
Counts == Expected \in {0, -1} \/ received < Expected

\* on_message: a message that comes after the last expected one is not counted,
\* but settled like the others.
RMessage(try) ==
    /\ rproc = "run" /\ rConn \in {"open", "closing"} /\ queue # <<>>
    /\ SettleHead(try)
    /\ IF Counts
       THEN /\ rfreq # 0
            /\ received' = received + 1
            /\ rrows' = IF received' % rfreq = 0 THEN rrows \union {received'} ELSE rrows
            /\ rseen' = Append(rseen, Head(queue).id)
            /\ IF received + 1 = Expected
               THEN rConn' = "closing" /\ doneFile' = TRUE
               ELSE UNCHANGED <<rConn, doneFile>>
       ELSE UNCHANGED <<received, rrows, rseen, rConn, doneFile>>
    /\ UNCHANGED <<rproc, ropts, sConn, dismissed>>

\* The frequency is 0: received % report_frequency raises SIGFPE before the first
\* message is settled.
RDivideByZero ==
    /\ rproc = "run" /\ rConn \in {"open", "closing"} /\ queue # <<>>
    /\ Counts /\ rfreq = 0
    /\ rproc' = "crashed" /\ rConn' = "gone" /\ received' = received + 1
    /\ UNCHANGED <<ropts, rrows, rseen, doneFile, queue, settles, sConn, dismissed>>

\* <= for <.
BugExitCode == IF received <= Expected THEN "failed" ELSE "ok"

\* container.run() returns; main tells success from failure by the counts.
ExitCode == IF received < Expected THEN "failed" ELSE "ok"

RClosed ==
    /\ rproc = "run" /\ rConn = "closing"
    /\ rConn' = "gone" /\ rproc' = ExitCode
    /\ UNCHANGED <<ropts, rrows, received, rseen, doneFile, queue, settles, sConn, dismissed>>

\* on_transport_error only logs, as does a close by the router; run() returns just
\* the same.
RTransportError ==
    /\ rproc = "run" /\ rConn \in {"open", "closing"}
    /\ rConn' = "gone" /\ rproc' = ExitCode
    /\ UNCHANGED <<ropts, rrows, received, rseen, doneFile, queue, settles, sConn, dismissed>>

\* The callbacks; all others of the class only log.
RecvStep(try) == RStart \/ RMessage(try) \/ RDivideByZero \/ RClosed
=============================================================================
