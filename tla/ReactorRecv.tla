----------------------------- MODULE ReactorRecv -----------------------------
(***************************************************************************)
(* apps/C/reactor-recv.c: a process that listens, takes one link on each   *)
(* incoming connection, counts the messages of all of them, writes a       *)
(* report row each report_frequency messages (with the mean latency since  *)
(* the row before, when timestamping), and shuts everything down once      *)
(* msg_count messages have arrived.                                        *)
(***************************************************************************)
EXTENDS ReactorPipe

CONSTANTS RecvCount,     \* -c of reactor-recv
          RecvFreq,      \* -r of reactor-recv; 0 when the option is missing
          Stamped,       \* Stamped[s]: was -t given to sender s?
          Timestamping,  \* was -t given to reactor-recv?
          RecvFaults     \* may fopen of the report or the acceptor fail?

ASSUME RecvAssumption == RecvCount \in Nat /\ RecvFreq \in Nat
ASSUME StampAssumption == Stamped \in [Senders -> BOOLEAN] /\ Timestamping \in BOOLEAN
ASSUME RecvFaultsAssumption == RecvFaults \in BOOLEAN

VARIABLES rproc,         \* the process
          received,      \* global_context_t.received
          taken,         \* taken[s]: how many of them came from s
          active,        \* active_connections
          shuttingDown,  \* shutting_down
          latencies,     \* how many latencies total_latency is the sum of
          rrows,         \* the report rows, [count, samples]
          rfp            \* is report_fp open?

recvVars == <<rproc, received, taken, active, shuttingDown, latencies, rrows, rfp>>

RecvTypeOK ==
    /\ rproc \in {"idle", "running", "exited", "failed"}
    /\ received \in Nat
    /\ taken \in [Senders -> Nat]
    /\ active \in SUBSET Senders
    /\ shuttingDown \in BOOLEAN
    /\ latencies \in Nat
    /\ rrows \in SUBSET [count : Nat, samples : Nat]
    /\ rfp \in BOOLEAN

RecvInit ==
    /\ rproc = "idle"
    /\ received = 0
    /\ taken = [s \in Senders |-> 0]
    /\ active = {}
    /\ shuttingDown = FALSE
    /\ latencies = 0
    /\ rrows = {}
    /\ rfp = FALSE

\* exit(1) or a signal: the kernel closes every socket of the process.
RDie ==
    /\ rproc' = "failed"
    /\ acceptor' = "closed"
    /\ rLink' = [s \in Senders |-> IF rLink[s] = "none" THEN "none" ELSE "unbound"]
    /\ UNCHANGED <<received, taken, active, shuttingDown, latencies, rrows, rfp,
                   wire, limit, granted, named, sLink>>

\* main up to pn_reactor_run: global_context_init opens the report file.
RLaunch ==
    /\ rproc = "idle"
    /\ \/ /\ rproc' = "running" /\ rfp' = TRUE
          /\ UNCHANGED <<received, taken, active, shuttingDown, latencies, rrows, pipeVars>>
       \/ RecvFaults /\ RDie

\* PN_REACTOR_INIT: start_listener, which exits when the port is taken.
RReactorInit ==
    /\ rproc = "running" /\ acceptor = "none"
    /\ \/ /\ acceptor' = "listening"
          /\ UNCHANGED <<recvVars, wire, limit, granted, named, sLink, rLink>>
       \/ RecvFaults /\ RDie

\* PN_CONNECTION_INIT on the listening socket: the connection gets a handler
\* of its own (connection_context_init).
RConnectionInit(s) ==
    /\ rproc = "running" /\ acceptor = "listening"
    /\ sLink[s] = "open" /\ rLink[s] = "none"
    /\ rLink' = [rLink EXCEPT ![s] = "accepted"]
    /\ UNCHANGED <<recvVars, wire, limit, granted, named, sLink, acceptor>>

\* The test of shutting_down is missing.
BugTooLate == FALSE

TooLate == shuttingDown

\* PN_LINK_REMOTE_OPEN: a link that opens during the shutdown is closed at
\* once, any other gets a flow controller, which grants the first window.
RLinkRemoteOpen(s) ==
    /\ rproc = "running" /\ rLink[s] = "accepted"
    /\ active' = active \union {s}
    /\ IF TooLate
       THEN rLink' = [rLink EXCEPT ![s] = "closing"] /\ UNCHANGED <<granted, named>>
       ELSE /\ rLink' = [rLink EXCEPT ![s] = "active"]
            /\ granted' = [granted EXCEPT ![s] = Window]
            /\ named' = [named EXCEPT ![s] = Window]
    /\ UNCHANGED <<rproc, received, taken, shuttingDown, latencies, rrows, rfp,
                   wire, limit, sLink, acceptor>>

\* The listening socket is left open.
BugShutdown ==
    IF shuttingDown
    THEN UNCHANGED <<shuttingDown, acceptor, rLink>>
    ELSE /\ shuttingDown' = TRUE
         /\ UNCHANGED acceptor
         /\ rLink' = [s \in Senders |->
                IF s \in active /\ rLink[s] = "active" THEN "closing" ELSE rLink[s]]

\* The connections are left open.
BugShutdownOfListener ==
    IF shuttingDown
    THEN UNCHANGED <<shuttingDown, acceptor, rLink>>
    ELSE shuttingDown' = TRUE /\ acceptor' = "closed" /\ UNCHANGED rLink

\* global_shutdown: every active connection that this end has not closed yet.
Shutdown ==
    IF shuttingDown
    THEN UNCHANGED <<shuttingDown, acceptor, rLink>>
    ELSE /\ shuttingDown' = TRUE
         /\ acceptor' = "closed"
         /\ rLink' = [s \in Senders |->
                IF s \in active /\ rLink[s] = "active" THEN "closing" ELSE rLink[s]]

\* The count is tested before it is incremented.
BugDue(n) == (n - 1) % RecvFreq = 0

Due(n) == n % RecvFreq = 0

\* total_latency is not reset.
BugSumAfter(n, sum) == sum

\* What total_latency holds after message n, sum before the reset of a report.
SumAfter(n, sum) == IF Due(n) THEN 0 ELSE sum

\* The report part of PN_DELIVERY; without -t no latency is summed.
Report ==
    LET n   == received + 1
        sum == IF Timestamping THEN latencies + 1 ELSE 0
    IN  /\ latencies' = SumAfter(n, sum)
        /\ rrows' = IF Due(n) THEN rrows \union {[count |-> n, samples |-> sum]}
                    ELSE rrows

\* > where the code has >=.
BugEnough(n) == n > RecvCount

Enough(n) == n >= RecvCount

\* The flow controller's turn at a delivery, after connection_dispatch: whether or
\* not that has closed the connection.
TopUp(s) == taken[s] + 1 + Window

\* PN_DELIVERY.
RCountMessage(s) ==
    /\ wire' = [wire EXCEPT ![s] = @ - 1]
    /\ received' = received + 1
    /\ taken' = [taken EXCEPT ![s] = @ + 1]
    /\ Report
    /\ IF Enough(received + 1) THEN Shutdown
       ELSE UNCHANGED <<shuttingDown, acceptor, rLink>>
    /\ granted' = [granted EXCEPT ![s] = TopUp(s)]
    /\ named' = [named EXCEPT ![s] = IF rLink'[s] = "active" THEN TopUp(s) ELSE @]
    /\ UNCHANGED <<rproc, active, rfp, limit, sLink>>

\* exit(1) on a message with no timestamp; SIGFPE on received % 0.
BadDelivery(s) == (Timestamping /\ ~Stamped[s]) \/ RecvFreq = 0

RDelivery(s) ==
    /\ rproc = "running" /\ rLink[s] \in {"active", "closing", "closed"} /\ wire[s] > 0
    /\ IF BadDelivery(s) THEN RDie ELSE RCountMessage(s)

\* Proton writes the close of a connection, and ahead of it the credit that the
\* flow controller has given meanwhile.
RWriteClose(s) ==
    /\ rproc = "running" /\ rLink[s] = "closing"
    /\ rLink' = [rLink EXCEPT ![s] = "closed"]
    /\ named' = [named EXCEPT ![s] = granted[s]]
    /\ UNCHANGED <<recvVars, wire, limit, granted, sLink, acceptor>>

\* The handshaker answers the sender's close, or the transport is broken.
RRemoteClose(s) ==
    /\ rproc = "running" /\ rLink[s] \in {"active", "closing", "closed"}
    /\ SenderGone(s)
    /\ rLink' = [rLink EXCEPT ![s] = "ended"]
    /\ UNCHANGED <<recvVars, wire, limit, granted, named, sLink, acceptor>>

\* The connection is released and stays in the list.
BugForget(s) == active

Forget(s) == active \ {s}

\* PN_CONNECTION_UNBOUND: forgotten, then released.
RUnbound(s) ==
    /\ rproc = "running" /\ rLink[s] = "ended"
    /\ active' = Forget(s)
    /\ rLink' = [rLink EXCEPT ![s] = "unbound"]
    /\ UNCHANGED <<rproc, received, taken, shuttingDown, latencies, rrows, rfp,
                   wire, limit, granted, named, sLink, acceptor>>

\* The reactor stops with the listening socket, connections or not.
BugNothingOpen == acceptor = "closed"

NothingOpen ==
    acceptor = "closed" /\ \A s \in Senders : rLink[s] \in {"none", "unbound"}

\* PN_REACTOR_FINAL, once no socket is left; main returns 0.
RReactorFinal ==
    /\ rproc = "running" /\ NothingOpen
    /\ rproc' = "exited" /\ rfp' = FALSE
    /\ UNCHANGED <<received, taken, active, shuttingDown, latencies, rrows, pipeVars>>

RecvStep(s) == RConnectionInit(s) \/ RLinkRemoteOpen(s) \/ RDelivery(s)
                 \/ RWriteClose(s) \/ RRemoteClose(s) \/ RUnbound(s)
=============================================================================
