----------------------------- MODULE ReactorSend -----------------------------
(***************************************************************************)
(* apps/C/reactor-send.c: a process that opens one connection, sends       *)
(* msg_count messages as fast as credit allows, writes a report row each   *)
(* report_frequency messages, and then closes everything.                  *)
(*                                                                         *)
(* The reactor runs one handler at a time, so each handler is one action.  *)
(* parse_options never sets get_replies, so the reply path of the handlers *)
(* (replyto_dispatch) is out of reach and is not modelled.                 *)
(***************************************************************************)
EXTENDS ReactorPipe

CONSTANTS SendCount,   \* -c of reactor-send
          SendFreq,    \* SendFreq[s]: -r of sender s; 0 when the option is missing
          ReportFaults \* may fopen of a report file fail?

ASSUME SendAssumption == SendCount \in Nat /\ SendFreq \in [Senders -> Nat]
ASSUME ReportFaultsAssumption == ReportFaults \in BOOLEAN

VARIABLES sproc,  \* sproc[s]: the process
          sent,   \* sent[s]: sender_context_t.sent
          done,   \* done[s]: sender_context_t.done
          srows,  \* srows[s]: the message counts of the report rows written
          sfp     \* sfp[s]: report_fp

sendVars == <<sproc, sent, done, srows, sfp>>

\* "exited" returned from main with 0; "failed" is exit(1) or a signal.
ProcStates == {"idle", "running", "exited", "failed"}
Over == {"exited", "failed"}

\* fclose of a FILE that is closed already is undefined: "corrupt".
FileStates == {"none", "open", "closed", "corrupt"}

SendTypeOK ==
    /\ sproc \in [Senders -> ProcStates]
    /\ sent \in [Senders -> Nat]
    /\ done \in [Senders -> BOOLEAN]
    /\ srows \in [Senders -> SUBSET Nat]
    /\ sfp \in [Senders -> FileStates]

SendInit ==
    /\ sproc = [s \in Senders |-> "idle"]
    /\ sent = [s \in Senders |-> 0]
    /\ done = [s \in Senders |-> FALSE]
    /\ srows = [s \in Senders |-> {}]
    /\ sfp = [s \in Senders |-> "none"]

FClose(fp) == IF fp = "open" THEN "closed" ELSE "corrupt"

\* The message counts in (from, to] at which a report is due.
DueRows(from, to, freq) == {n \in (from + 1)..to : n % freq = 0}

\* One message more than the credit.
BugBurst(s, lim) ==
    IF lim - sent[s] + 1 <= SendCount - sent[s] THEN lim - sent[s] + 1
    ELSE SendCount - sent[s]

\* How many messages one run of the while loop sends.
Burst(s, lim) ==
    LET credit == lim - sent[s]
        left   == SendCount - sent[s]
    IN  IF credit <= left THEN credit ELSE left

\* main up to pn_reactor_run: the context is built and the report file opened.
SLaunch(s) ==
    /\ sproc[s] = "idle"
    /\ \/ /\ sproc' = [sproc EXCEPT ![s] = "running"]
          /\ sfp' = [sfp EXCEPT ![s] = "open"]
       \/ /\ ReportFaults
          /\ sproc' = [sproc EXCEPT ![s] = "failed"]
          /\ UNCHANGED sfp
    /\ UNCHANGED <<sent, done, srows, pipeVars>>

\* PN_CONNECTION_INIT; the connection attempt is refused when nobody listens.
SConnectionInit(s) ==
    /\ sproc[s] = "running" /\ sLink[s] = "none"
    /\ sLink' = [sLink EXCEPT ![s] =
                    IF acceptor = "listening" THEN "open" ELSE "ended"]
    /\ UNCHANGED <<sendVars, wire, limit, granted, named, rLink, acceptor>>

\* report_frequency 0: the first message is handed to proton and counted, then
\* sent % 0 raises SIGFPE before proton writes anything to the socket.
SDivideByZero(s, lim) ==
    /\ SendFreq[s] = 0 /\ Burst(s, lim) > 0
    /\ sproc' = [sproc EXCEPT ![s] = "failed"]
    /\ sLink' = [sLink EXCEPT ![s] = "ended"]
    /\ UNCHANGED <<sent, done, srows, sfp, wire, limit, granted, named, rLink, acceptor>>

\* The close without the test of done.
BugClosing(s, n) == n = SendCount

\* Is it time to close, once n messages are sent?
Closing(s, n) == ~done[s] /\ n = SendCount

\* The while loop, and the close once all is sent.
SSendAll(s, lim) ==
    /\ SendFreq[s] > 0 \/ Burst(s, lim) = 0
    /\ sent' = [sent EXCEPT ![s] = @ + Burst(s, lim)]
    /\ wire' = [wire EXCEPT ![s] = @ + Burst(s, lim)]
    /\ limit' = [limit EXCEPT ![s] = lim]
    /\ srows' = [srows EXCEPT ![s] =
                    @ \union DueRows(sent[s], sent[s] + Burst(s, lim), SendFreq[s])]
    /\ IF Closing(s, sent'[s])
       THEN /\ done' = [done EXCEPT ![s] = TRUE]
            /\ sLink' = [sLink EXCEPT ![s] = "closed"]
            /\ sfp' = [sfp EXCEPT ![s] = FClose(@)]
       ELSE UNCHANGED <<done, sLink, sfp>>
    /\ UNCHANGED <<sproc, granted, named, rLink, acceptor>>

\* PN_LINK_FLOW, raised for a flow frame and again when transfers leave the
\* process: it may come with no new credit, and after the last message.
SLinkFlow(s) ==
    /\ sproc[s] = "running" /\ sLink[s] \in {"open", "closed"}
    /\ rLink[s] \notin {"none", "accepted"}
    /\ \E lim \in limit[s]..named[s] :
          SDivideByZero(s, lim) \/ SSendAll(s, lim)

\* The handshaker answers the receiver's close; a broken or finished transport
\* ends the connection.  Nothing in sender_dispatch reacts: done is left alone.
\* A flow frame ahead of the close frame is dispatched first.
SRemoteClose(s) ==
    /\ sproc[s] = "running" /\ sLink[s] \in {"open", "closed"}
    /\ ReceiverGone(s)
    /\ rLink[s] = "closed" => limit[s] = named[s]
    /\ sLink' = [sLink EXCEPT ![s] = "ended"]
    /\ UNCHANGED <<sendVars, wire, limit, granted, named, rLink, acceptor>>

\* No connection is left: pn_reactor_run returns, and main returns 0.  libc
\* closes a report that the handler left open.
SExit(s) ==
    /\ sproc[s] = "running" /\ sLink[s] = "ended"
    /\ sproc' = [sproc EXCEPT ![s] = "exited"]
    /\ sfp' = [sfp EXCEPT ![s] = IF @ = "open" THEN "closed" ELSE @]
    /\ UNCHANGED <<sent, done, srows, pipeVars>>

SendStep(s) == SConnectionInit(s) \/ SLinkFlow(s) \/ SRemoteClose(s) \/ SExit(s)
=============================================================================
