------------------------------ MODULE SimpleSend ------------------------------
(***************************************************************************)
(* apps/CPP/simple_send.cpp: a process that sends at most one message at   *)
(* each tick of a one-second timer, closes once everything it sent is      *)
(* being settled, gives up three seconds later, and starts all over, up to *)
(* three times, when its transport fails.  Callbacks run one at a time in  *)
(* container.run(), so each is one action.                                 *)
(***************************************************************************)
EXTENDS DispatchRouter

CONSTANTS Requested,  \* -m; -1 stands for "forever" (simple_send.cpp:106)
          MaxSent,    \* bound: no tick sends past this count
          Patience,   \* ticks in three seconds and a part
          MaxTries,   \* of the loop in main: 3
          SendFreqs   \* values of -f

ASSUME SimpleSendAssumption ==
    /\ Requested \in Nat \union {-1} /\ MaxSent \in Nat
    /\ Patience \in Nat \ {0} /\ MaxTries \in Nat \ {0}
    /\ SendFreqs \subseteq Nat

Forever == Requested = -1

VARIABLES sproc,      \* "start": waits for the start signal; "run"; how it ended
          sfreq,      \* report_frequency
          sfile,      \* can its report be opened?
          srows,      \* the rows of the report: [try, sent]
          try,        \* tries, in main
          sent,       \* sent
          confirmed,  \* confirmed
          waited      \* ticks since done_time was set; -1: done_time is 0

sopts    == <<sfreq, sfile>>
sendVars == <<sproc, sopts, srows, try, sent, confirmed, waited>>

SendTypeOK ==
    /\ sproc \in {"start", "run", "ok", "failed", "crashed"}
    /\ sfreq \in SendFreqs /\ sfile \in BOOLEAN
    /\ srows \subseteq [try : 0..(MaxTries - 1), sent : Nat]
    /\ try \in 0..(MaxTries - 1)
    /\ sent \in Nat /\ confirmed \in Nat
    /\ waited \in -1..Patience

\* Definitions named Bug... are faulty variants of the definition that follows.

\* Counts that outlive the object.
BugFresh == waited' = -1 /\ UNCHANGED <<sent, confirmed>>

\* The constructor: a new simple_send counts from 0.
Fresh == sent' = 0 /\ confirmed' = 0 /\ waited' = -1

SendInit ==
    /\ sproc = "start" /\ sfreq \in SendFreqs /\ sfile \in BOOLEAN /\ srows = {}
    /\ try = 0 /\ sent = 0 /\ confirmed = 0 /\ waited = -1

\* One attempt less.
BugRetries == try + 2 < MaxTries

Retries == try + 1 < MaxTries

\* catch in main: the next try, or 1.  What was on the way back is lost.
Caught ==
    /\ sConn' = "none" /\ settles' = 0 /\ dismissed' = FALSE /\ UNCHANGED <<sopts, srows>>
    /\ IF Retries
       THEN sproc' = "start" /\ try' = try + 1 /\ Fresh
       ELSE sproc' = "failed" /\ UNCHANGED <<try, sent, confirmed, waited>>

\* The report is opened, to be continued, or else exit(1); the start signal file
\* is there; on_start opens the sender.
SStart ==
    /\ sproc = "start"
    /\ IF sfile THEN sproc' = "run" /\ sConn' = "open"
       ELSE sproc' = "failed" /\ UNCHANGED sConn
    /\ UNCHANGED <<sopts, srows, try, sent, confirmed, waited, queue, settles, rConn, dismissed>>

\* The test of send().
Sends == Credit /\ (Forever \/ sent < Requested) /\ sent < MaxSent

\* The test before the count.
BugDue == IF sent > 0 /\ sent % sfreq = 0 THEN {[try |-> try, sent |-> sent]} ELSE {}

\* The row that the message makes due.
Due == IF (sent + 1) % sfreq = 0 THEN {[try |-> try, sent |-> sent + 1]} ELSE {}

InPatience == waited' < Patience

\* on_timer: send(), then the test of done_time, then the next schedule.  The
\* timer may lag, so patience may run out at an earlier tick than Patience.
STick ==
    /\ sproc = "run"
    /\ IF Sends
       THEN /\ sfreq # 0
            /\ sent' = sent + 1 /\ srows' = srows \union Due
            /\ queue' = Forward([id |-> sent + 1, try |-> try])
       ELSE UNCHANGED <<sent, srows, queue>>
    /\ waited' = IF waited = -1 THEN -1 ELSE waited + 1
    /\ \/ InPatience /\ UNCHANGED <<sproc, sConn>>
       \/ waited' > 0 /\ sproc' = "ok" /\ sConn' = "gone"
    /\ UNCHANGED <<sopts, try, confirmed, settles, rConn, dismissed>>

\* The frequency is 0: sent % report_frequency raises SIGFPE at the first message,
\* before the socket gets it, and main has no other try.
SDivideByZero ==
    /\ sproc = "run" /\ Sends /\ sfreq = 0
    /\ sproc' = "crashed" /\ sConn' = "gone" /\ sent' = sent + 1
    /\ UNCHANGED <<sopts, srows, try, confirmed, waited, queue, settles, rConn, dismissed>>

\* One message too early.
BugClosing == sent >= Requested - 1

\* Is it time to close, when a settlement arrives?
Closing == sent >= Requested

\* A settlement: on_delivery_settle and on_delivery, in either order.  Each
\* settlement after the close sets done_time again.
SSettled ==
    /\ sproc = "run" /\ settles > 0
    /\ settles' = settles - 1
    /\ confirmed' = confirmed + 1
    /\ waited' = IF Closing THEN 0 ELSE waited
    /\ IF confirmed + 1 = Requested
       THEN sproc' = "ok" /\ sConn' = "gone"
       ELSE UNCHANGED sproc /\ sConn' = IF Closing THEN "closing" ELSE sConn
    /\ UNCHANGED <<sopts, srows, try, sent, queue, rConn, dismissed>>

\* on_connection_close: exit(0), be it the answer to the close or not, and whatever
\* has been sent.
SConnectionClose ==
    /\ sproc = "run" /\ (sConn = "closing" \/ (dismissed /\ settles = 0))
    /\ sproc' = "ok" /\ sConn' = "gone"
    /\ UNCHANGED <<sopts, srows, try, sent, confirmed, waited, queue, settles, rConn, dismissed>>

\* on_transport_error throws, whatever has been sent or confirmed; so does
\* on_transport_tail_closed, which may come first, unless all was sent.
STransportError ==
    /\ sproc = "run" /\ sConn \in {"open", "closing"}
    /\ Caught
    /\ queue' \in Reached(try)
    /\ UNCHANGED rConn

\* The callbacks; all others of the class only log.
SendStep == SStart \/ STick \/ SDivideByZero \/ SSettled \/ SConnectionClose
=============================================================================
