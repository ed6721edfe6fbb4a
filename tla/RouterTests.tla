----------------------------- MODULE RouterTests -----------------------------
(***************************************************************************)
(* The router tests, run one after the other: router_1, router_soak and    *)
(* router_scale, once for each number of client pairs, as in the list of   *)
(* run.sh, and router_scale_2, which is started by hand.  Each starts a    *)
(* router, receivers and senders, and learns from done-files in /tmp that  *)
(* receivers have finished, waits no longer than WaitCount polls, and      *)
(* kills everything.  What they share: /tmp, the names by which programs   *)
(* are killed, and the report that the sizes of a test write together.  A  *)
(* tick is the time between two polls.                                     *)
(***************************************************************************)
EXTENDS ResourceReporter, FiniteSets, Sequences

CONSTANTS Plan,         \* the tests in their order: [test, pairs]
          WaitCount,    \* wait_count: 100
          ReaperTicks,  \* FIFTEEN_MINUTES of router_scale: 90 ticks
          Recur,        \* may a receiver get the pid of one that is dead?
          MaxLines,     \* bound: how many lines rr writes in one test
          Crashes       \* bound: how often a router dies by itself

\* The steps of each script.  "header" is what test.sh of router_scale does first.
Scripts == [
    router_1       |-> <<"router", "receivers", "senders", "wait", "check", "stop">>,
    router_soak    |-> <<"router", "rr", "receivers", "clear", "senders", "wait",
                         "check", "stop">>,
    header         |-> <<"header">>,
    router_scale   |-> <<"router", "rr", "receivers", "clear", "senders", "reapers",
                         "wait", "check", "disarm", "row", "stop">>,
    router_scale_2 |-> <<"clear", "router", "rr", "signal", "receivers", "senders",
                         "touch", "stop", "row">>]

\* The options with which each of them starts simple_send.
Passed == [router_1 |-> {"m", "P", "f", "q", "d"}, router_soak |-> {"m", "f", "q", "d", "D"},
           router_scale |-> {"m", "f", "q", "d", "P"}, router_scale_2 |-> {"m", "q", "d", "F"}]

ASSUME PlanAssumption ==
    /\ Plan \in Seq([test : DOMAIN Scripts, pairs : Nat \ {0}]) /\ Plan # <<>>
    /\ \A i \in DOMAIN Plan : Plan[i].test = "router_1" => Plan[i].pairs = 1
ASSUME TimesAssumption ==
    WaitCount \in Nat \ {0} /\ ReaperTicks \in Nat /\ MaxLines \in Nat /\ Crashes \in Nat
    /\ Recur \in BOOLEAN

VARIABLES client,    \* simple_send: "current", or the "earlier" one of the scripts
          k,         \* which of Plan is being run
          at,        \* where in its script
          router,    \* is qdrouterd running?
          senders,   \* senders[p]: the sender of pair p
          recv,      \* recv[p]: the receiver of pair p
          names,     \* names[p]: the pid of that receiver
          doneFiles, \* the done-files in /tmp, by pid
          start,     \* is /tmp/start there?
          reapers,   \* reapers[t]: which test the reaper of t sleeps for, or 0
          clock,     \* ticks since the reapers were started
          waits,     \* wait_count
          found,     \* did the last poll find what it waits for?
          verdict,   \* what the script says of its receivers
          reports,   \* the lines of the files that rr and the scripts write
          pos,       \* the offset of rr in its file
          crashes    \* how often a router has died

script   == <<k, at>>
clients  == <<senders, recv, names>>
signs    == <<doneFiles, start>>
waiting  == <<reapers, clock, waits, found>>
written  == <<verdict, reports, pos>>
vars == <<client, script, router, clients, signs, waiting, written, crashes, rrVars>>

Pairs == UNION {1..Plan[i].pairs : i \in DOMAIN Plan}
Targets == {"simple_send", "simple_recv", "qdrouterd"}
Pids == (DOMAIN Plan) \X Pairs

pc == IF k > Len(Plan) THEN "done" ELSE Scripts[Plan[k].test][at]
Test == Plan[k].test
Mine == 1..Plan[k].pairs

\* The file that rr writes to: the report itself, or one of its own.
RRFile == IF Test = "router_scale_2" THEN "watch" ELSE Test
Files == {"router_soak", "router_scale", "watch", "router_scale_2"}
Lines == {"header", "rr", "row"} \X (DOMAIN Plan) \X BOOLEAN

TypeOK ==
    /\ client \in {"current", "earlier"}
    /\ k \in 1..(Len(Plan) + 1) /\ router \in BOOLEAN /\ start \in BOOLEAN
    /\ senders \in [Pairs -> {"off", "failed", "waiting", "sending"}]
    /\ recv \in [Pairs -> {"off", "running", "done", "killed"}]
    /\ names \in [Pairs -> Pids] /\ doneFiles \subseteq Pids
    /\ reapers \in [Targets -> 0..Len(Plan)]
    /\ clock \in 0..WaitCount /\ waits \in 0..WaitCount /\ found \in BOOLEAN
    /\ verdict \in {"none", "found", "missing"}
    /\ reports \in [Files -> Seq(Lines)] /\ pos \in 0..MaxLines
    /\ crashes \in 0..Crashes /\ RRTypeOK

Init ==
    /\ client \in {"current", "earlier"} /\ k = 1 /\ at = 1 /\ router = FALSE
    /\ senders = [p \in Pairs |-> "off"] /\ recv = [p \in Pairs |-> "off"]
    /\ names = [p \in Pairs |-> <<1, p>>] /\ doneFiles = {} /\ start = FALSE
    /\ reapers = [t \in Targets |-> 0] /\ clock = 0 /\ waits = 0 /\ found = FALSE
    /\ verdict = "none" /\ reports = [f \in Files |-> <<>>] /\ pos = 0 /\ crashes = 0 /\ RRInit

\* The script goes on, and after its last step the next test begins.
Proceed ==
    IF at < Len(Scripts[Test]) THEN at' = at + 1 /\ UNCHANGED k
    ELSE k' = k + 1 /\ at' = 1

\* test.sh of router_scale starts the report.  The directory is only made by test_1.sh:
\* on the first run of a day it is not there, and no header is written.
WriteHeader ==
    /\ pc = "header" /\ Proceed
    /\ \/ reports' = [reports EXCEPT !["router_scale"] = << <<"header", k, TRUE>> >>]
       \/ reports["router_scale"] = <<>> /\ UNCHANGED reports
    /\ UNCHANGED <<client, router, clients, signs, waiting, verdict, pos, crashes, rrVars>>

\* Old routers are killed until none is left, and a new one is started.
StartRouter ==
    /\ pc = "router" /\ Proceed
    /\ router' = TRUE /\ NewProcess
    /\ UNCHANGED <<client, clients, signs, waiting, written, crashes>>

\* rr is started, with a file of its own or the report as its output.
StartRR ==
    /\ pc = "rr" /\ Proceed
    /\ Watch(router)
    /\ reports' = [reports EXCEPT ![RRFile] = <<>>] /\ pos' = 0
    /\ UNCHANGED <<client, router, clients, signs, waiting, verdict, crashes>>

\* The steps of rr.  A row goes to the offset where the last one ended, and is
\* marked with whether it is right.
RRStep ==
    /\ rr # "off" /\ k <= Len(Plan)
    /\ \/ pos < MaxLines /\ ReadUsage(router) /\ UNCHANGED <<pos, reports>>
       \/ RRCrash(router) /\ UNCHANGED <<pos, reports>>
       \/ LET line == <<"rr", k, usage = spent>>
              file == reports[RRFile]
          IN  /\ ReadSize(router) /\ pos' = pos + 1
              /\ reports' = [reports EXCEPT ![RRFile] =
                                IF pos < Len(file) THEN [file EXCEPT ![pos + 1] = line]
                                ELSE Append(file, line)]
    /\ UNCHANGED <<client, script, router, clients, signs, waiting, verdict, crashes>>

RouterWorks ==
    /\ Work(router) /\ rr # "off"
    /\ UNCHANGED <<client, script, router, clients, signs, waiting, written, crashes>>

\* A router dies by itself and leaves a core file.
RouterCrash ==
    /\ router /\ crashes < Crashes
    /\ router' = FALSE /\ crashes' = crashes + 1
    /\ UNCHANGED <<client, script, clients, signs, waiting, written, rrVars>>

\* A pid is new, or one of a dead process that left a done-file.
Named == [p \in Pairs |-> <<k, p>>]
StartReceivers ==
    /\ pc = "receivers" /\ Proceed
    /\ recv' = [p \in Pairs |-> IF p \in Mine THEN "running" ELSE "off"]
    /\ names' \in {Named} \union
                  (IF Recur THEN {[Named EXCEPT ![Plan[k].pairs] = f] : f \in doneFiles} ELSE {})
    /\ UNCHANGED <<client, router, senders, signs, waiting, written, crashes, rrVars>>

\* Definitions named Bug... are faulty variants of the definition that follows.
\* router_1 has no such step.
BugCleared == doneFiles

\* rm -f of the old done-files.
Cleared == {}

ClearDone ==
    /\ pc = "clear" /\ Proceed
    /\ doneFiles' = Cleared
    /\ UNCHANGED <<client, router, clients, start, waiting, written, crashes, rrVars>>

\* The old start signal is left.
BugSignal == start

\* rm -f of the old start signal.
Signal == FALSE

ClearSignal ==
    /\ pc = "signal" /\ Proceed
    /\ start' = Signal
    /\ UNCHANGED <<client, router, clients, doneFiles, waiting, written, crashes, rrVars>>

\* The options that simple_send knows: the earlier one also knew a delay and a pause.
Accepted == {"a", "m", "q", "d", "f", "F"} \union
            (IF client = "earlier" THEN {"D", "P"} ELSE {})

\* What becomes of a sender.  The current simple_send waits for a start signal in
\* any case: without -F for a file named "", which is never there.
Begins ==
    CASE ~(Passed[Test] \subseteq Accepted) -> "failed"
      [] client = "earlier" /\ "F" \notin Passed[Test] -> "sending"
      [] OTHER -> "waiting"

\* The senders are started one by one.
StartSender ==
    /\ pc = "senders"
    /\ \E p \in Mine :
          /\ senders[p] = "off" /\ \A q \in Mine : q < p => senders[q] # "off"
          /\ senders' = [senders EXCEPT ![p] = Begins]
          /\ IF p = Plan[k].pairs THEN Proceed ELSE UNCHANGED script
    /\ waits' = WaitCount /\ clock' = 0
    /\ UNCHANGED <<client, router, recv, names, signs, reapers, found, written,
                   crashes, rrVars>>

\* A sender looks for the start signal every 13 seconds.
Go(p) ==
    /\ senders[p] = "waiting" /\ "F" \in Passed[Test] /\ start
    /\ senders' = [senders EXCEPT ![p] = "sending"]
    /\ UNCHANGED <<client, script, router, recv, names, signs, waiting, written, crashes, rrVars>>

\* touch /tmp/start
TouchStart ==
    /\ pc = "touch" /\ Proceed
    /\ start' = TRUE
    /\ UNCHANGED <<client, router, clients, doneFiles, waiting, written, crashes, rrVars>>

\* A receiver has counted all its messages.  It does not wait for the script.
ReceiverDone(p) ==
    /\ recv[p] = "running" /\ senders[p] = "sending" /\ router
    /\ recv' = [recv EXCEPT ![p] = "done"]
    /\ doneFiles' = doneFiles \union {names[p]}
    /\ UNCHANGED <<client, script, router, senders, names, start, waiting, written, crashes, rrVars>>

StartReapers ==
    /\ pc = "reapers" /\ Proceed
    /\ reapers' = [t \in Targets |-> k]
    /\ UNCHANGED <<client, router, clients, signs, clock, waits, found, written, crashes, rrVars>>

\* The reaper of t wakes and kills: a sleep may end a little late.
Reap(t) ==
    /\ reapers[t] # 0 /\ clock >= ReaperTicks
    /\ reapers' = [reapers EXCEPT ![t] = 0]
    /\ router' = (router /\ t # "qdrouterd")
    /\ senders' = [p \in Pairs |-> IF t = "simple_send" /\ senders[p] # "off"
                                   THEN "failed" ELSE senders[p]]
    /\ recv' = [p \in Pairs |-> IF t = "simple_recv" /\ recv[p] = "running"
                                THEN "killed" ELSE recv[p]]
    /\ UNCHANGED <<client, script, names, signs, clock, waits, found, written, crashes, rrVars>>

\* The count is not decremented.
BugTick == clock' = clock /\ waits' = waits

Tick == clock' = clock + 1 /\ waits' = waits - 1

\* router_1 looks for the file of its receiver, the others count all done-files.
FileThere == names[Plan[k].pairs] \in doneFiles
AllThere  == Cardinality(doneFiles) = Plan[k].pairs

Done == IF Test = "router_1" THEN FileThere ELSE AllThere

\* One turn of the waiting loop.  router_1 sleeps and looks, the others look and
\* sleep, unless they have found all.
Poll ==
    /\ pc = "wait" /\ found' = Done
    /\ clock > ReaperTicks => \A t \in Targets : reapers[t] = 0
    /\ IF found' /\ Test # "router_1" THEN Proceed /\ UNCHANGED <<clock, waits>>
       ELSE Tick /\ IF found' \/ waits' = 0 THEN Proceed ELSE UNCHANGED script
    /\ UNCHANGED <<client, router, clients, signs, reapers, written, crashes, rrVars>>

\* What the script says in the end.  Only router_scale removes the done-files.
Check ==
    /\ pc = "check" /\ Proceed
    /\ verdict' = IF found THEN "found" ELSE "missing"
    /\ doneFiles' = IF Test = "router_scale" THEN {} ELSE doneFiles
    /\ UNCHANGED <<client, router, clients, start, waiting, reports, pos, crashes, rrVars>>

\* The third kill is missing.
BugDisarmed(t) == IF t = "qdrouterd" THEN reapers[t] ELSE 0

Disarmed(t) == 0

Disarm ==
    /\ pc = "disarm" /\ Proceed
    /\ reapers' = [t \in Targets |-> Disarmed(t)]
    /\ UNCHANGED <<client, router, clients, signs, clock, waits, found, written, crashes, rrVars>>

\* The row of this size is appended: in router_scale while rr still writes to the
\* same file, in router_scale_2 after rr's own file was read, which is then removed.
WriteRow ==
    /\ pc = "row" /\ Proceed
    /\ reports' = [reports EXCEPT ![Test] = Append(@, <<"row", k, TRUE>>),
                                  !["watch"] = <<>>]
    /\ UNCHANGED <<client, router, clients, signs, waiting, verdict, pos, crashes, rrVars>>

\* Everything is killed; router_scale_2 then removes the done-files.
Stop ==
    /\ pc = "stop" /\ Proceed
    /\ router' = FALSE /\ RRStop
    /\ senders' = [p \in Pairs |-> "off"] /\ recv' = [p \in Pairs |-> "off"]
    /\ doneFiles' = IF Test = "router_scale_2" THEN {} ELSE doneFiles
    /\ verdict' = "none"
    /\ UNCHANGED <<client, names, start, waiting, reports, pos, crashes>>

Script ==
    \/ WriteHeader \/ StartRouter \/ StartRR \/ StartReceivers \/ ClearDone
    \/ ClearSignal \/ StartSender \/ TouchStart \/ StartReapers
    \/ Poll \/ Check \/ Disarm \/ WriteRow \/ Stop

\* The scripts have ended.
Finished == pc = "done" /\ UNCHANGED vars

Next ==
    \/ Script \/ RRStep \/ RouterWorks \/ RouterCrash \/ Finished
    \/ \E p \in Pairs : Go(p) \/ ReceiverDone(p)
    \/ \E t \in Targets : Reap(t)

Spec == Init /\ [][Next]_vars

\* The scripts go on and the reapers wake; programs may hang or die.
FairSpec ==
    Spec /\ WF_vars(Script) /\ \A t \in Targets : WF_vars(Reap(t))
-----------------------------------------------------------------------------
\* A script says that its receivers have finished only if they have, although
\* those of an earlier test may leave done-files after it has stopped looking.
VerdictIsTrue ==
    k <= Len(Plan) /\ verdict = "found" => \A p \in Mine : recv[p] = "done"

\* A reaper only ever kills what its own run of test_1.sh started.
ReapersOutOfTheWay == \A t \in Targets : reapers[t] \in {0, k}

\* router_scale_2 starts the senders with a signal once all pairs are there: a
\* signal of the size before never lets one of them begin alone.
StartTogether ==
    k <= Len(Plan) /\ Test = "router_scale_2" /\ (\E p \in Pairs : senders[p] = "sending")
        => \A p \in Mine : senders[p] # "off" /\ recv[p] # "off"

\* Every row of rr has the CPU ticks that the router used in its period: neither
\* the wrap of the counter nor the death of the router makes it another number.
RowsAreMeasured ==
    \A f \in Files : \A i \in 1..Len(reports[f]) : reports[f][i][3]

\* The comment on the reapers (test_1.sh:207) is about hanging while waiting:
\* whatever hangs, the tests come to their end.
TestsEnd == <>(pc = "done")

\* descriptions.json:183 says "We study how the router's resource usage changes
\* as the number of sender-receiver pairs is increased": the report has a row for
\* each size.
ReportHasRows ==
    pc = "done" =>
        \A i \in DOMAIN Plan : Plan[i].test = "router_scale" =>
            \E j \in 1..Len(reports["router_scale"]) :
                reports["router_scale"][j] = <<"row", i, TRUE>>

(* The inductive invariant *)

PlaceInv == IF k <= Len(Plan) THEN at \in 1..Len(Scripts[Test]) ELSE at = 1

\* The steps of its script that the current test has taken.
Past == IF k <= Len(Plan) THEN {Scripts[Test][i] : i \in 1..(at - 1)} ELSE {}

\* Nothing runs before the step that starts it, nor after the stop, ...
QuietInv ==
    /\ rr # "off" => "rr" \in Past /\ "stop" \notin Past
    /\ verdict # "none" => "check" \in Past /\ "stop" \notin Past
    /\ \A p \in Pairs :
          /\ senders[p] # "off" =>
                 (pc = "senders" \/ "senders" \in Past) /\ "stop" \notin Past
          /\ recv[p] # "off" => p \in Mine /\ "receivers" \in Past /\ "stop" \notin Past

\* ... and in between all of it was started.
StartedInv ==
    "stop" \notin Past =>
        /\ "receivers" \in Past => \A p \in Mine : recv[p] # "off"
        /\ "senders" \in Past => \A p \in Mine : senders[p] # "off"

\* No start signal is there until this test gives it, and no sender starts before.
SignalInv ==
    "signal" \in Past /\ "touch" \notin Past =>
        ~start /\ \A p \in Pairs : senders[p] # "sending"

ReapersInv ==
    \A t \in Targets :
        reapers[t] # 0 => reapers[t] = k /\ "reapers" \in Past /\ "disarm" \notin Past

\* The two counters of the waiting loop.
PollInv ==
    "senders" \in Past => clock + waits = WaitCount /\ ("wait" \notin Past => waits > 0)

\* The done-files of this test are those of its own receivers, in router_1 by
\* their pid, which no earlier receiver had.
FilesInv ==
    /\ \A p \in Pairs : names[p][1] <= k
    /\ \A f \in doneFiles : f[1] <= k /\ ("receivers" \notin Past => f[1] < k)
    /\ ~Recur /\ k <= Len(Plan) /\ Test = "router_1" /\ "receivers" \in Past =>
          (names[1] \in doneFiles => recv[1] = "done")
    /\ "clear" \in Past /\ "stop" \notin Past =>
          doneFiles \subseteq {names[p] : p \in {q \in Mine : recv[q] = "done"}}

\* Pids tell receivers apart wherever a script looks at a single one.
PidsTell == Recur => \A i \in DOMAIN Plan : Plan[i].test # "router_1"

\* What the last poll found, and what the script says, is so until the stop.
FoundInv ==
    PidsTell /\ "stop" \notin Past =>
        /\ "wait" \in Past /\ found => \A p \in Mine : recv[p] = "done"
        /\ verdict = "found" => found

\* What rr has read, and the router has used since, is what its counter shows.
RRInv ==
    /\ rr = "halfway" => pos < MaxLines
    /\ router /\ rr \in {"asleep", "halfway"} =>
          ticks = previous + fresh \/ ticks + Width = previous + fresh
    /\ router /\ rr = "halfway" => usage = spent

IInv ==
    /\ TypeOK /\ PlaceInv /\ QuietInv /\ StartedInv /\ SignalInv /\ ReapersInv
    /\ PollInv /\ FilesInv /\ FoundInv /\ RRInv /\ RowsAreMeasured
=============================================================================
