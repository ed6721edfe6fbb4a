# TLA+ models of shackleton

Shackleton is a harness that measures Qpid Proton and Qpid Dispatch every
night: small sender and receiver programs, shell scripts that start them, a
program that turns the tree of results into one JSON file, and a web page that
draws charts from it.  This directory holds TLA+ modules for the parts with
state and concurrency, TLC configurations that check them on small instances,
and proofs, checked by TLAPS, that hold for every value of the constants.

`PROJECT.json` is the machine-readable index: which definition stands for which
lines of the source, which run checks what, which hazard each property is for,
and, for each property, a faulty variant of a definition (named `Bug...` in the
modules) that TLC tells from the code.

To check a model: `tlc -config MCSoakMany.cfg MCP2PSoak`; to check proofs:
`tlapm P2PSoak_proofs.tla`.

## 1. Inventory

### 1.1 Components

| component | source | state | operations |
|---|---|---|---|
| reactor-send | `src/apps/C/reactor-send.c` | `sent`, `done`, report file, one connection | reactor handlers: init, flow, remote close, exit |
| reactor-recv | `src/apps/C/reactor-recv.c` | `received`, `active_connections`, `shutting_down`, `total_latency`, report file, acceptor | handlers: init, link open, delivery, unbound, final; `global_shutdown` |
| p2p soak scripts | `src/tests/p2p_soak/C/*/test.sh` | the child processes | start, sleep, start, wait, keep the report |
| message size test | `src/tests/message_size/C/throughput/test.sh` | the same for each size, and a growing report | loop of the above |
| simple_send | `src/apps/CPP/simple_send.cpp` | `sent`, `confirmed`, `done_time`, `tries`, report | timer, settlement, connection close, transport error, retry |
| simple_recv | `src/apps/CPP/simple_recv.cpp` | `received`, report, done-file | message, transport error, exit code |
| direct_send | `src/apps/CPP/direct_send.cpp` | `sent`, `confirmed`, listener, report | sendable, accepted, disconnect, close |
| router_1, router_soak | `src/tests/router_1`, `src/tests/router_soak` | one router, one or more pairs, done-files in /tmp, `wait_count` | start, wait for done-files, kill |
| router_scale | `src/tests/router_scale/CPP/resources/` | the same, and three reapers and a growing report | one pass for each number of pairs |
| router_scale_2 | `src/tests/router_scale_2/CPP/latency/` | the same without a wait, and a start-signal file | start the senders one by one, touch, kill, a row |
| resource reporter (rr) | `src/utils/rr/`, copies in `src/apps` | `previous_cpu_reading`, two readings of /proc | sample, subtract, print |
| results page, charts tab | `src/html/perf3.js` | four selectors, requests, charts | selection, fetch, answer |
| results page, saved tab | `src/html/perf3.js` | pins, browser storage, batches of fetches | pin, remove, restore, fetch, draw |
| dashboard | `src/html/dash1.html`, `perf3.js` | as charts tab, with a forced test | walk back over the dates |
| mjson | `src/utils/mjson/mjson.c` | nodes with growing arrays of children | add, sort, print |
| jsonize_tree | `src/utils/mjson/jsonize_tree/` | recursion over directories | test, list, descend, print |
| nightly pipeline | `src/run.sh`, `src/jsonize.sh`, ... | working results, the results on the site, results.json | build, test, copy, jsonize |
| clean-up scripts, build scripts, stats, recurring_timer, mjson_app, watch scripts, configuration | see `PROJECT.json` | little or none | |

### 1.2 How they interact

* **Messages.**  reactor-send and reactor-recv are joined by one AMQP
  connection each; simple_send and simple_recv meet at an address of the router,
  which settles, releases and grants credit.
* **Processes and signals.**  Scripts start programs in the background, guess
  with `sleep` when they are ready, `wait` for them or poll, and kill by name.
* **Files.**  A done-file in /tmp says that a receiver has finished; the report
  of a test is written by two writers in the router scale test; results.json is
  made from a directory into which results may still be copied, and two jobs may
  write it at once.
* **Callbacks.**  The page changes its selectors in angular watchers and draws
  when answers arrive; the two tabs share the list of pins and the storage.

### 1.3 What is hard, and what makes each part correct

| part | hard behaviour | correct means |
|---|---|---|
| C pair | shutdown of the receiver while senders connect, send and close; a burst that ends at the credit or at the count; repeated flow events; a shared latency sum | no message lost or counted twice; whole reports; every process ends; no connection is forgotten |
| router pair | settlements, a timer and the router's close race to end the process; a retry starts from message 1 | exit 0 means all was sent; no attempt leaves a message out; success while an attempt is left |
| direct_send | a connection breaks with acceptances on their way; credit that comes message by message | delivered in order without a gap; confirmed only what was delivered; every row written; it ends once served |
| router tests | stale done-files, in one /tmp for all tests; a stale start signal; reapers that outlive their pass; two writers of one file | a verdict is true; reapers kill only their own pass; senders start together; the tests end; the report has its rows |
| rr | a counter that wraps; a process that dies between two readings | a printed row has the usage of its period |
| page | answers that overtake selections; two tabs and the storage marking the same chart; a batch counted down by answers | what is shown is what is selected; marks, list and storage agree; saved charts are drawn |
| mjson | ties in a sort that stops only on a quiet pass; arrays that are exactly full | ordered, stable, terminating; nothing written past an array |
| jsonize_tree | a directory is read twice while files are copied into it | the JSON is the tree |
| nightly pipeline | jsonize.sh beside run.sh: two walks, one file that each empties and writes at its own offset; builds and tests that fail | results.json is whole and current after the night |

The hazards, each at its line and with the properties that answer it, are in
`PROJECT.json`.

## 2. Modules

```
ReactorPipe  <- ReactorSend, ReactorRecv <- P2PSoak <- MCP2PSoak
                                              |   \-- P2PSoak_proofs (TLAPS)
                                              \-- refines MeasuredTransfer
DispatchRouter <- SimpleSend, SimpleRecv <- RouterPair <- RouterPair_proofs (TLAPS)
DirectSend <- DirectSoak <- DirectSoak_proofs (TLAPS)
                |-- refines AtLeastOnce
ResourceReporter <- RouterTests <- MCRouterTests, RouterTests_proofs (TLAPS)
Selectors <- SavedCharts <- ResultsPage <- MCResultsPage, ResultsPage_proofs (TLAPS)
MjsonSort <- MjsonSort_proofs (TLAPS)
JsonizeTree <- JsonizeTree_proofs (TLAPS)
     |                  \
     \-- Nightly <- Nightly_proofs (TLAPS), MCNightly
```

### 2.1 The C pair

`ReactorPipe` is the connection as proton shows it to the two programs: a count
of transfers on the wire, the credit as each end knows it, and the state of
each end.  It is external: proton is not in the repository.  Transfers stay in
order and come before the close that follows them, so a count is enough.
Credit is AMQP's: `granted` is the delivery count that the receiver's
`pn_flowcontroller` has given, `named` what of it has been written to the sender,
`limit` what the sender has heard of.

`ReactorSend` has one action for each thing that runs to completion in
`sender_dispatch` and `main`.  The reactor is single-threaded, so a handler is
atomic.  `SLinkFlow` may come with no new credit, and again after the last
message, as `PN_LINK_FLOW` does.  A report frequency of 0 (`-r` missing)
makes the first message raise SIGFPE, before proton writes to the socket
(`SDivideByZero`).  The reply path of the code is not modelled because
`parse_options` never sets `get_replies`.

`ReactorRecv` likewise: the acceptor, a connection for each sender, the list
`active_connections`, the counting, the report row with the number of latencies
in its sum, `global_shutdown`, and the final event.  `global_shutdown` closes
connections and no link, so the flow controller goes on after it: `TopUp` grants at
every delivery.  A connection is "closing" from `pn_connection_close` until proton
has written the close, with whatever was granted before it (`RWriteClose`), and then
"closed": what is granted later reaches nobody.  `RDie` is `exit(1)` or a
signal: the kernel closes the sockets, and the senders see it.

`P2PSoak` composes one receiver and any number of senders under the script.
The tests start one sender; both programs are written for many, and most of the
receiver's code is about that, so the runs use two.

`MeasuredTransfer` says what such a test promises: sources that stay within a
window of a sink, a sink that counts each message once, and completion exactly
when the count is reached.  `P2PSoak` implements it under the mapping
`offered <- sent, counted <- taken, total <- received,
complete <- shuttingDown`: safety in the presence of every fault, fairness when
nothing fails.

### 2.2 The router pair

`DispatchRouter` is one address of the router, external again: a bounded queue,
credit while a receiver is attached, settlements on their way back, and the
release of what a receiver left behind.  When a sender's connection breaks, any
number of its last messages may not have reached the router (`Reached`).
`SimpleSend` has the timer (`send()`, then the patience test, then the next
schedule), the settlement with its three effects, the router's answer to the
close, the closing of a connection by the other end, and the transport error,
which `main` catches to start over with a new object.  `SimpleRecv` counts,
closes, leaves its done-file and computes its exit code.  Both open a report
(`sfile` and `rfile` say whether `fopen` succeeds) and write a row whenever the
count is divisible by their frequency; a frequency of 0 raises SIGFPE at the
first message (`SDivideByZero`, `RDivideByZero`).  `RouterPair` composes them;
connections break at most `SendBreaks` and `RecvBreaks` times.  The router may also
close the sender's connection unasked (`Dismiss`, if `MayDismiss`), and
`on_connection_close` then ends the sender with 0 whatever was sent; `dismissed` is
how the properties tell that end from a good one, which a script cannot.

### 2.3 direct_send

`DirectSend` listens and sends to whoever connects.  `sent` and `confirmed` are
shared by all connections, as they are members of the one handler.  Each
connection has its credit, the grants on their way, the messages on the wire in
order, and the acceptances on their way back.  `OnSendable` sends as far as
there is credit; `OnDisconnected` falls back to the confirmed count;
`OnAccepted` counts, and at the last one closes the listener and the connection.

`DirectSoak` composes it with receivers that come at any time, at most `AtOnce`
of them together.  direct_send sends a map and simple_recv takes a double out of
the body, so the simple_recv of the repository throws at its first message
(`Misread`) and the two cannot run a test together.  `Readers` are receivers that
can read the map.  A connection may break: what is on the wire is lost, and the
last of the acceptances.

`AtLeastOnce` is what a sender that counts acceptances promises: in order,
without a gap, perhaps more than once, and complete only when all is delivered.
`DirectSoak` implements it, with `complete <- sproc = "ok"`, as long as receivers
come one after the other.

### 2.4 The results page

`Selectors` is the charts tab.  A change of a selector runs through the watchers
of the later ones in one digest, so it is one action.  A day without results
makes a watcher throw; angular catches it, and only the first selector has
changed (`Stuck`).  Each change of the client asks for files; answers arrive
later, and the label is taken from what is selected *then*
(`GotAllSamples`).  `Ordered` says whether answers come in the order of the
requests; then the answer to a request for no file, which the code gives at once,
waits for its turn as well.  `ChartFactory` draws a chart only for the tests and clients
of `Draws`, and throws when the samples lack the columns of the test it is told of
(`MayThrow`): those of another test, and, if `Failing`, those of a report without
rows.  A file that does not load leaves the page as it is (`GotError`, if `Failing`).
`outcome` is what became of the last answer: "shown", "threw" or "lost".

`SavedCharts` is the saved tab: the list of pins, the storage, and the batches of
fetches, each with the number it expects and the number it has.  A visit before
results.json has arrived shows nothing.  `well` says that nothing has failed in the
last batch: no file, no chart, and no day without results, at which
`showSavedCharts` throws.  `ResultsPage` adds loading and reloading, over which only
the storage is kept.  If `Load` finds the saved tab active and it throws, the
rest of the callback is skipped, and the page stays without dates (`lastDates`).

### 2.5 The router tests and rr

`RouterTests` runs a `Plan` of tests in one /tmp: the order of run.sh, and then
router_scale_2, which is started by hand.  A script is a sequence of named steps
(`Scripts`), each an action; what differs between the tests is which steps they
have and in which order.  The report of router_scale may lack its header
(`WriteHeader`): on the first run of a day its directory is not yet there.
Beside the script run the receivers, the senders that poll for a start signal, the three reapers of router_scale, rr, and a router that
may die.  A tick is the ten seconds between two polls.  rr writes at its own
offset and the scripts append, as `>` and `>>` do.  `Passed` is the set of options
each script gives to simple_send.  Some of them (`-P`, `-D`) are unknown to the
simple_send of the repository, so `client` is either that one or the earlier one
for which the scripts were written; every property is checked for both.

`ResourceReporter` has the two readings of a report as two steps, between which
the watched process may die, and takes differences modulo `Width`.

### 2.6 mjson, jsonize_tree and the nightly pipeline

`MjsonSort` is `mjson_sort_children`, a turn of its loops per step.

`JsonizeTree` is the walk of one job `j`; `Name` are the names of directories and
files: the recursion of `jsonize_dir` is a stack
of calls, and a directory is read twice, once by `leaf_node` and once to list it.
The nodes of mjson have their capacities, with the doubling of
`_expand_child_space`; the order of children is that of readdir, which is any, so
they are sets.  results.json is emptied by the redirection when the job starts.
Printing has a beginning and an end: text that another job writes or cuts
meanwhile is mixed with it, unless it is the same text, and a longer text leaves
its end behind.

`Nightly` is run.sh: the builds, any of which may end the night; the tests, whose
status nobody looks at, so that any part of the results may be there; `mkdir -p`;
`cp -pr`, one entry at a time; and jsonize_tree.  Beside it jsonize.sh is started
by hand at any time.

## 3. Runs

| run | instance | checks | shows |
|---|---|---|---|
| `soak_throughput` | 1 sender, window 4, 12 messages, rows at 4 and 5 | `CreditConserved`, `SenderReportComplete`, `KeptReportIsWhole`, `TestEnds`, `MeasuresTransferFairly`, deadlock | the throughput test ends, keeps a whole report and implements `MeasuredTransfer` with its fairness |
| `soak_many` | 2 senders of 5, a receiver that needs 2, window 2, time stamps, perhaps too short a sleep | `RowsCoverTheirPeriod`, `ShutdownClosesAll`, `ListHoldsLiveConnections`, `OverrunIsCreditOnly`, `CompletedMeansCounted`, `ReceiverExits` | a shutdown under load, with a link that opens and credit that is granted during it |
| `soak_faults` | 3 senders of 3, one without `-r` and one without time stamps; a receiver that needs 2 and asks for them, window 2; every `fopen` and `listen` may fail | `IInv`, `SendersExit`, `MeasuresTransfer` | faults before, while and after messages are counted break no promise of safety and leave no sender running |
| `pair` | 4 messages, router of 2, 3 attempts, 3 breaks of the sender, 1 of the receiver, a router that may close the sender's connection unasked, frequencies with and without 0, reports that do not open | `IInv`, `OkMeansAllSent`, `RetryNeverSkips`, `ConfirmedMeansReceived`, `BothSucceed`, `ReceiverSucceeds` | exit 0, confirmation, retry and reports |
| `direct` | 4 messages, one simple_recv and two readers one after the other, credit 3, 2 breaks | `IInv`, `AllRows`, `NoGap`, `ServedToTheEnd` | resending after a disconnection leaves nothing out, and direct_send ends once served |
| `page` | 3 days, the first empty; a test that is not drawn; 2 selections, 2 pins, 2 visits of the saved tab, reloads, files that fail and charts that cannot be made | `SelectionExists`, `ChartsShowSelection`, `MarksAgree`, `PinsAreStored`, `SavedChartsDrawn` | with answers in order the page shows what is selected, whatever failed before; pins on two tabs and in the storage agree |
| `page_race` | 4 days, 2 selections, answers in any order | `ChartsShowSelection`, violated | section 6 |
| `router_tests` | all tests in their order, router_scale and router_scale_2 in two sizes, 3 polls, two lines of rr, a counter of width 3, a router that may die, both clients | `VerdictIsTrue`, `ReapersOutOfTheWay`, `StartTogether`, `RowsAreMeasured`, `TestsEnd` | stale files, signals and reapers of one test never touch the next |
| `scale_report` | router_scale alone, two sizes | `ReportHasRows`, violated | section 6 |
| `sort` | 4 children with labels from 3 | `Sorted`, `IInv`, `Terminates` | the sort, with ties |
| `nightly` | a site of 4 directories and 5 files, a night that adds 2 and 2, jsonize.sh once at any time | `RoomForChildren`, `JsonIsTheTree`, `ResultsAreCurrent` | what is printed is the tree, and after the night results.json is whole and current |
| `tree_promise` | the same | `PromiseKept`, violated | section 6 |

### 3.1 Bounds

* **C pair.**  The window is smaller than the count, so credit runs out and is
  topped up; the count is no multiple of the receiver's frequency in
  `soak_throughput` (12 and 5), so there is a last, incomplete period.  In
  `soak_many` the receiver needs far fewer messages than are sent, so that the bound
  on what it counts past `msg_count` (less than 10) is below all there is to count
  (10), and each sender has both a burst cut by credit and one cut by the count.  In
  `soak_faults` it needs what one good sender sends, and so counts and shuts down
  before, after or without the fault of another.  Two senders give
  every order of one connection opening, sending or closing while another
  triggers the shutdown; the receiver treats connections alike, and the proofs
  lift the bound.
* **Router pair.**  Capacity 2 below 4 messages makes credit run out.  Three
  breaks use up all the attempts, one less than that leaves one; four ticks of
  patience let the timer fire before, between and after the settlements.  A
  frequency of 2 divides the count and 3 does not.  `MaxSent` only matters for a
  sender without a count.
* **direct_send.**  Credit 3 for 4 messages makes the last one wait for an
  acceptance.  Two breaks let a second reader repeat what the first had taken, and
  the simple_recv of the repository may come before, between and after them.
* **Page.**  `Span` is 2 in place of 5, and the days with results are no more than
  that.  Two selections allow a change of the day, to the empty one or to one with
  other tests, and a return; two pins and two visits allow a batch that is under
  way when the next one starts, also over a reload.
* **Router tests.**  Two sizes are needed for anything stale, and the second is
  larger so that a stale file can complete a count.  `ReaperTicks` below
  `WaitCount` keeps the order of the script: reapers strike after 15 minutes,
  the script gives up after 1000 seconds.  In `scale_report` one line of rr suffices
  to overwrite the header or a row.  `router_tests` has two, so that the second is
  the difference from an earlier reading, which may be larger because the counter
  wrapped or because the file of a dead router counts as 0; a width of 3 tells a
  difference from its negative.
* **Sort and night.**  Four children and three labels give ties and all the
  permutations.  A leaf with five files exceeds the four children for which it
  is made; the objects, made for one child, double.  One jsonize.sh gives every
  order of two walks; a third would only repeat what the second does to the
  first.  Two results of one test may be copied before, between and after the two
  reads of their directory.

### 3.2 Fairness and deadlock

Weak fairness is given to what the operating system or a library does when it
can: a process that can run runs, proton delivers an event that is due on each
connection, timers expire, the router forwards and settles, a `sleep` ends, a
script goes on to its next step.  It is given to nothing a person or a fault decides:
connections need not break, files need not fail, receivers of the router tests
may hang for ever, receivers of direct_send need not come, and users of the page
need not click (the page and the night have no liveness properties).

`CHECK_DEADLOCK FALSE` is set where a program really may wait for ever: in
`soak_many` and `soak_faults` a receiver whose senders came too early, or failed,
listens for ever and so does the `wait` of the script; in `pair`, a sender whose
receiver is gone, or a receiver whose sender used up its attempts, has nobody
to end it, and the script's kill is not part of that model; in `direct`,
direct_send listens on when no further receiver comes.  Everywhere else
TLC checks that the system stops only at its `Finished` step.

`soak_throughput` sets `SleepCovers`: the script's `sleep 2` is taken to be long
enough.  Without that assumption `TestEnds` is false, as the script has no
limit on its `wait`.

## 4. Proofs

`P2PSoak_proofs` proves, for any finite set of senders, any window of at least
one, any counts, report frequencies and faults:

| theorem | property |
|---|---|
| `TypeCorrect` | `TypeOK` |
| `Invariance` | `IInv` |
| `CreditIsConserved` | `CreditConserved` |
| `SenderReports` | `SenderReportComplete` |
| `RowsAreWhole` | `RowsCoverTheirPeriod` |
| `ShutdownIsTotal` | `ShutdownClosesAll` |
| `ListIsLive` | `ListHoldsLiveConnections` |
| `OverrunIsBounded` | `OverrunIsCreditOnly` |
| `ExitIsComplete` | `ExitMeansComplete` |
| `DoneIsCounted` | `CompletedMeansCounted` |
| `KeptIsWhole` | `KeptReportIsWhole` |
| `Refinement` | `MeasuresTransfer` |

The assumptions are the ASSUMEs of the modules on the constants, and nothing
else.  None of the properties is inductive.  `IInv` has eight parts:

* `TypeOK`;
* `CreditInv`: credit is conserved, and, which the step of opening a link
  needs, nothing is granted before;
* `SenderInv`: the rows are exactly those due so far, and a sender's report is
  open until it is done; it closes its connection only then;
* `ListInv`: the list, the sockets and the flag of the shutdown agree.  The
  part that carries the shutdown is that *no* link is active once the flag is
  set, not only none in the list;
* `DrainInv`: a connection that both ends have closed carries nothing more.
  It is what makes "done and exited" imply "counted": without it an exit could
  leave messages on the wire.  It fails once the receiver has died, hence its
  premise;
* `OverrunInv`: what came on top of `msg_count` was covered by credit when the
  shutdown began, or by the one window that leaves with a close, as the flow
  controller grants until then.  `Reach` is the count that a sender may still
  reach, and `Outstanding` the set of the deliveries up to it; a delivery takes one
  element out of the set and adds one to the count, and no step adds to their sum.
  There are at most two windows for each sender in it;
* `RowInv`: the latency sum covers `received % RecvFreq` messages;
* `SavedInv`: the script keeps the report only after the receiver is over.

Each part has a lemma for `Init` and one for `Next`, with a case for each
action.  Two lemmas are about arithmetic: `DueRowsJoin` (rows due in two
adjacent intervals) and `NextRemainder` (how `%` moves by one), which the
solvers do not find alone.  `Refinement` uses `IInv`: a burst is an `Offer`
only because credit is within a window of what was counted.

`RouterPair_proofs` proves, for any capacity of the router, any counts (also the
-1 of a sender or receiver without a limit), frequencies, patience, number of
attempts and of broken connections:

| theorem | property |
|---|---|
| `Invariance` | `IInv` |
| `AttemptsAccounted` | `AttemptAccounted`: what this attempt sent is confirmed, on its way back, or in the queue, as long as its connection is open |
| `AllSent` | `OkMeansAllSent`, for a sender with a count (`~Forever`) that was not dismissed |
| `NeverSkips` | `RetryNeverSkips` |
| `Confirmed` | `ConfirmedMeansReceived` |

`IInv` adds to `TypeOK`:

* `ConnInv`: the state of each process and of its connection agree;
* `QueueInv`: the queue has a cut, before which all messages are of earlier
  attempts and behind which all are of this one, and confirmed, on the way back
  and behind the cut add up to `sent`.  It is why settlements of an earlier attempt
  never count for this one;
* `CountInv`: the timer runs only once everything was sent, which is what makes
  exit 0 mean that all was sent, whichever callback exits, unless the router
  dismissed the sender;
* `RowsInv`: each report has the rows of what was counted so far;
* `RetryNeverSkips` and `OrderInv`: what comes before a queued message is ahead of
  it in the queue or was seen.  Without `OrderInv` the property is not inductive;
* `ConfirmInv`: confirmed and on the way back are at most what was received, as
  long as the receiver is there.

`DirectSoak_proofs` proves, for any receivers, count, credit, frequencies and
number of breaks, `Invariance` (`IInv`), `RowsAreAll` (`AllRows`) and `Refinement`
(`NoGap`, the implementation of `AtLeastOnce`) from the assumption
`Sequential`: receivers come one after the other and expect at least the count, as
the script has it.  `FlowInv` says that what was sent is confirmed, accepted or on
the wire, in order, and that what is ahead of the wire was delivered; `IdleInv`
that without a connection nothing is under way; `DeliveryInv` that what was
delivered has no gap; `RowsInv` that no row is missing; `OneAtATime` carries the
assumption.  The burst of `OnSendable` needs facts about concatenation
(`HandedWire`), taken from SequenceTheorems.

`MjsonSort_proofs` proves `IInv` for any number of children and any labels
(`Invariance`), and from it that the labels are ordered on return
(`SortIsOrdered`) and that no child is lost and equal labels keep their order
(`SortIsStable`).  The invariant says that a pass without a swap has ordered
what it has seen.

`RouterTests_proofs` proves, for any plan of tests, any numbers of pairs, any
waits, any width of the CPU counter, both clients, pids that come back or not,
and a router that may die:

| theorem | property |
|---|---|
| `Invariance` | `IInv` |
| `TypeCorrect` | `TypeOK`: among others, `wait_count` never falls below zero |
| `VerdictsAreTrue` | `VerdictIsTrue`, from `PidsTell` |
| `ReapersStrikeTheirOwn` | `ReapersOutOfTheWay` |
| `SignalStartsAll` | `StartTogether` |
| `RowsAreTrue` | `RowsAreMeasured` |

`PidsTell` says that pids do not come back in a plan with router_1.  Without it
the property is false (section 6); every other theorem holds for pids that
repeat.  The invariant rests on `Past`, the steps of its script that the current
test has taken: one lemma for each script says what comes before each step, and
every part of `IInv` speaks of steps, not of positions.  `QuietInv` and
`StartedInv` say that what a step starts runs from then until the stop;
`ReapersInv` that a sleeping reaper is of this test and not yet disarmed;
`SignalInv` that between the removal of the start signal and the touch nobody
sends; `FilesInv` that, once the old done-files are removed, those there are of
this test's own receivers that are done, and `FoundInv` carries that from the
poll to the verdict, during which receivers go on; `PollInv` bounds the waiting
loop; `RRInv` is the arithmetic of the counter: what was used since the last
reading is the difference of the readings, or that and one `Width` more.

`ResultsPage_proofs` proves, for any days and results, any tests, languages and
stored values, any numbers of selections, pins and visits, and files that fail:

| theorem | property |
|---|---|
| `Invariance` | `IInv` |
| `TypeCorrect` | `TypeOK` |
| `SelectionIsThere` | `SelectionExists` |
| `OrderedChartsShowSelection` | `ChartsShowSelection`, from `Ordered` |
| `MarksAlwaysAgree` | `MarksAgree` |
| `PinsAlwaysStored` | `PinsAreStored` |
| `SavedChartsGetDrawn` | `SavedChartsDrawn` |

`Ordered` says that answers come in the order of the requests; without it
`page_race` is a counterexample.  `ChartsInv` says that, in order, the last request
on its way is for the selection, and that once there is none the charts are those
that `ChartFactory` makes for the selection, or none if it threw; an answer that
was lost is no excuse for the next one.  `PinsInv` says that
the storage has the labels of the pins, each once, and that a chart on either
tab is marked exactly if its label is among them; `BatchInv` that, if nothing of the last
visit of the saved tab has failed, its batch has counted exactly the answers that
are not due any more, so that it reaches its number whatever earlier visits lost.  A pin is removed by a splice
(`Without`), for which `WithoutPin` says what becomes of the labels.

`JsonizeTree_proofs` and `Nightly_proofs` prove, for any tree of results, any
names, any night, any number of jobs that run jsonize_tree at the same time, and
files that come while a tree is read:

| theorem | property |
|---|---|
| `NodesHaveRoom` | `RoomForChildren` |
| `PathsAreEntries` | `mjson_print` prints exactly the entries the nodes stand for |
| `TextIsTheTree` | `JsonIsTheTree` |
| `NightIsPublished` | `ResultsAreCurrent` |

The assumptions are `JobsAssumption` and `TreeAssumption`: directories are in
directories, files are in directories, and both have names in `Name`.

`RoomForChildren` holds because `_expand_child_space` doubles before a child is
added; the arrays start with room for one child or for four, as jsonize_tree makes
them.

What is printed is compared with the tree in two steps.  Between them stands a
function that gives each node its place, the directory it was made for:
`Shape(tree, place)` says that the children of a node are exactly the nodes whose
place is in its place, that labels are the last names of places, that no two nodes
have the same place and that children come after their parents.

* `PathsAreEntries` is about `mjson_print`: the recursion over the children of a
  tree with `Shape` gives exactly the directories and files of its places.  It is
  a recursive function, and there is only one with its equation (`PathsAreUnique`),
  so it is enough that the set of the places has that equation too.
* `Walk` is about `jsonize_dir`, for a stack of calls of any depth.  `NodeInv`
  ties a node to what was in its directory when the job began and what is there
  now; `CallInv` a call to its node; `IsLink` a call to the one it has made;
  `Complete` says that the node of a finished call has every entry that was
  there.  A lemma for each kind of step keeps it (`WalkTest`, `WalkOpen`,
  `WalkName`, `WalkDir`, `WalkReturn`, `WalkStart`), and `WalkGrows` says that it
  withstands what other jobs and the night add to the site.  `EntriesAreTree` says
  what is left of it when the stack is empty.

Both steps are by induction: on the number of a node, as children come later, and on
the depth of a directory.  The induction theorems of the library take a predicate,
so it is done here with a set of numbers instead (`LeastNumber` and `Induction`, from
the theorem that a well-founded relation has minima in every set).

`NightIsPublished` needs `JsonIsTheTree`, applied to a site that stands still,
and `CurrentInv`: from run.sh's jsonize_tree on, when it was `alone`, all jobs
have begun with the same tree, results.json has only paths of it, and it is
either whole or some job that nobody has disturbed is still to end.  A jsonize_tree
never fails on such a site (`NoFailure`), for which the second read of a directory
has to find the files that the first one found.  TLC has confirmed `TreeInv` and
`CurrentInv` on the instance of `nightly`.

Every invariant of the runs is therefore proved.  Only model-checked are the
liveness properties, which rest on fairness: that the sort, the tests and the
senders end, that both ends of the pair succeed, and `MeasuresTransferFairly`.

## 5. Not modelled, and why

* The dashboard is planned (section 7), and so is the loop of the message size
  test, which appends the last row of each report to one file; each turn of it is
  what `P2PSoak` models.
* stats adds floating-point numbers in sequence; recurring_timer is a single
  timer; mjson_app uses an interface that mjson no longer has; the clean-up
  scripts are lists of pkill commands for a person to use.
* Two nights at the same time.  They would share the names in /tmp and every kill
  by program name; nothing in the scripts keeps them apart.
* The text of options and reports, the values in a row, the encoding of messages
  and the buffer that is grown for decoding them, the drawing of charts, and
  zooming.
* In the router tests, core files, the latencies of router_scale_2, and the mem
  column, whose file nobody writes.

## 6. Where the code and its documents disagree

Three disagreements are counterexamples of a run:

* `page_race`: `gotAllSamples` (`perf3.js:142`) labels whatever arrives with
  the selection of that moment.  If the answer to an older selection comes last,
  its charts stay, under the label of the newer one.
* `scale_report`: `test_1.sh:140` redirects rr to `router/tp_report.txt` with
  `>`, once for each size.  The header and the rows of earlier sizes are gone at
  the end, although the test is about how usage changes with the size.
* `tree_promise`: if the first file of a directory is copied between the two
  reads of `jsonize_tree.c`, the program exits with "Mick promised this would
  never happen", after the redirection has emptied results.json.

Others were met while reading, and have no run of their own:

* router_scale gives simple_send a `-P` (`test_1.sh:198`) that the program does
  not know (`simple_send.cpp:635`), and no start signal file, so its senders
  exit with 1 and no receiver finishes.  `router_1/CPP/throughput/test.sh:189`
  also passes `-P`, and router_soak passes `-D`.  With these senders the scripts
  only see their timeout, which is why `router_tests` also has the earlier client.
* `run.sh:80` prints "router_soak test removed from list", while line 77 still has
  it in the list.
* router_1 removes no done-file (`test.sh:205`).  With `Recur`, a plan that runs
  it after router_scale violates `VerdictIsTrue`: a receiver that gets the pid of
  an earlier one is taken for finished at once.
* direct_send sends a map, and `simple_recv.cpp` takes a double: it throws at the
  first message.
* `direct_send.cpp:145` prints "all messages confirmed".  With two receivers at a
  time (`AtOnce = 2`) this need not be so: when the loss of a connection is noticed
  after another receiver has connected, `sent` falls back under what is on the wire
  to that one, acceptances of repeated messages are counted, and the program ends
  while the last message is undelivered.  TLC finds it against
  `AllMessagesConfirmed`.
* A receiver of direct_send that closes in an orderly way before the last message
  leaves `sent` above `confirmed`, and nothing is sent again: only a
  disconnection makes it fall back.
* Both C++ programs of the router pair, and direct_send, divide by their report
  frequency and end with SIGFPE when it is 0.
* The router releases what a departed receiver left, and the sender counts a
  release as a confirmation (`simple_send.cpp:491`), so `ConfirmedMeansReceived` is only
  claimed as long as the receiver is there.
* simple_send exits with 0 on any close by the router (`simple_send.cpp:351`),
  also on one it did not ask for, before all is sent.  `OkMeansAllSent` says nothing
  of a sender that was dismissed.
* `test.sh:33` of router_scale writes the header of the report into a directory that
  `test_1.sh:87` makes, so that there is none on the first run of a day.
* A jsonize.sh that is started before the night's results are copied, and still
  runs when run.sh starts jsonize_tree, may print last: results.json is then that
  of the day before, or a mixture that is no JSON, until the next night.
  Without `alone`, TLC finds it against `ResultsAreCurrent`.
* `reactor-send.c:72` documents `-c 0` as "forever"; the test in line 325 then
  holds before anything is sent, and the sender closes at once.
* Comments in `simple_send.cpp:106` and 492 speak of a forever-mode sender (`-m -1`);
  `sent >= requested` in line 263 holds at the first settlement and closes it.
* `index.html:52` offers a date for the charts, but `perf3.js:158` fetches the
  last days there are, whatever date is selected.
* A saved chart whose days include one without results is never drawn: line 108
  indexes the results with that day and throws, and the charts after it in the
  list are not fetched either.
* `jsonize_tree.c:113` makes an object whose only member is `tests`;
  `perf3.js:743` takes the keys of the top level for years.

## 7. Plan

The order follows the weight of the behaviour: first the programs that measure,
then what runs and shows them.

1. *Done:* the C pair, the router pair, direct_send and the sort, with their
   proofs, and the refinements of the first and third; the router tests with
   rr; the results page; the night with jsonize_tree.
2. *Done:* the theorems for every invariant that a run checks, for every value of the
   constants.  *Theorems next:* the safety part of the abstract specifications of
   item 4, when they are there.
3. *Modules left.*  The dashboard's forced test and its walk back over the
   calendar (`perf3.js:72-92`), as a third user of `Selectors`; the message size
   loop on top of `P2PSoak`.
4. *Abstract specifications left.*  An at-least-once transfer for the router pair
   with its attempts, and "last selection wins" for the page.
