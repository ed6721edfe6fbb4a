------------------------------- MODULE Selectors -------------------------------
(***************************************************************************)
(* html/perf3.js, the charts tab: four selectors (date, test, language,    *)
(* client), each narrowing the next, and the charts of what is selected,   *)
(* which arrive some time after the files were asked for.                  *)
(*                                                                         *)
(* A change runs through the watchers of the later selectors within one    *)
(* angular digest, so it is one action.  An exception in a watcher is      *)
(* caught by angular and leaves the later selectors as they are.           *)
(***************************************************************************)
EXTENDS Integers, FiniteSets, Sequences

CONSTANTS LastDay,  \* the days are 1..LastDay
          Results,  \* Results[d]: the [test, language, client] directories of d
          Span,     \* how many days a chart compares: 5
          Ordered,  \* do the answers come in the order of the requests, those to
                    \* requests for no file included?
          Failing   \* may a file fail to load, or lack what its chart needs?

Days == 1..LastDay
None == "none"  \* undefined, for a test, language or client
NoDate == 0     \* undefined, for a date

ASSUME DaysAssumption == LastDay \in Nat \ {0} /\ Span \in Nat \ {0}
ASSUME ResultsAssumption ==
    /\ DOMAIN Results = Days
    /\ \A d \in Days : \A e \in Results[d] :
           e = [test |-> e.test, language |-> e.language, client |-> e.client]
    /\ \E d \in Days : Results[d] # {}
ASSUME AnswersAssumption == Ordered \in BOOLEAN /\ Failing \in BOOLEAN

VARIABLES arrived,       \* has results.json arrived?
          lastDates,     \* the days that charts compare; none before that
          selectors,     \* $scope.selectors: date, and the curVal of the others
          shown,         \* the selection that the lists of values belong to
          localStorage,  \* the last test, language and client, kept over a reload
          requests,      \* getAllSamples calls that are not answered yet
          charts,        \* $scope.charts: at most one [label, data, pinned]
          outcome        \* of the last answer: "shown", "threw", or "lost"

pageVars == <<arrived, lastDates>>
selVars == <<pageVars, selectors, shown, localStorage, requests, charts, outcome>>

Tests(d) == {e.test : e \in Results[d]}
Languages(d, t) == {e.language : e \in {x \in Results[d] : x.test = t}}
Clients(d, t, l) ==
    {e.client : e \in {x \in Results[d] : x.test = t /\ x.language = l}}

\* The days with results.
LastDates == {d \in Days : Results[d] # {}}

\* The last Span of a set of days.
LastOf(days) ==
    {d \in days : Cardinality({e \in days : e > d}) < Span}

Entry(t, l, c) == [test |-> t, language |-> l, client |-> c]

\* getLastData: the files of an entry, on the last of the days that have it.
Request(days, e) == [of |-> e, days |-> {d \in LastOf(days) : e \in Results[d]}]

\* Definitions named Bug... are faulty variants of the definition that follows.
\* The preferred value is taken whether the new list has it or not.
BugPreferred(key, vals) ==
    LET old == IF selectors[key] = None THEN localStorage[key] ELSE selectors[key]
    IN  IF old # None THEN {old} ELSE vals

\* getScopeVariable: the current or stored value, if the new list has it, else
\* the first of the list, which is any of them here.
Preferred(key, vals) ==
    LET old == IF selectors[key] = None THEN localStorage[key] ELSE selectors[key]
    IN  IF old \in vals THEN {old} ELSE vals

\* A client that stays the same is not taken for a change.
BugClientChanged(d, t, l, c) ==
    /\ selectors' = [date |-> d, test |-> t, language |-> l, client |-> c]
    /\ requests' = IF c = selectors.client THEN requests
                   ELSE Append(requests, Request(lastDates', Entry(t, l, c)))
    /\ UNCHANGED charts

\* clientChanged: the files of the last days are asked for, of which the callback that
\* selects the first date has made the list.
ClientChanged(d, t, l, c) ==
    /\ selectors' = [date |-> d, test |-> t, language |-> l, client |-> c]
    /\ requests' = Append(requests, Request(lastDates', Entry(t, l, c)))
    /\ UNCHANGED charts

LanguageChanged(d, t, l) ==
    /\ shown' = [date |-> d, test |-> t, language |-> l]
    /\ \E c \in Preferred("client", Clients(d, t, l)) :
          localStorage' = Entry(t, l, c) /\ ClientChanged(d, t, l, c)

TestChanged(d, t) ==
    \E l \in Preferred("language", Languages(d, t)) : LanguageChanged(d, t, l)

\* Only the one selector changes: a day with no results has no lists, and the
\* watcher throws.
Stuck(key, val) ==
    /\ selectors' = [selectors EXCEPT ![key] = val]
    /\ UNCHANGED <<shown, localStorage, requests, charts>>

DateChanged(d) ==
    IF Results[d] = {} THEN Stuck("date", d)
    ELSE \E t \in Preferred("test", Tests(d)) : TestChanged(d, t)

\* The user's choices.  The lists are those of the last change that succeeded.
PickDate(d) == arrived /\ d # selectors.date /\ DateChanged(d)

PickTest(t) ==
    /\ shown.date # NoDate /\ t \in Tests(shown.date) \ {selectors.test}
    /\ IF Results[selectors.date] = {} THEN Stuck("test", t)
       ELSE TestChanged(selectors.date, t)

PickLanguage(l) ==
    /\ shown.date # NoDate
    /\ l \in Languages(shown.date, shown.test) \ {selectors.language}
    /\ IF Results[selectors.date] = {} THEN Stuck("language", l)
       ELSE LanguageChanged(selectors.date, selectors.test, l)

\* This one asks no list of the date, so it works on a day without results.
PickClient(c) ==
    /\ shown.date # NoDate
    /\ c \in Clients(shown.date, shown.test, shown.language) \ {selectors.client}
    /\ ClientChanged(selectors.date, selectors.test, selectors.language, c)
    /\ localStorage' = [localStorage EXCEPT !.client = c]
    /\ UNCHANGED shown

\* decorateChartDef: a chart is marked when it is among the pinned ones.
Decorated(label, r, pins) == [label |-> label, data |-> r, pinned |-> label \in pins]

\* The tests and clients that chartFactory draws a chart for.
Draws(test, client) ==
    \/ test = "router_1"
    \/ test \in {"message_size", "p2p_soak"} /\ client \in {"receiver", "sender"}

ChartFactory(label, r, pins) ==
    IF Draws(label.test, label.client) THEN {Decorated(label, r, pins)} ELSE {}

\* It throws when the samples have no column of the test it is told of: those of
\* another test, or those of a report with no rows.
MayThrow(label, r) ==
    Draws(label.test, label.client) /\ (Failing \/ r.of.test # label.test)

\* gotAllSamples empties the page, then labels the charts with what is selected when
\* the answer comes, except for the client.  pins are the labels of the pinned charts.
GotAllSamples(i, pins) ==
    LET r     == requests[i]
        label == [date |-> selectors.date, test |-> selectors.test,
                  language |-> selectors.language, client |-> r.of.client]
    IN  \/ charts' = ChartFactory(label, r, pins) /\ outcome' = "shown"
        \/ MayThrow(label, r) /\ charts' = {} /\ outcome' = "threw"

\* A file that does not load: nothing is drawn, nothing is said.
GotError == Failing /\ outcome' = "lost" /\ UNCHANGED charts

\* A sequence with its i-th element taken out.
Splice(seq, i) == SubSeq(seq, 1, i - 1) \o SubSeq(seq, i + 1, Len(seq))

Answer(i, pins) ==
    /\ Ordered => i = 1
    /\ GotAllSamples(i, pins) \/ GotError
    /\ requests' = Splice(requests, i)
    /\ UNCHANGED <<pageVars, selectors, shown, localStorage>>
=============================================================================
