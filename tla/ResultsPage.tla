------------------------------ MODULE ResultsPage ------------------------------
(***************************************************************************)
(* The results page of html/index.html: both tabs of perf3.js, a user who  *)
(* clicks faster than files load, and reloads of the page, over which only *)
(* the browser's storage is kept.                                          *)
(***************************************************************************)
EXTENDS SavedCharts

CONSTANTS MaxChanges,  \* bound: how many selections between two loads
          MaxPins,     \* bound: how many charts are pinned
          MaxBatches   \* bound: how often the saved tab is opened

ASSUME BoundsAssumption ==
    MaxChanges \in Nat /\ MaxPins \in Nat /\ MaxBatches \in Nat

VARIABLE changes  \* how many selections since the page was loaded

vars == <<selVars, savedVars, changes>>

Nothing == [date |-> NoDate, test |-> None, language |-> None, client |-> None]

Init ==
    /\ arrived = FALSE /\ lastDates = {}
    /\ selectors = Nothing /\ shown = [date |-> NoDate, test |-> None, language |-> None]
    /\ localStorage = Entry(None, None, None)
    /\ requests = <<>> /\ charts = {} /\ outcome = "none"
    /\ pinned = <<>> /\ stored = <<>> /\ tab = "charts" /\ batches = <<>> /\ fetches = {}
    /\ well = TRUE
    /\ changes = 0

\* results.json has arrived: the pins are restored, the saved tab is filled if it is
\* the active one, and the last date is selected; but an exception on the saved tab
\* leaves the page without dates.
Load ==
    LET pins == [i \in 1..Len(stored) |->
                    [label |-> stored[i], data |-> {}, drawn |-> FALSE]]
    IN  /\ ~arrived /\ arrived' = TRUE
        /\ IF tab = "saved" THEN ShowSavedCharts(pins)
           ELSE pinned' = pins /\ UNCHANGED <<batches, fetches, well>>
        /\ IF tab = "saved" /\ Unfetchable(pins) # {}
           THEN UNCHANGED <<lastDates, selectors, shown, localStorage, requests, charts>>
           ELSE /\ lastDates' = LastDates
                /\ DateChanged(CHOOSE d \in LastDates : \A e \in LastDates : e <= d)
        /\ UNCHANGED <<outcome, stored, tab, changes>>

\* The page is loaded again: what was on the way is lost.
Reload ==
    /\ arrived /\ arrived' = FALSE /\ lastDates' = {}
    /\ selectors' = Nothing /\ shown' = [date |-> NoDate, test |-> None, language |-> None]
    /\ requests' = <<>> /\ charts' = {} /\ outcome' = "none"
    /\ pinned' = <<>> /\ batches' = <<>> /\ fetches' = {} /\ well' = TRUE
    /\ changes' = 0
    /\ UNCHANGED <<localStorage, stored, tab>>

AllTests == {e.test : e \in UNION {Results[d] : d \in Days}}
AllLanguages == {e.language : e \in UNION {Results[d] : d \in Days}}
AllClients == {e.client : e \in UNION {Results[d] : d \in Days}}

Pick ==
    \/ \E d \in Days : PickDate(d)
    \/ \E t \in AllTests : PickTest(t)
    \/ \E l \in AllLanguages : PickLanguage(l)
    \/ \E c \in AllClients : PickClient(c)

Select ==
    /\ tab = "charts" /\ changes < MaxChanges /\ changes' = changes + 1
    /\ UNCHANGED <<pageVars, outcome, savedVars>>
    /\ Pick

Receive ==
    /\ \/ \E i \in 1..Len(requests) :
             Answer(i, Labels(pinned)) /\ UNCHANGED savedVars
       \/ \E f \in fetches : AnswerSaved(f)
    /\ UNCHANGED changes

Tabs ==
    /\ \/ Len(batches) < MaxBatches /\ OpenSaved
       \/ OpenCharts
    /\ UNCHANGED changes

Pins ==
    /\ \/ PinChart /\ Len(pinned') <= MaxPins
       \/ \E label \in Labels(pinned) : Remove(label)
    /\ UNCHANGED changes

Next == Load \/ Reload \/ Select \/ Receive \/ Tabs \/ Pins

Spec == Init /\ [][Next]_vars
-----------------------------------------------------------------------------
(* Safety *)

\* What may be selected, and what may be asked for: no chart compares more than
\* Span days.
TestValues == AllTests \union {None}
LanguageValues == AllLanguages \union {None}
ClientValues == AllClients \union {None}
Dates == Days \union {NoDate}

Selections == [date : Dates, test : TestValues, language : LanguageValues,
               client : ClientValues]
Entries == [test : TestValues, language : LanguageValues, client : ClientValues]
Requests == {r \in [of : Entries, days : SUBSET Days] : Cardinality(r.days) <= Span}
PinnedCharts == [label : Selections, data : SUBSET Requests, drawn : BOOLEAN]

\* The type of the page, with at most one chart on the charts tab.
TypeOK ==
    /\ selectors \in Selections /\ localStorage \in Entries
    /\ arrived \in BOOLEAN /\ lastDates \in {{}, LastDates}
    /\ shown \in [date : Dates, test : TestValues, language : LanguageValues]
    /\ requests \in Seq(Requests)
    /\ charts \in SUBSET [label : Selections, data : Requests, pinned : BOOLEAN]
    /\ \A c, e \in charts : c = e
    /\ outcome \in {"none", "shown", "threw", "lost"}
    /\ pinned \in Seq(PinnedCharts) /\ stored \in Seq(Selections)
    /\ batches \in Seq([fetch : Nat, received : Nat])
    /\ fetches \in SUBSET [label : Selections, batch : 1..Len(batches), data : Requests]
    /\ tab \in {"charts", "saved"} /\ well \in BOOLEAN /\ changes \in 0..MaxChanges

\* On a day with results, what is selected exists, however the user got there.
SelectionExists ==
    selectors.date \in LastDates => EntryOf(selectors) \in Results[selectors.date]

\* index.html:80 says of the list of charts: "for the above selected fields, show
\* the charts".  Once every request is answered, and unless the last file did not load,
\* each chart is of what is selected and labelled so, whatever failed before; and there
\* is none only if chartFactory draws none for the selection, or threw.
ChartsShowSelection ==
    requests = <<>> /\ outcome # "lost" /\ selectors.date \in LastDates =>
        /\ \A c \in charts : c.label = selectors /\ c.data.of = EntryOf(selectors)
        /\ charts = {} <=>
               outcome = "threw" \/ ~Draws(selectors.test, selectors.client)

\* A chart is marked as pinned exactly when it is in the list of pinned charts,
\* whichever tab it was pinned or removed on.
MarksAgree == \A c \in charts : c.pinned <=> c.label \in Labels(pinned)

\* The browser's storage has each pinned chart once, and nothing else.
PinsAreStored ==
    arrived => /\ stored = LabelSeq(pinned)
              /\ Cardinality(Labels(pinned)) = Len(pinned)

\* The fetches of the last visit of the saved tab that are not answered.
Due == {f \in fetches : f.batch = Len(batches)}

\* Once every request of a visit is answered, and none of them failed, the saved tab has
\* drawn all its charts, whatever failed or is late of earlier visits.
SavedChartsDrawn ==
    tab = "saved" /\ arrived /\ Due = {} /\ well =>
        \A i \in 1..Len(pinned) : pinned[i].drawn

(* The inductive invariant *)

\* Before results.json has arrived there is nothing on the page, and nothing on
\* the way to it; a list is shown only when a date is selected.
BlankInv ==
    /\ shown.date \in LastDates \union {NoDate}
    /\ selectors.date = NoDate => shown.date = NoDate
    /\ ~arrived =>
          /\ selectors.date = NoDate
          /\ requests = <<>> /\ charts = {} /\ pinned = <<>> /\ fetches = {}

\* On a day with results the lists of values are those of what is selected.
SelectionInv ==
    SelectionExists /\ (selectors.date \in LastDates =>
        shown = [date |-> selectors.date, test |-> selectors.test,
                 language |-> selectors.language])

\* What is selected is what the last request is for.
ChartsInv ==
    Ordered =>
        /\ ChartsShowSelection
        /\ requests # <<>> /\ selectors.date \in LastDates =>
               requests[Len(requests)].of = EntryOf(selectors)

\* No chart is pinned twice, nor stored twice.
Unique(labels) == \A i, j \in DOMAIN labels : labels[i] = labels[j] => i = j

PinsInv == MarksAgree /\ Unique(stored) /\ (arrived => stored = LabelSeq(pinned))

\* The last batch counts right, and fetches whatever has no data yet.
Counted ==
    LET last == batches[Len(batches)]
    IN  /\ batches # <<>>
        /\ last.received + Cardinality(Due) = last.fetch
        /\ IF Due = {} THEN \A i \in 1..Len(pinned) : pinned[i].drawn
           ELSE \A i \in Missing(pinned) : \E f \in Due : f.label = pinned[i].label

BatchInv == IsFiniteSet(fetches) /\ (tab = "saved" /\ arrived /\ well => Counted)

IInv == TypeOK /\ BlankInv /\ SelectionInv /\ ChartsInv /\ PinsInv /\ BatchInv
=============================================================================
