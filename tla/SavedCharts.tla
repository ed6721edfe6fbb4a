----------------------------- MODULE SavedCharts -----------------------------
(***************************************************************************)
(* html/perf3.js, the saved tab: charts that were pinned on the charts     *)
(* tab.  Their labels are kept in the browser's storage; after a reload    *)
(* the data is fetched again when the tab is shown, and all pinned charts  *)
(* are drawn once as many answers came as were counted before.             *)
(***************************************************************************)
EXTENDS Selectors

VARIABLES pinned,   \* $scope.pinned: a sequence of [label, data, drawn];
                    \* data is a set of at most one, as columns may be missing
          stored,   \* localStorage['pinned2']: their labels
          tab,      \* the tab that is active, kept in localStorage too
          batches,  \* the calls of showSavedCharts: [fetch, received]
          fetches,  \* getAllSamples calls of the saved tab: [label, data, batch]
          well      \* has nothing failed in the last of the batches?

savedVars == <<pinned, stored, tab, batches, fetches, well>>

Labels(pins) == {pins[i].label : i \in 1..Len(pins)}

EntryOf(label) == Entry(label.test, label.language, label.client)

\* The day of a saved chart and those before it.
DaysTo(label) == (label.date - Span + 1)..label.date

\* getLastData indexes results with each day: one that is not there throws.
Fetchable(label) == \A d \in DaysTo(label) : d \in LastDates

Drawn(pins) == [i \in 1..Len(pins) |->
                   [pins[i] EXCEPT !.drawn = @ \/ pins[i].data # {}]]

\* Definitions named Bug... are faulty variants of the definition that follows.

\* The charts whose data is not there.
Missing(pins) == {i \in 1..Len(pins) : pins[i].data = {}}

\* The count is of all the pinned charts.
BugFetch(pins) == Len(pins)

Fetch(pins) == Cardinality(Missing(pins))

\* The charts that showSavedCharts throws at: it ends at the first of them, after fetch
\* was set to the number of all that are missing.
Unfetchable(pins) == {i \in Missing(pins) : ~Fetchable(pins[i].label)}

ShowSavedCharts(pins) ==
    LET stop == Unfetchable(pins)
        sent == {i \in Missing(pins) : \A j \in stop : i < j}
    IN  /\ batches' = Append(batches, [fetch |-> Fetch(pins), received |-> 0])
        /\ fetches' = fetches \union
               {[label |-> pins[i].label, batch |-> Len(batches) + 1,
                 data |-> Request(DaysTo(pins[i].label), EntryOf(pins[i].label))] : i \in sent}
        /\ pinned' = IF Missing(pins) = {} THEN Drawn(pins) ELSE pins
        /\ well' = (stop = {})

\* A click on a tab; the watch of tabState.saved shows the saved charts, unless
\* results.json has not arrived.
OpenSaved ==
    /\ tab = "charts" /\ tab' = "saved"
    /\ IF arrived THEN ShowSavedCharts(pinned)
       ELSE UNCHANGED <<pinned, batches, fetches, well>>
    /\ UNCHANGED <<selVars, stored>>

OpenCharts ==
    /\ tab = "saved" /\ tab' = "charts"
    /\ UNCHANGED <<selVars, pinned, stored, batches, fetches, well>>

\* The first chart of that label is taken out of the list.
Place(pins, label) ==
    CHOOSE i \in 1..Len(pins) :
        pins[i].label = label /\ \A j \in 1..(i - 1) : pins[j].label # label

Without(pins, label) == Splice(pins, Place(pins, label))

\* The chart of the charts tab keeps its mark.
BugUnmark(label) == charts

\* Unpinned, the chart loses its mark on the charts tab as well.
Unmark(label) ==
    {IF c.label = label THEN [c EXCEPT !.pinned = FALSE] ELSE c : c \in charts}

LabelSeq(pins) == [i \in 1..Len(pins) |-> pins[i].label]

\* A removal is not saved.
BugSavePinned(pins) == IF Len(pins) < Len(stored) THEN stored ELSE LabelSeq(pins)

SavePinned(pins) == LabelSeq(pins)

IsPinned(label) == label \in Labels(pinned)

\* pinChart on the charts tab: a toggle.
PinChart ==
    /\ tab = "charts"
    /\ \E c \in charts :
          IF IsPinned(c.label)
          THEN pinned' = Without(pinned, c.label) /\ charts' = Unmark(c.label)
          ELSE /\ pinned' = Append(pinned,
                     [label |-> c.label, data |-> {c.data}, drawn |-> FALSE])
               /\ charts' = (charts \ {c}) \union {[c EXCEPT !.pinned = TRUE]}
    /\ stored' = SavePinned(pinned')
    /\ UNCHANGED <<pageVars, selectors, shown, localStorage, requests, outcome>>
    /\ UNCHANGED <<tab, batches, fetches, well>>

\* pinChart on the saved tab removes the chart.
Remove(label) ==
    /\ tab = "saved" /\ label \in Labels(pinned)
    /\ pinned' = Without(pinned, label)
    /\ charts' = Unmark(label)
    /\ stored' = SavePinned(pinned')
    /\ UNCHANGED <<pageVars, selectors, shown, localStorage, requests, outcome>>
    /\ UNCHANGED <<tab, batches, fetches, well>>

\* The samples of a saved chart: the last one of a batch draws them all.
GotSaved(f) ==
    LET pins == [i \in 1..Len(pinned) |->
                    IF pinned[i].label = f.label
                    THEN [pinned[i] EXCEPT !.data = {f.data}] ELSE pinned[i]]
        b    == batches[f.batch]
    IN  /\ batches' = [batches EXCEPT ![f.batch].received = @ + 1]
        /\ pinned' = IF b.received + 1 = b.fetch THEN Drawn(pins) ELSE pins
        /\ UNCHANGED well

\* A file does not load, or the chart factory throws: no answer is counted.
LostSaved(f) ==
    /\ Failing
    /\ well' = (well /\ f.batch # Len(batches))
    /\ UNCHANGED <<pinned, batches>>

AnswerSaved(f) ==
    /\ GotSaved(f) \/ LostSaved(f)
    /\ fetches' = fetches \ {f}
    /\ UNCHANGED <<selVars, stored, tab>>
=============================================================================
