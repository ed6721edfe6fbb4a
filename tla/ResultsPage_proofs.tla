-------------------------- MODULE ResultsPage_proofs --------------------------
(***************************************************************************)
(* Proofs about ResultsPage, for any days and results, any number of days  *)
(* in a chart, any clicks, pins, reloads and failures.  Everything follows *)
(* from the invariant IInv of ResultsPage.                                 *)
(***************************************************************************)
EXTENDS ResultsPage, FiniteSetTheorems, SequenceTheorems, WellFoundedInduction, TLAPS

(* The days *)

\* A set of numbers has a least one.
LEMMA LeastOf ==
    ASSUME NEW S \in SUBSET Nat, S # {}
    PROVE  \E m \in S : \A n \in S : m <= n
<1>1. PICK m \in S : \A n \in S : ~(<<n, m>> \in OpToRel(<, Nat))
  BY NatLessThanWellFounded, WFMin
<1>2. \A n \in S : ~(n < m)
  BY <1>1 DEF OpToRel
<1> QED BY <1>2

\* The last of the days with results is one of them.
LEMMA LastDate ==
    /\ LastDates \subseteq Days
    /\ (CHOOSE d \in LastDates : \A e \in LastDates : e <= d) \in LastDates
<1> DEFINE S == {n \in Nat : \E d \in LastDates : n = LastDay - d}
<1>1. LastDates \subseteq Days /\ LastDates # {}
  BY ResultsAssumption DEF LastDates
<1>2. \A d \in Days : d \in Int /\ LastDay - d \in Nat
  BY DaysAssumption DEF Days
<1>3. S \in SUBSET Nat /\ S # {}
  BY <1>1, <1>2
<1>4. PICK m \in S : \A n \in S : m <= n
  BY <1>3, LeastOf
<1>5. PICK d \in LastDates : m = LastDay - d
  BY <1>4
<1>6. ASSUME NEW e \in LastDates PROVE e <= d
  <2>1. LastDay - e \in S /\ d \in Int /\ e \in Int
    BY <1>1, <1>2
  <2> HIDE DEF S
  <2>2. m <= LastDay - e
    BY <1>4, <2>1
  <2> QED BY <1>5, <2>1, <2>2, DaysAssumption
<1> QED BY <1>1, <1>6

\* Of any days no more than Span are the last.
LEMMA LastOfDays ==
    ASSUME NEW days \in SUBSET Days
    PROVE  /\ LastOf(days) \subseteq days /\ IsFiniteSet(LastOf(days))
           /\ Cardinality(LastOf(days)) <= Span
<1> DEFINE S == LastOf(days)
<1>1. IsFiniteSet(Days) /\ Days \subseteq Nat /\ Span \in Nat /\ Span > 0
  BY FS_Interval, DaysAssumption DEF Days
<1>2. S \subseteq days /\ IsFiniteSet(days) /\ IsFiniteSet(S)
  BY <1>1, FS_Subset DEF LastOf
<1>3. CASE S = {}
  BY <1>1, <1>2, <1>3, FS_EmptySet
<1>4. CASE S # {}
  <2>1. PICK m \in S : \A n \in S : m <= n
    BY <1>1, <1>2, <1>4, LeastOf
  <2> DEFINE T == {e \in days : e > m}
  <2>2. Cardinality(T) < Span
    BY DEF LastOf
  <2>3. S \ {m} \subseteq T
    <3>1. ASSUME NEW n \in S, n # m PROVE n > m
      <4>1. n \in Nat /\ m \in Nat
        BY <1>1, <1>2
      <4> QED BY <2>1, <3>1, <4>1
    <3> QED BY <1>2, <3>1
  <2>4. IsFiniteSet(T)
    BY <1>2, FS_Subset
  <2> HIDE DEF T, S
  <2>5. Cardinality(S \ {m}) <= Cardinality(T)
    BY <2>3, <2>4, FS_Subset
  <2>6. Cardinality(S \ {m}) = Cardinality(S) - 1
    BY <1>2, FS_RemoveElement
  <2>7. Cardinality(S) \in Nat /\ Cardinality(T) \in Nat
    BY <1>2, <2>4, FS_CardinalityType
  <2>8. Cardinality(S) <= Span
    BY <1>1, <2>2, <2>5, <2>6, <2>7
  <2> QED BY <1>2, <2>8 DEF S
<1> QED BY <1>3, <1>4

\* What is asked for is of the entry, and of no more than Span days.
LEMMA RequestType ==
    ASSUME NEW days \in SUBSET Days, NEW e \in Entries
    PROVE  Request(days, e) \in Requests /\ Request(days, e).of = e
<1> DEFINE S == {d \in LastOf(days) : e \in Results[d]}
<1>1. S \subseteq LastOf(days) /\ S \subseteq Days
  BY LastOfDays
<1>2. IsFiniteSet(S) /\ Cardinality(S) <= Cardinality(LastOf(days))
  BY <1>1, LastOfDays, FS_Subset
<1>3. Cardinality(S) \in Nat /\ Cardinality(LastOf(days)) \in Nat /\ Span \in Nat
  BY <1>2, LastOfDays, FS_CardinalityType, DaysAssumption
<1>4. Cardinality(S) <= Span
  BY <1>2, <1>3, LastOfDays
<1> QED BY <1>1, <1>4 DEF Request, Requests
-----------------------------------------------------------------------------
(* The selectors *)

\* A test, language and client picked one from the list of the other make an
\* entry of that day.
LEMMA ListsMakeEntry ==
    ASSUME NEW d \in Days, NEW t, NEW l, NEW c \in Clients(d, t, l)
    PROVE  /\ Entry(t, l, c) \in Results[d] /\ Entry(t, l, c) \in Entries
           /\ t \in AllTests /\ l \in AllLanguages /\ c \in AllClients
<1>1. PICK e \in Results[d] : e.test = t /\ e.language = l /\ e.client = c
  BY DEF Clients
<1>2. e = Entry(t, l, c)
  BY <1>1, ResultsAssumption DEF Entry
<1>3. t \in AllTests /\ l \in AllLanguages /\ c \in AllClients
  BY <1>1 DEF AllTests, AllLanguages, AllClients
<1> QED BY <1>1, <1>2, <1>3
        DEF Entries, Entry, TestValues, LanguageValues, ClientValues

\* The values of all four selectors, after a change that went through.
Selected(d, t, l, c) ==
    /\ selectors' = [date |-> d, test |-> t, language |-> l, client |-> c]
    /\ shown' = [date |-> d, test |-> t, language |-> l]
    /\ localStorage' \in Entries
    /\ requests' = Append(requests, Request(lastDates', Entry(t, l, c)))
    /\ UNCHANGED charts

Arrives(d) ==
    \E t \in AllTests, l \in AllLanguages, c \in AllClients :
        Entry(t, l, c) \in Results[d] /\ Selected(d, t, l, c)

LEMMA LanguageArrives ==
    ASSUME NEW d \in Days, NEW t, NEW l, LanguageChanged(d, t, l)
    PROVE  Arrives(d)
<1>1. PICK c \in Preferred("client", Clients(d, t, l)) :
          localStorage' = Entry(t, l, c) /\ ClientChanged(d, t, l, c)
  BY DEF LanguageChanged
<1>2. c \in Clients(d, t, l)
  BY DEF Preferred
<1>3. Selected(d, t, l, c)
  BY <1>1, <1>2, ListsMakeEntry DEF LanguageChanged, ClientChanged, Selected
<1> QED BY <1>2, <1>3, ListsMakeEntry DEF Arrives

LEMMA TestArrives ==
    ASSUME NEW d \in Days, NEW t, TestChanged(d, t)
    PROVE  Arrives(d)
BY LanguageArrives DEF TestChanged

LEMMA DateArrives ==
    ASSUME NEW d \in LastDates, DateChanged(d)
    PROVE  Arrives(d)
<1>1. d \in Days /\ Results[d] # {}
  BY DEF LastDates
<1> QED BY <1>1, TestArrives DEF DateChanged
-----------------------------------------------------------------------------
(* The lists of pinned charts *)

LEMMA SpliceProperties ==
    ASSUME NEW S, NEW seq \in Seq(S), NEW i \in 1..Len(seq)
    PROVE  /\ Splice(seq, i) \in Seq(S)
           /\ Len(Splice(seq, i)) = Len(seq) - 1
           /\ \A j \in 1..(Len(seq) - 1) :
                 Splice(seq, i)[j] = IF j < i THEN seq[j] ELSE seq[j + 1]
<1> DEFINE a == SubSeq(seq, 1, i - 1)
           b == SubSeq(seq, i + 1, Len(seq))
<1>1. Len(seq) \in Nat /\ i \in Int /\ 1 <= i /\ i <= Len(seq)
  BY LenProperties
<1>2. \A j \in 1..Len(seq) : seq[j] \in S
  BY ElementOfSeq
<1>3. /\ a \in Seq(S) /\ Len(a) = i - 1
      /\ \A j \in 1..(i - 1) : a[j] = seq[j]
  <2>1. /\ a \in Seq(S) /\ Len(a) = IF 1 <= i - 1 THEN (i - 1) - 1 + 1 ELSE 0
        /\ \A j \in 1..((i - 1) - 1 + 1) : a[j] = seq[1 + j - 1]
    BY <1>1, <1>2, SubSeqProperties
  <2>2. \A j \in 1..(i - 1) : a[j] = seq[j]
    <3> TAKE j \in 1..(i - 1)
    <3>1. j \in 1..((i - 1) - 1 + 1) /\ 1 + j - 1 = j BY <1>1
    <3> QED BY <2>1, <3>1
  <2>3. Len(a) = i - 1 BY <1>1, <2>1
  <2> QED BY <2>1, <2>2, <2>3
<1>4. /\ b \in Seq(S) /\ Len(b) = Len(seq) - i
      /\ \A j \in 1..(Len(seq) - i) : b[j] = seq[j + i]
  <2>1. /\ b \in Seq(S)
        /\ Len(b) = IF i + 1 <= Len(seq) THEN Len(seq) - (i + 1) + 1 ELSE 0
        /\ \A j \in 1..(Len(seq) - (i + 1) + 1) : b[j] = seq[(i + 1) + j - 1]
    BY <1>1, <1>2, SubSeqProperties
  <2>2. \A j \in 1..(Len(seq) - i) : b[j] = seq[j + i]
    <3> TAKE j \in 1..(Len(seq) - i)
    <3>1. j \in 1..(Len(seq) - (i + 1) + 1) /\ (i + 1) + j - 1 = j + i BY <1>1
    <3> QED BY <2>1, <3>1
  <2>3. Len(b) = Len(seq) - i BY <1>1, <2>1
  <2> QED BY <2>1, <2>2, <2>3
<1> HIDE DEF a, b
<1>5. /\ a \o b \in Seq(S) /\ Len(a \o b) = Len(a) + Len(b)
      /\ \A j \in 1..(Len(a) + Len(b)) :
            (a \o b)[j] = IF j <= Len(a) THEN a[j] ELSE b[j - Len(a)]
  BY <1>3, <1>4, ConcatProperties
<1>6. Len(a) + Len(b) = Len(seq) - 1
  BY <1>1, <1>3, <1>4
<1>7. ASSUME NEW j \in 1..(Len(seq) - 1)
      PROVE  (a \o b)[j] = IF j < i THEN seq[j] ELSE seq[j + 1]
  <2>1. j \in 1..(Len(a) + Len(b))
    BY <1>6
  <2>2. CASE j < i
    <3>1. j <= Len(a) /\ j \in 1..(i - 1) BY <1>1, <1>3, <2>2
    <3> QED BY <1>3, <1>5, <2>1, <2>2, <3>1
  <2>3. CASE ~(j < i)
    <3>1. /\ ~(j <= Len(a)) /\ j - Len(a) \in 1..(Len(seq) - i)
          /\ (j - Len(a)) + i = j + 1
      BY <1>1, <1>3, <2>3
    <3>2. b[j - Len(a)] = seq[(j - Len(a)) + i]
      BY <1>4, <3>1
    <3> QED BY <1>5, <2>1, <2>3, <3>1, <3>2
  <2> QED BY <2>2, <2>3
<1> QED BY <1>5, <1>6, <1>7 DEF Splice, a, b

\* The labels of a list of pinned charts.
LEMMA LabelSeqType ==
    ASSUME NEW pins \in Seq(PinnedCharts)
    PROVE  /\ LabelSeq(pins) \in Seq(Selections)
           /\ Len(LabelSeq(pins)) = Len(pins)
           /\ DOMAIN LabelSeq(pins) = 1..Len(pins)
           /\ \A i \in 1..Len(pins) :
                 LabelSeq(pins)[i] = pins[i].label /\ pins[i] \in PinnedCharts
           /\ Labels(pins) = {LabelSeq(pins)[i] : i \in 1..Len(LabelSeq(pins))}
<1>1. Len(pins) \in Nat /\ \A i \in 1..Len(pins) : pins[i] \in PinnedCharts
  BY LenProperties, ElementOfSeq
<1>2. LabelSeq(pins) \in [1..Len(pins) -> Selections]
  BY <1>1 DEF LabelSeq, PinnedCharts
<1>3. LabelSeq(pins) \in Seq(Selections)
  BY <1>1, <1>2, SeqDef
<1>4. Len(LabelSeq(pins)) = Len(pins)
  BY <1>1, <1>2, <1>3, LenProperties
<1> QED BY <1>1, <1>2, <1>3, <1>4 DEF LabelSeq, Labels

\* Another list with the same labels.
LEMMA SameLabels ==
    ASSUME NEW pins \in Seq(PinnedCharts), NEW q \in [1..Len(pins) -> PinnedCharts],
           \A i \in 1..Len(pins) : q[i].label = pins[i].label
    PROVE  /\ q \in Seq(PinnedCharts) /\ Len(q) = Len(pins)
           /\ LabelSeq(q) = LabelSeq(pins) /\ Labels(q) = Labels(pins)
<1>1. Len(pins) \in Nat
  BY LenProperties
<1>2. q \in Seq(PinnedCharts)
  BY <1>1, SeqDef
<1>3. Len(q) = Len(pins)
  BY <1>1, <1>2, LenProperties
<1> QED BY <1>2, <1>3 DEF LabelSeq, Labels

\* Drawing changes no label, and draws what has data.
LEMMA DrawnProperties ==
    ASSUME NEW pins \in Seq(PinnedCharts)
    PROVE  /\ Drawn(pins) \in Seq(PinnedCharts) /\ Len(Drawn(pins)) = Len(pins)
           /\ LabelSeq(Drawn(pins)) = LabelSeq(pins) /\ Labels(Drawn(pins)) = Labels(pins)
           /\ \A i \in 1..Len(pins) :
                 /\ Drawn(pins)[i].data = pins[i].data
                 /\ Drawn(pins)[i].drawn <=> pins[i].drawn \/ pins[i].data # {}
<1> DEFINE q == Drawn(pins)
<1>1. \A i \in 1..Len(pins) : pins[i] \in PinnedCharts
  BY ElementOfSeq
<1>2. \A i \in 1..Len(pins) :
          /\ q[i] \in PinnedCharts /\ q[i].label = pins[i].label
          /\ q[i].data = pins[i].data
          /\ q[i].drawn <=> pins[i].drawn \/ pins[i].data # {}
  BY <1>1 DEF Drawn, PinnedCharts
<1>3. q \in [1..Len(pins) -> PinnedCharts]
  BY <1>2 DEF Drawn
<1> HIDE DEF q
<1> QED BY <1>2, <1>3, SameLabels DEF q

\* Pinning one more chart.
LEMMA AppendPin ==
    ASSUME NEW pins \in Seq(PinnedCharts), NEW pin \in PinnedCharts,
           Unique(LabelSeq(pins)), pin.label \notin Labels(pins)
    PROVE  /\ Append(pins, pin) \in Seq(PinnedCharts)
           /\ Labels(Append(pins, pin)) = Labels(pins) \union {pin.label}
           /\ Unique(LabelSeq(Append(pins, pin)))
<1> DEFINE q == Append(pins, pin)
<1>1. /\ q \in Seq(PinnedCharts) /\ Len(q) = Len(pins) + 1 /\ Len(pins) \in Nat
      /\ \A i \in 1..Len(pins) : q[i] = pins[i]
      /\ q[Len(pins) + 1] = pin
  BY AppendProperties, LenProperties
<1> HIDE DEF q
<1>2. 1..Len(q) = (1..Len(pins)) \union {Len(pins) + 1}
  BY <1>1
<1>3. Labels(q) = Labels(pins) \union {pin.label}
  BY <1>1, <1>2 DEF Labels
<1>4. \A i \in 1..Len(pins) : LabelSeq(q)[i] = LabelSeq(pins)[i] /\ LabelSeq(q)[i] # pin.label
  BY <1>1, <1>2 DEF LabelSeq, Labels
<1>5. LabelSeq(q)[Len(pins) + 1] = pin.label /\ DOMAIN LabelSeq(q) = 1..Len(q)
  BY <1>1, <1>2 DEF LabelSeq
<1>6. DOMAIN LabelSeq(pins) = 1..Len(pins)
  BY DEF LabelSeq
<1>7. Unique(LabelSeq(q))
  BY <1>2, <1>4, <1>5, <1>6 DEF Unique
<1> QED BY <1>1, <1>3, <1>7 DEF q

\* Taking one out leaves the others.
LEMMA WithoutPin ==
    ASSUME NEW pins \in Seq(PinnedCharts), Unique(LabelSeq(pins)),
           NEW label \in Labels(pins)
    PROVE  /\ Without(pins, label) \in Seq(PinnedCharts)
           /\ Labels(Without(pins, label)) = Labels(pins) \ {label}
           /\ Unique(LabelSeq(Without(pins, label)))
           /\ \A j \in 1..Len(Without(pins, label)) :
                 \E i \in 1..Len(pins) : Without(pins, label)[j] = pins[i]
<1> DEFINE k == Place(pins, label)
           q == Without(pins, label)
<1>1. Len(pins) \in Nat /\ DOMAIN LabelSeq(pins) = 1..Len(pins)
      /\ \A i \in 1..Len(pins) : LabelSeq(pins)[i] = pins[i].label
  BY LenProperties, LabelSeqType
<1>2. \A i, j \in 1..Len(pins) : pins[i].label = pins[j].label => i = j
  BY <1>1 DEF Unique
<1>3. k \in 1..Len(pins) /\ pins[k].label = label
  <2>1. PICK i \in 1..Len(pins) : pins[i].label = label
    BY DEF Labels
  <2>2. \A j \in 1..(i - 1) : pins[j].label # label
    BY <1>1, <1>2, <2>1
  <2> QED BY <2>1, <2>2 DEF Place
<1> HIDE DEF k
<1>4. /\ q \in Seq(PinnedCharts) /\ Len(q) = Len(pins) - 1
      /\ \A j \in 1..(Len(pins) - 1) : q[j] = IF j < k THEN pins[j] ELSE pins[j + 1]
  BY <1>3, SpliceProperties DEF Without, k
<1> HIDE DEF q
<1>5. ASSUME NEW j \in 1..Len(q) PROVE \E i \in 1..Len(pins) : i # k /\ q[j] = pins[i]
  <2>1. CASE j < k
    BY <1>1, <1>3, <1>4, <2>1
  <2>2. CASE ~(j < k)
    <3>1. j + 1 \in 1..Len(pins) /\ j + 1 # k /\ j \in 1..(Len(pins) - 1)
      BY <1>1, <1>3, <1>4, <2>2
    <3> QED BY <1>4, <2>2, <3>1
  <2> QED BY <2>1, <2>2
<1>6. ASSUME NEW i \in 1..Len(pins), i # k PROVE \E j \in 1..Len(q) : q[j] = pins[i]
  <2>1. CASE i < k
    BY <1>1, <1>3, <1>4, <2>1
  <2>2. CASE i > k
    <3>1. i - 1 \in 1..(Len(pins) - 1) /\ ~(i - 1 < k) /\ (i - 1) + 1 = i
      BY <1>1, <1>3, <2>2
    <3> QED BY <1>4, <3>1
  <2> QED BY <1>3, <1>6, <2>1, <2>2
<1>7. Labels(q) = Labels(pins) \ {label}
  <2>1. ASSUME NEW x \in Labels(q) PROVE x \in Labels(pins) \ {label}
    BY <1>2, <1>3, <1>5 DEF Labels
  <2>2. ASSUME NEW x \in Labels(pins) \ {label} PROVE x \in Labels(q)
    BY <1>3, <1>6 DEF Labels
  <2> QED BY <2>1, <2>2
<1>8. Unique(LabelSeq(q))
  <2>1. ASSUME NEW i \in 1..Len(q), NEW j \in 1..Len(q), q[i].label = q[j].label
        PROVE  i = j
    <3>1. i \in 1..(Len(pins) - 1) /\ j \in 1..(Len(pins) - 1)
      BY <1>4
    <3>2. CASE i < k /\ j < k
      BY <1>1, <1>2, <1>3, <1>4, <2>1, <3>1, <3>2
    <3>3. CASE i < k /\ ~(j < k)
      <4>1. i = j + 1
        BY <1>1, <1>2, <1>3, <1>4, <2>1, <3>1, <3>3
      <4> QED BY <1>3, <3>1, <3>3, <4>1
    <3>4. CASE ~(i < k) /\ j < k
      <4>1. i + 1 = j
        BY <1>1, <1>2, <1>3, <1>4, <2>1, <3>1, <3>4
      <4> QED BY <1>3, <3>1, <3>4, <4>1
    <3>5. CASE ~(i < k) /\ ~(j < k)
      <4>1. pins[i + 1].label = pins[j + 1].label
        BY <1>4, <2>1, <3>5
      <4>2. i + 1 \in 1..Len(pins) /\ j + 1 \in 1..Len(pins)
        BY <1>3, <3>1
      <4>3. i + 1 = j + 1
        BY <1>2, <4>1, <4>2
      <4> QED BY <3>1, <4>3
    <3> QED BY <3>2, <3>3, <3>4, <3>5
  <2>2. /\ DOMAIN LabelSeq(q) = 1..Len(q)
        /\ \A i \in 1..Len(q) : LabelSeq(q)[i] = q[i].label
    BY DEF LabelSeq
  <2> QED BY <2>1, <2>2 DEF Unique
<1> QED BY <1>4, <1>5, <1>7, <1>8 DEF q
-----------------------------------------------------------------------------
(* Selections *)

\* A change that went through leaves the lists and the last request in order.
LEMMA ArrivesInOrder ==
    ASSUME TypeOK, lastDates' \in {{}, LastDates}, NEW d \in LastDates, Arrives(d)
    PROVE  /\ selectors' \in Selections /\ localStorage' \in Entries
           /\ shown' \in [date : Dates, test : TestValues, language : LanguageValues]
           /\ requests' \in Seq(Requests) /\ charts' = charts
           /\ selectors'.date = d /\ shown'.date = d /\ SelectionInv' /\ ChartsInv'
<1>1. PICK t \in AllTests, l \in AllLanguages, c \in AllClients :
          Entry(t, l, c) \in Results[d] /\ Selected(d, t, l, c)
  BY DEF Arrives
<1> DEFINE r == Request(lastDates', Entry(t, l, c))
<1>2. d \in Days /\ d # NoDate /\ lastDates' \in SUBSET Days
  <2>1. lastDates' = {} \/ lastDates' = LastDates
    OBVIOUS
  <2>2. d \in Days /\ lastDates' \in SUBSET Days
    BY <2>1, LastDate
  <2> QED BY <2>2, DaysAssumption DEF Days, NoDate
<1>3. Entry(t, l, c) \in Entries
  BY DEF Entry, Entries, TestValues, LanguageValues, ClientValues
<1>4. r \in Requests /\ r.of = Entry(t, l, c)
  BY <1>2, <1>3, RequestType
<1> HIDE DEF r
<1>5. requests' = Append(requests, r) /\ requests \in Seq(Requests)
  BY <1>1 DEF Selected, TypeOK, r
<1>6. /\ requests' \in Seq(Requests) /\ requests' # <<>>
      /\ requests'[Len(requests')] = r
  BY <1>4, <1>5, AppendProperties
<1>7. /\ selectors' = [date |-> d, test |-> t, language |-> l, client |-> c]
      /\ shown' = [date |-> d, test |-> t, language |-> l]
      /\ localStorage' \in Entries /\ charts' = charts
  BY <1>1 DEF Selected
<1>8. /\ selectors' \in Selections
      /\ shown' \in [date : Dates, test : TestValues, language : LanguageValues]
  BY <1>2, <1>7 DEF Selections, Dates, TestValues, LanguageValues, ClientValues
<1>9. EntryOf(selectors)' = Entry(t, l, c)
  BY <1>7 DEF EntryOf, Entry
<1>10. SelectionInv'
  BY <1>1, <1>7, <1>9 DEF SelectionInv, SelectionExists
<1>11. ChartsInv'
  BY <1>4, <1>6, <1>9 DEF ChartsInv, ChartsShowSelection
<1>12. selectors'.date = d /\ shown'.date = d
  BY <1>7
<1> QED BY <1>6, <1>7, <1>8, <1>10, <1>11, <1>12

\* The part of IInv that a selection can disturb, and what it leaves alone.
LEMMA SelectStep ==
    ASSUME IInv, Select
    PROVE  IInv'
<1>1. /\ UNCHANGED <<arrived, lastDates, outcome>>
      /\ UNCHANGED <<pinned, stored, tab, batches, fetches, well>>
      /\ changes' = changes + 1 /\ changes < MaxChanges /\ Pick
  BY DEF Select, savedVars, pageVars
<1>2. TypeOK /\ BlankInv /\ SelectionInv /\ ChartsInv /\ PinsInv /\ BatchInv
  BY DEF IInv
<1>3. arrived /\ charts' = charts
  <2>1. arrived
    BY <1>1, <1>2 DEF Pick, PickDate, PickTest, PickLanguage, PickClient, BlankInv
  <2>2. ASSUME NEW d, NEW t, NEW l, NEW c, ClientChanged(d, t, l, c) PROVE charts' = charts
    BY <2>2 DEF ClientChanged
  <2> QED BY <1>1, <2>1, <2>2
          DEF Pick, PickDate, PickTest, PickLanguage, PickClient, Stuck, DateChanged,
              TestChanged, LanguageChanged
<1>d. /\ LastDates \subseteq Days /\ NoDate \notin Days /\ NoDate \notin LastDates
      /\ lastDates' \in {{}, LastDates} /\ lastDates' \in SUBSET Days
  <2>1. NoDate \notin Days
    BY DaysAssumption DEF Days, NoDate
  <2>2. lastDates' = lastDates /\ lastDates \in {{}, LastDates}
    BY <1>1, <1>2 DEF TypeOK
  <2> QED BY <2>1, <2>2, LastDate
<1>4. ASSUME /\ selectors' \in Selections /\ localStorage' \in Entries
             /\ shown' \in [date : Dates, test : TestValues, language : LanguageValues]
             /\ requests' \in Seq(Requests)
             /\ selectors'.date \in Days /\ shown'.date \in LastDates \union {NoDate}
             /\ SelectionInv' /\ ChartsInv'
      PROVE  IInv'
  <2>1. TypeOK'
    BY <1>1, <1>2, <1>3, <1>4, BoundsAssumption DEF TypeOK, LastDates
  <2>2. BlankInv'
    BY <1>1, <1>3, <1>4, <1>d DEF BlankInv, LastDates
  <2>3. PinsInv'
    BY <1>1, <1>2, <1>3 DEF PinsInv, MarksAgree, Unique, Labels, LabelSeq
  <2>4. BatchInv'
    BY <1>1, <1>2, <1>3 DEF BatchInv, Counted, Due, Missing
  <2> QED BY <1>4, <2>1, <2>2, <2>3, <2>4 DEF IInv
<1>5. ASSUME NEW d \in LastDates, Arrives(d) PROVE IInv'
  BY <1>2, <1>4, <1>5, <1>d, ArrivesInOrder
<1>6. /\ shown.date \in LastDates \union {NoDate}
      /\ shown.date # NoDate => shown.date \in LastDates /\ selectors.date \in Days
  BY <1>2 DEF BlankInv, TypeOK, Selections, Dates
<1>7. ASSUME UNCHANGED <<shown, localStorage, requests>>, selectors' \in Selections,
             selectors'.date \in Days \ LastDates
      PROVE  IInv'
  <2>1. SelectionInv' /\ ChartsInv'
    BY <1>7 DEF SelectionInv, SelectionExists, ChartsInv, ChartsShowSelection, LastDates
  <2> QED BY <1>2, <1>4, <1>6, <1>7, <2>1 DEF TypeOK
<1>8. ASSUME NEW d \in Days, PickDate(d) PROVE IInv'
  <2>1. CASE Results[d] = {}
    <3>1. Stuck("date", d)
      BY <1>8, <2>1 DEF PickDate, DateChanged
    <3>2. selectors' \in Selections /\ selectors'.date = d
      BY <1>2, <3>1 DEF Stuck, TypeOK, Selections, Dates
    <3> QED BY <1>7, <2>1, <3>1, <3>2 DEF Stuck, LastDates
  <2>2. CASE Results[d] # {}
    <3>1. d \in LastDates
      BY <2>2 DEF LastDates
    <3> QED BY <1>5, <1>8, <3>1, DateArrives DEF PickDate
  <2> QED BY <2>1, <2>2
<1>9. ASSUME NEW t \in AllTests, PickTest(t) PROVE IInv'
  <2>0. selectors.date \in Days
    BY <1>6, <1>9 DEF PickTest
  <2>1. CASE Results[selectors.date] = {}
    <3>1. Stuck("test", t)
      BY <1>9, <2>1 DEF PickTest
    <3>2. selectors' \in Selections /\ selectors'.date = selectors.date
      BY <1>2, <3>1 DEF Stuck, TypeOK, Selections, TestValues
    <3> QED BY <1>7, <2>0, <2>1, <3>1, <3>2 DEF Stuck, LastDates
  <2>2. CASE Results[selectors.date] # {}
    <3>1. selectors.date \in LastDates /\ TestChanged(selectors.date, t)
      BY <1>9, <2>0, <2>2 DEF PickTest, LastDates
    <3> QED BY <1>5, <2>0, <3>1, TestArrives
  <2> QED BY <2>1, <2>2
<1>10. ASSUME NEW l \in AllLanguages, PickLanguage(l) PROVE IInv'
  <2>0. selectors.date \in Days
    BY <1>6, <1>10 DEF PickLanguage
  <2>1. CASE Results[selectors.date] = {}
    <3>1. Stuck("language", l)
      BY <1>10, <2>1 DEF PickLanguage
    <3>2. selectors' \in Selections /\ selectors'.date = selectors.date
      BY <1>2, <3>1 DEF Stuck, TypeOK, Selections, LanguageValues
    <3> QED BY <1>7, <2>0, <2>1, <3>1, <3>2 DEF Stuck, LastDates
  <2>2. CASE Results[selectors.date] # {}
    <3>1. selectors.date \in LastDates
          /\ LanguageChanged(selectors.date, selectors.test, l)
      BY <1>10, <2>0, <2>2 DEF PickLanguage, LastDates
    <3> QED BY <1>5, <2>0, <3>1, LanguageArrives
  <2> QED BY <2>1, <2>2
<1>11. ASSUME NEW c \in AllClients, PickClient(c) PROVE IInv'
  <2> DEFINE t == selectors.test
             l == selectors.language
             e == Entry(t, l, c)
  <2>1. /\ selectors' = [date |-> selectors.date, test |-> t, language |-> l, client |-> c]
        /\ requests' = Append(requests, Request(lastDates', e))
        /\ localStorage' = [localStorage EXCEPT !.client = c] /\ shown' = shown
        /\ c \in Clients(shown.date, shown.test, shown.language)
        /\ selectors.date \in Days
    BY <1>6, <1>11 DEF PickClient, ClientChanged
  <2>2. selectors' \in Selections /\ localStorage' \in Entries /\ e \in Entries
    BY <1>2, <2>1 DEF TypeOK, Selections, Entries, ClientValues, Entry
  <2>3. CASE selectors.date \in LastDates
    <3>1. c \in Clients(selectors.date, t, l)
      BY <1>2, <2>1, <2>3 DEF SelectionInv
    <3>2. Selected(selectors.date, t, l, c)
      BY <1>2, <1>3, <2>1, <2>2, <2>3 DEF Selected, SelectionInv
    <3> QED BY <1>5, <2>1, <2>3, <3>1, <3>2, ListsMakeEntry DEF Arrives
  <2>4. CASE selectors.date \notin LastDates
    <3>1. Request(lastDates', e) \in Requests
      BY <1>d, <2>2, RequestType
    <3>2. requests' \in Seq(Requests)
      BY <1>2, <2>1, <3>1, AppendProperties DEF TypeOK
    <3>3. selectors'.date = selectors.date
      BY <2>1
    <3>4. SelectionInv' /\ ChartsInv'
      BY <2>4, <3>3 DEF SelectionInv, SelectionExists, ChartsInv, ChartsShowSelection,
         LastDates
    <3>5. shown' \in [date : Dates, test : TestValues, language : LanguageValues]
          /\ shown'.date \in LastDates \union {NoDate}
      BY <1>2, <1>6, <2>1 DEF TypeOK
    <3> QED BY <1>4, <2>1, <2>2, <3>2, <3>3, <3>4, <3>5
  <2> QED BY <2>3, <2>4
<1> QED BY <1>1, <1>8, <1>9, <1>10, <1>11 DEF Pick
-----------------------------------------------------------------------------
(* Answers on the charts tab *)

LEMMA AnswerStep ==
    ASSUME IInv, NEW i \in 1..Len(requests), Answer(i, Labels(pinned)),
           UNCHANGED savedVars, UNCHANGED changes
    PROVE  IInv'
<1> DEFINE r == requests[i]
           label == [date |-> selectors.date, test |-> selectors.test,
                     language |-> selectors.language, client |-> r.of.client]
           made == Decorated(label, r, Labels(pinned))
<1>1. /\ UNCHANGED <<arrived, lastDates, selectors, shown, localStorage>>
      /\ UNCHANGED <<pinned, stored, tab, batches, fetches, well, changes>>
      /\ requests' = Splice(requests, i) /\ (Ordered => i = 1)
  BY DEF Answer, savedVars, pageVars
<1>2. TypeOK /\ BlankInv /\ SelectionInv /\ ChartsInv /\ PinsInv /\ BatchInv
  BY DEF IInv
<1>3. /\ requests \in Seq(Requests) /\ r \in Requests /\ Len(requests) \in Nat
      /\ requests' \in Seq(Requests) /\ Len(requests') = Len(requests) - 1
      /\ \A j \in 1..(Len(requests) - 1) :
            requests'[j] = IF j < i THEN requests[j] ELSE requests[j + 1]
  <2>1. requests \in Seq(Requests)
    BY <1>2 DEF TypeOK
  <2> HIDE DEF r
  <2>2. r \in Requests /\ Len(requests) \in Nat
    BY <2>1, ElementOfSeq, LenProperties DEF r
  <2> QED BY <1>1, <2>1, <2>2, SpliceProperties
<1>4. \/ charts' = {made} /\ outcome' = "shown" /\ Draws(selectors.test, r.of.client)
      \/ charts' = {} /\ outcome' = "shown" /\ ~Draws(selectors.test, r.of.client)
      \/ charts' = {} /\ outcome' = "threw"
      \/ charts' = charts /\ outcome' = "lost"
  <2>1. CASE GotAllSamples(i, Labels(pinned))
    <3>1. \/ charts' = ChartFactory(label, r, Labels(pinned)) /\ outcome' = "shown"
          \/ charts' = {} /\ outcome' = "threw"
      BY <2>1 DEF GotAllSamples
    <3>2. ChartFactory(label, r, Labels(pinned)) =
             IF Draws(label.test, label.client) THEN {made} ELSE {}
      BY DEF ChartFactory
    <3>3. label.test = selectors.test /\ label.client = r.of.client
      OBVIOUS
    <3> HIDE DEF r, label, made
    <3> QED BY <3>1, <3>2, <3>3
  <2>2. CASE GotError
    BY <2>2 DEF GotError
  <2> QED BY <2>1, <2>2 DEF Answer
<1>5. /\ made \in [label : Selections, data : Requests, pinned : BOOLEAN]
      /\ made.label = label /\ made.data = r /\ (made.pinned <=> label \in Labels(pinned))
  <2>1. label \in Selections
    BY <1>2, <1>3 DEF TypeOK, Selections, Requests, Entries
  <2> DEFINE p == label \in Labels(pinned)
  <2>2. p \in BOOLEAN
    OBVIOUS
  <2>3. made = [label |-> label, data |-> r, pinned |-> p]
    BY DEF Decorated
  <2> HIDE DEF r, label, made
  <2>4. (made.pinned <=> p) /\ made.label = label /\ made.data = r
    BY <2>3
  <2>5. ASSUME NEW q \in BOOLEAN, made = [label |-> label, data |-> r, pinned |-> q]
        PROVE  made \in [label : Selections, data : Requests, pinned : BOOLEAN]
    BY <1>3, <2>1, <2>5
  <2>6. made \in [label : Selections, data : Requests, pinned : BOOLEAN]
    <3> HIDE DEF p
    <3> QED BY <2>2, <2>3, <2>5
  <2> QED BY <2>4, <2>6
<1> HIDE DEF made
<1>6. TypeOK'
  <2>1. /\ charts' \in SUBSET [label : Selections, data : Requests, pinned : BOOLEAN]
        /\ \A c, e \in charts' : c = e
    BY <1>2, <1>4, <1>5 DEF TypeOK
  <2> QED BY <1>1, <1>2, <1>3, <1>4, <2>1 DEF TypeOK
<1>7. BlankInv'
  <2>1. arrived
    BY <1>2, <1>3 DEF BlankInv
  <2> QED BY <1>1, <1>2, <2>1 DEF BlankInv, LastDates
<1>8. SelectionInv'
  BY <1>1, <1>2 DEF SelectionInv, SelectionExists
<1>9. ChartsInv'
  <2> SUFFICES ASSUME Ordered PROVE ChartsInv'
    BY DEF ChartsInv
  <2>1. i = 1
    BY <1>1
  <2>2. ASSUME selectors.date \in LastDates
        PROVE  requests[Len(requests)].of = EntryOf(selectors)
    BY <1>2, <1>3, <2>2 DEF ChartsInv
  <2>3. ASSUME requests' = <<>>, outcome' # "lost", selectors.date \in LastDates
        PROVE  /\ \A c \in charts' : c.label = selectors /\ c.data.of = EntryOf(selectors)
               /\ charts' = {} <=>
                      outcome' = "threw" \/ ~Draws(selectors.test, selectors.client)
    <3>1. Len(requests) = 1
      BY <1>3, <2>3
    <3>2. r.of = EntryOf(selectors)
      BY <2>1, <2>2, <2>3, <3>1
    <3>3. r.of.client = selectors.client
      BY <3>2 DEF EntryOf, Entry
    <3>4. label = selectors
      BY <1>2, <3>3 DEF TypeOK, Selections
    <3>5. made.label = selectors /\ made.data.of = EntryOf(selectors)
      BY <1>5, <3>2, <3>4
    <3> HIDE DEF r, label
    <3> QED BY <1>4, <2>3, <3>3, <3>5
  <2>4. ASSUME requests' # <<>>, selectors.date \in LastDates
        PROVE  requests'[Len(requests')].of = EntryOf(selectors)
    <3>1. Len(requests') \in 1..(Len(requests) - 1)
      BY <1>3, <2>4, EmptySeq
    <3>2. requests'[Len(requests')] = requests[Len(requests)]
      BY <1>3, <2>1, <3>1
    <3> QED BY <2>2, <2>4, <3>2
  <2> QED BY <1>1, <2>3, <2>4 DEF ChartsInv, ChartsShowSelection, EntryOf, LastDates
<1>10. PinsInv'
  <2>1. MarksAgree'
    BY <1>1, <1>2, <1>4, <1>5 DEF PinsInv, MarksAgree, Labels
  <2> QED BY <1>1, <1>2, <2>1 DEF PinsInv, Unique, LabelSeq
<1>11. BatchInv'
  BY <1>1, <1>2, <1>4 DEF BatchInv, Counted, Due, Missing
<1> QED BY <1>6, <1>7, <1>8, <1>9, <1>10, <1>11 DEF IInv
-----------------------------------------------------------------------------
(* The saved tab *)

\* showSavedCharts starts a batch whose count is that of its fetches, unless one
\* of them cannot be made.
LEMMA BatchStarts ==
    ASSUME TypeOK, IsFiniteSet(fetches), NEW pins \in Seq(PinnedCharts),
           Unique(LabelSeq(pins)), ShowSavedCharts(pins)
    PROVE  /\ pinned' \in Seq(PinnedCharts)
           /\ LabelSeq(pinned') = LabelSeq(pins) /\ Labels(pinned') = Labels(pins)
           /\ batches' \in Seq([fetch : Nat, received : Nat])
           /\ fetches' \in SUBSET [label : Selections, batch : 1..Len(batches'),
                                   data : Requests]
           /\ IsFiniteSet(fetches') /\ well' \in BOOLEAN /\ (well' => Counted')
<1> DEFINE M == Missing(pins)
           stop == Unfetchable(pins)
           sent == {i \in M : \A j \in stop : i < j}
           b == Len(batches) + 1
           Ask(i) == [label |-> pins[i].label, batch |-> b,
                      data |-> Request(DaysTo(pins[i].label), EntryOf(pins[i].label))]
           asked == {Ask(i) : i \in sent}
<1>1. /\ batches' = Append(batches, [fetch |-> Cardinality(M), received |-> 0])
      /\ fetches' = fetches \union asked
      /\ pinned' = IF M = {} THEN Drawn(pins) ELSE pins
      /\ well' = (stop = {})
  BY DEF ShowSavedCharts, Fetch
<1>2. /\ Len(pins) \in Nat /\ Len(batches) \in Nat
      /\ \A i \in 1..Len(pins) : pins[i] \in PinnedCharts
      /\ batches \in Seq([fetch : Nat, received : Nat])
      /\ fetches \in SUBSET [label : Selections, batch : 1..Len(batches), data : Requests]
      /\ well \in BOOLEAN
  BY LenProperties, ElementOfSeq DEF TypeOK
<1>3. /\ M \subseteq 1..Len(pins) /\ IsFiniteSet(M) /\ Cardinality(M) \in Nat
  <2>1. M \subseteq 1..Len(pins)
    BY DEF Missing
  <2>2. IsFiniteSet(1..Len(pins))
    BY <1>2, FS_Interval
  <2> HIDE DEF M
  <2> QED BY <2>1, <2>2, FS_Subset, FS_CardinalityType
<1>4. sent \subseteq M /\ IsFiniteSet(sent) /\ \A i \in sent : i \in Int
  <2>1. sent \subseteq M
    OBVIOUS
  <2> HIDE DEF M, sent
  <2>2. IsFiniteSet(sent)
    BY <1>3, <2>1, FS_Subset
  <2>3. \A i \in sent : i \in Int
    BY <1>3, <2>1
  <2> QED BY <2>1, <2>2, <2>3
<1>5. ASSUME NEW i \in sent PROVE Ask(i) \in [label : Selections, batch : {b}, data : Requests]
  <2>1. i \notin stop
    BY <1>4
  <2>2. DaysTo(pins[i].label) \subseteq LastDates
    BY <1>4, <2>1 DEF Fetchable, Unfetchable
  <2>3. pins[i].label \in Selections /\ EntryOf(pins[i].label) \in Entries
    BY <1>2, <1>3, <1>4 DEF PinnedCharts, Selections, Entries, EntryOf, Entry
  <2>4. DaysTo(pins[i].label) \in SUBSET Days
    BY <2>2, LastDate
  <2>5. Request(DaysTo(pins[i].label), EntryOf(pins[i].label)) \in Requests
    BY <2>3, <2>4, RequestType
  <2> QED BY <2>3, <2>5
<1> DEFINE g == [i \in sent |-> Ask(i)]
<1>6. g \in Bijection(sent, asked)
  <2>1. g \in [sent -> asked] /\ \A x \in asked : \E i \in sent : g[i] = x
    OBVIOUS
  <2>2. ASSUME NEW i \in sent, NEW j \in sent, g[i] = g[j] PROVE i = j
    <3>1. pins[i].label = pins[j].label
      BY <2>2
    <3>2. i \in 1..Len(pins) /\ j \in 1..Len(pins)
      BY <1>3, <1>4
    <3> QED BY <3>1, <3>2, LabelSeqType DEF Unique
  <2> HIDE DEF g, asked, sent
  <2> QED BY <2>1, <2>2 DEF Bijection, Injection, Surjection, IsInjective
<1>7. IsFiniteSet(asked) /\ Cardinality(asked) = Cardinality(sent)
  <2> HIDE DEF g, asked, sent
  <2> QED BY <1>4, <1>6, FS_Bijection DEF ExistsBijection
<1>8. \A x \in asked : x.batch = b /\ x \in [label : Selections, batch : {b}, data : Requests]
  BY <1>5
<1> DEFINE new == [fetch |-> Cardinality(M), received |-> 0]
<1>9. /\ batches' \in Seq([fetch : Nat, received : Nat]) /\ Len(batches') = b
      /\ batches'[b] = new /\ batches' # <<>>
  <2>1. new \in [fetch : Nat, received : Nat]
    BY <1>3
  <2> HIDE DEF new
  <2>2. batches' = Append(batches, new)
    BY <1>1 DEF new
  <2> QED BY <1>2, <2>1, <2>2, AppendProperties
<1>10. IsFiniteSet(fetches')
  <2> HIDE DEF asked
  <2> QED BY <1>1, <1>7, FS_Union
<1>11. fetches' \in SUBSET [label : Selections, batch : 1..Len(batches'), data : Requests]
  <2>1. ASSUME NEW f \in fetches
        PROVE  f \in [label : Selections, batch : 1..b, data : Requests]
    BY <1>2, <2>1
  <2>2. ASSUME NEW f \in asked
        PROVE  f \in [label : Selections, batch : 1..b, data : Requests]
    <3>1. b \in 1..b BY <1>2
    <3> HIDE DEF asked, b
    <3> QED BY <1>8, <3>1
  <2> HIDE DEF asked, b
  <2> QED BY <1>1, <1>9, <2>1, <2>2
<1>12. /\ pinned' \in Seq(PinnedCharts)
       /\ LabelSeq(pinned') = LabelSeq(pins) /\ Labels(pinned') = Labels(pins)
  BY <1>1, DrawnProperties
<1>13. Due' = asked
  <2>1. \A f \in fetches : f.batch # b
    BY <1>2
  <2> HIDE DEF asked, b
  <2> QED BY <1>1, <1>8, <1>9, <2>1 DEF Due
<1>14. ASSUME well' PROVE Counted'
  <2>1. stop = {} /\ sent = M
    BY <1>1, <1>14
  <2>2. new.received + Cardinality(asked) = new.fetch
    <3>1. Cardinality(asked) = Cardinality(M)
      BY <1>7, <2>1
    <3> HIDE DEF M, asked, sent, stop
    <3> QED BY <1>3, <3>1
  <2>3. CASE M = {}
    <3>1. asked = {}
      BY <2>1, <2>3
    <3>2. \A i \in 1..Len(pins) : pins[i].data # {}
      BY <2>3 DEF Missing
    <3>3. \A i \in 1..Len(pinned') : pinned'[i].drawn
      BY <1>1, <2>3, <3>2, DrawnProperties
    <3> HIDE DEF asked, new, b
    <3> QED BY <1>9, <1>13, <2>2, <3>1, <3>3 DEF Counted
  <2>4. CASE M # {}
    <3>1. pinned' = pins
      BY <1>1, <2>4
    <3>2. asked # {} /\ \A i \in M : \E f \in asked : f.label = pins[i].label
      <4>1. ASSUME NEW i \in M PROVE Ask(i) \in asked /\ Ask(i).label = pins[i].label
        BY <2>1
      <4> HIDE DEF M, Ask, asked
      <4> QED BY <2>4, <4>1
    <3> HIDE DEF asked, new, b
    <3> QED BY <1>9, <1>13, <2>2, <3>1, <3>2 DEF Counted
  <2> QED BY <2>3, <2>4
<1>15. well' \in BOOLEAN
  BY <1>1
<1> QED BY <1>9, <1>10, <1>11, <1>12, <1>14, <1>15

\* What is left to show of a step that pins and removes nothing.
LEMMA SavedTabStep ==
    ASSUME IInv, arrived,
           UNCHANGED <<arrived, lastDates, selectors, shown, localStorage, requests, charts,
                       outcome, stored, changes>>,
           pinned' \in Seq(PinnedCharts),
           LabelSeq(pinned') = LabelSeq(pinned), Labels(pinned') = Labels(pinned),
           batches' \in Seq([fetch : Nat, received : Nat]),
           fetches' \in SUBSET [label : Selections, batch : 1..Len(batches'),
                                data : Requests],
           IsFiniteSet(fetches'), tab' \in {"charts", "saved"},
           well' \in BOOLEAN,
           tab' = "saved" /\ well' => Counted'
    PROVE  IInv'
<1>1. TypeOK /\ BlankInv /\ SelectionInv /\ ChartsInv /\ PinsInv /\ BatchInv
  BY DEF IInv
<1>2. TypeOK'
  BY <1>1 DEF TypeOK
<1>3. BlankInv' /\ SelectionInv'
  BY <1>1 DEF BlankInv, SelectionInv, SelectionExists
<1>4. ChartsInv'
  BY <1>1 DEF ChartsInv, ChartsShowSelection, EntryOf, LastDates
<1>5. PinsInv'
  BY <1>1 DEF PinsInv, MarksAgree, Unique
<1>6. BatchInv'
  BY <1>1 DEF BatchInv
<1> QED BY <1>2, <1>3, <1>4, <1>5, <1>6 DEF IInv

LEMMA AnswerSavedStep ==
    ASSUME IInv, NEW f \in fetches, AnswerSaved(f), UNCHANGED changes
    PROVE  IInv'
<1> DEFINE Chart == [fetch : Nat, received : Nat]
           n == Len(batches)
           b == batches[f.batch]
           Fill(i) == IF pinned[i].label = f.label
                      THEN [pinned[i] EXCEPT !.data = {f.data}] ELSE pinned[i]
           pins == [i \in 1..Len(pinned) |-> Fill(i)]
<1>1. /\ UNCHANGED <<arrived, lastDates, selectors, shown, localStorage, requests, charts,
                    outcome, stored, changes, tab>>
      /\ fetches' = fetches \ {f}
  BY DEF AnswerSaved, selVars, pageVars
<1>2. TypeOK /\ BlankInv /\ SelectionInv /\ ChartsInv /\ PinsInv /\ BatchInv
  BY DEF IInv
<1>3. arrived
  BY <1>2 DEF BlankInv
<1>4. /\ batches \in Seq(Chart) /\ n \in Nat /\ f.batch \in 1..n
      /\ f.label \in Selections /\ f.data \in Requests
      /\ pinned \in Seq(PinnedCharts) /\ tab \in {"charts", "saved"} /\ well \in BOOLEAN
      /\ fetches \in SUBSET [label : Selections, batch : 1..n, data : Requests]
  BY <1>2, LenProperties DEF TypeOK
<1>5. IsFiniteSet(fetches) /\ IsFiniteSet(fetches')
  BY <1>1, <1>2, FS_RemoveElement DEF BatchInv
<1>6. CASE LostSaved(f)
  <2>1. UNCHANGED <<pinned, batches>> /\ well' = (well /\ f.batch # n)
    BY <1>6 DEF LostSaved
  <2>2. /\ LabelSeq(pinned') = LabelSeq(pinned) /\ Labels(pinned') = Labels(pinned)
        /\ pinned' \in Seq(PinnedCharts) /\ batches' \in Seq(Chart)
        /\ well' \in BOOLEAN /\ tab' \in {"charts", "saved"}
        /\ fetches' \in SUBSET [label : Selections, batch : 1..Len(batches'), data : Requests]
    <3> HIDE DEF n
    <3>1. Len(batches') = n BY <2>1 DEF n
    <3> QED BY <1>1, <1>4, <2>1, <3>1 DEF LabelSeq, Labels
  <2>3. ASSUME tab' = "saved", well' PROVE Counted'
    <3>1. Counted /\ f.batch # n
      BY <1>1, <1>2, <1>3, <2>1, <2>3 DEF BatchInv
    <3>2. Due' = Due
      BY <1>1, <2>1, <3>1 DEF Due
    <3> QED BY <2>1, <3>1, <3>2 DEF Counted, Missing
  <2> QED BY <1>1, <1>3, <1>5, <2>2, <2>3, SavedTabStep
<1>7. CASE GotSaved(f)
  <2>1. /\ batches' = [batches EXCEPT ![f.batch].received = @ + 1]
        /\ pinned' = (IF b.received + 1 = b.fetch THEN Drawn(pins) ELSE pins)
        /\ well' = well
    BY <1>7 DEF GotSaved
  <2>2. \A i \in 1..Len(pinned) : pinned[i] \in PinnedCharts
    BY <1>4, ElementOfSeq
  <2>3. \A i \in 1..Len(pinned) :
            /\ pins[i] \in PinnedCharts /\ pins[i].label = pinned[i].label
            /\ pins[i].drawn = pinned[i].drawn
            /\ pins[i].data = IF pinned[i].label = f.label THEN {f.data} ELSE pinned[i].data
    BY <1>4, <2>2 DEF PinnedCharts
  <2>4. pins \in [1..Len(pinned) -> PinnedCharts]
    BY <2>3
  <2> HIDE DEF pins
  <2>5. /\ pins \in Seq(PinnedCharts) /\ Len(pins) = Len(pinned)
        /\ LabelSeq(pins) = LabelSeq(pinned) /\ Labels(pins) = Labels(pinned)
    BY <1>4, <2>3, <2>4, SameLabels
  <2>6. /\ pinned' \in Seq(PinnedCharts) /\ Len(pinned') = Len(pinned)
        /\ LabelSeq(pinned') = LabelSeq(pinned) /\ Labels(pinned') = Labels(pinned)
        /\ \A i \in 1..Len(pinned) :
              pinned'[i].data = pins[i].data /\ (pins[i].drawn => pinned'[i].drawn)
        /\ b.received + 1 = b.fetch =>
              \A i \in 1..Len(pinned) : pins[i].data # {} => pinned'[i].drawn
    BY <2>1, <2>5, DrawnProperties
  <2>7. b \in Chart /\ DOMAIN batches = 1..n
    BY <1>4, ElementOfSeq, LenProperties
  <2>8. /\ batches' \in Seq(Chart) /\ Len(batches') = n
        /\ \A j \in 1..n : batches'[j] = IF j = f.batch
                                       THEN [b EXCEPT !.received = b.received + 1]
                                       ELSE batches[j]
    <3> DEFINE c == [b EXCEPT !.received = b.received + 1]
    <3>1. c \in Chart
      BY <2>7
    <3>2. batches' = [batches EXCEPT ![f.batch] = c]
      BY <2>1
    <3> HIDE DEF c, b, n
    <3>3. batches' \in Seq(Chart) /\ Len(batches') = Len(batches)
      BY <1>4, <3>1, <3>2, ExceptSeq DEF n
    <3>4. \A j \in 1..n : batches'[j] = IF j = f.batch THEN c ELSE batches[j]
      BY <1>4, <2>7, <3>2
    <3> QED BY <3>3, <3>4 DEF c, n
  <2>9. fetches' \in SUBSET [label : Selections, batch : 1..Len(batches'), data : Requests]
    <3> HIDE DEF n
    <3> QED BY <1>1, <1>4, <2>8
  <2>10. ASSUME tab' = "saved", well' PROVE Counted'
    <3>1. Counted
      BY <1>1, <1>2, <1>3, <2>1, <2>10 DEF BatchInv
    <3> DEFINE last == batches[n]
    <3>2. /\ batches # <<>> /\ last.received + Cardinality(Due) = last.fetch
          /\ IF Due = {} THEN \A i \in 1..Len(pinned) : pinned[i].drawn
             ELSE \A i \in Missing(pinned) : \E g \in Due : g.label = pinned[i].label
      BY <3>1 DEF Counted
    <3>3. Missing(pinned') \subseteq Missing(pinned)
      BY <2>3, <2>6 DEF Missing
    <3>4. Due' = Due \ {f}
      BY <1>1, <2>8 DEF Due
    <3>5. n \in 1..n /\ batches' # <<>>
      BY <1>4, <2>8, <3>2, EmptySeq
    <3>6. IsFiniteSet(Due) /\ Cardinality(Due) \in Nat
      <4>1. Due \subseteq fetches
        BY DEF Due
      <4> QED BY <1>5, <4>1, FS_Subset, FS_CardinalityType
    <3>7. /\ batches'[n].fetch = last.fetch
          /\ batches'[n].received = IF f.batch = n THEN last.received + 1 ELSE last.received
      <4>1. last \in Chart
        BY <1>4, <3>5, ElementOfSeq
      <4> HIDE DEF n
      <4> QED BY <2>7, <2>8, <3>5, <4>1
    <3>8. CASE f.batch = n
      <4>1. f \in Due
        BY <3>8 DEF Due
      <4>2. Cardinality(Due') = Cardinality(Due) - 1
        BY <3>4, <3>6, <4>1, FS_RemoveElement
      <4>3. last \in Chart
        BY <1>4, <3>5, ElementOfSeq
      <4>4. batches'[n].received + Cardinality(Due') = batches'[n].fetch
        <5>1. last.received \in Nat /\ last.fetch \in Nat
          BY <4>3
        <5> HIDE DEF last, n
        <5> QED BY <3>2, <3>6, <3>7, <3>8, <4>2, <5>1
      <4>5. \A i \in Missing(pinned) : \E g \in Due : g.label = pinned[i].label
        BY <3>2, <4>1
      <4>6. ASSUME NEW i \in Missing(pinned') PROVE \E g \in Due' : g.label = pinned'[i].label
        <5>1. i \in 1..Len(pinned) /\ pinned'[i].data = {} /\ i \in Missing(pinned)
          BY <2>6, <3>3 DEF Missing
        <5>2. pinned[i].label # f.label
          BY <2>3, <2>6, <5>1
        <5>3. PICK g \in Due : g.label = pinned[i].label
          BY <4>5, <5>1
        <5>4. pinned'[i].label = pinned[i].label
          BY <1>4, <2>6, <5>1, LabelSeqType
        <5> QED BY <3>4, <5>2, <5>3, <5>4
      <4>7. ASSUME Due' = {}, NEW i \in 1..Len(pinned') PROVE pinned'[i].drawn
        <5>1. b.received + 1 = b.fetch
          <6>1. Cardinality(Due') = 0
            BY <4>7, FS_EmptySet
          <6>2. b.received \in Nat
            BY <2>7
          <6> HIDE DEF b, n
          <6>3. b = last
            BY <3>8 DEF b
          <6> HIDE DEF last
          <6> QED BY <3>7, <3>8, <4>4, <6>1, <6>2, <6>3
        <5>2. i \in 1..Len(pinned)
          BY <2>6
        <5>3. pins[i].data # {}
          <6>1. i \notin Missing(pinned')
            BY <4>6, <4>7
          <6> QED BY <2>6, <5>2, <6>1 DEF Missing
        <5> QED BY <2>6, <5>1, <5>2, <5>3
      <4> HIDE DEF last
      <4> QED BY <2>8, <3>5, <4>4, <4>6, <4>7 DEF Counted
    <3>9. CASE f.batch # n
      <4>1. Due' = Due
        BY <3>4, <3>9 DEF Due
      <4>2. batches'[n].received + Cardinality(Due') = batches'[n].fetch
        BY <3>2, <3>7, <3>9, <4>1
      <4>3. ASSUME Due = {}, NEW i \in 1..Len(pinned') PROVE pinned'[i].drawn
        BY <2>3, <2>6, <3>2, <4>3
      <4>4. ASSUME Due # {}, NEW i \in Missing(pinned')
            PROVE  \E g \in Due : g.label = pinned'[i].label
        <5>1. i \in 1..Len(pinned) /\ i \in Missing(pinned)
          BY <3>3 DEF Missing
        <5>2. pinned'[i].label = pinned[i].label
          BY <1>4, <2>6, <5>1, LabelSeqType
        <5> QED BY <3>2, <4>4, <5>1, <5>2
      <4> HIDE DEF last
      <4> QED BY <2>8, <3>5, <4>1, <4>2, <4>3, <4>4 DEF Counted
    <3> QED BY <3>8, <3>9
  <2> QED BY <1>1, <1>3, <1>4, <1>5, <2>1, <2>6, <2>8, <2>9, <2>10, SavedTabStep
<1> QED BY <1>6, <1>7 DEF AnswerSaved

LEMMA TabsStep ==
    ASSUME IInv, Tabs
    PROVE  IInv'
<1>1. TypeOK /\ BlankInv /\ PinsInv /\ BatchInv
  BY DEF IInv
<1>2. UNCHANGED changes /\ (OpenSaved \/ OpenCharts)
  BY DEF Tabs
<1>s. /\ UNCHANGED <<arrived, lastDates, selectors, shown, localStorage, requests, charts,
                    outcome, stored>>
      /\ tab' \in {"charts", "saved"}
  BY <1>2 DEF OpenSaved, OpenCharts, selVars, pageVars
<1>b. ASSUME ~arrived, UNCHANGED <<pinned, batches, fetches, well>> PROVE IInv'
  <2>1. TypeOK' /\ BlankInv'
    BY <1>1, <1>2, <1>s, <1>b DEF TypeOK, BlankInv, LastDates
  <2>2. SelectionInv' /\ ChartsInv'
    BY <1>s DEF IInv, SelectionInv, SelectionExists, ChartsInv, ChartsShowSelection, EntryOf, LastDates
  <2>3. PinsInv' /\ BatchInv'
    BY <1>1, <1>s, <1>b DEF PinsInv, MarksAgree, Unique, Labels, LabelSeq, BatchInv
  <2> QED BY <2>1, <2>2, <2>3 DEF IInv
<1>3. CASE OpenSaved
  <2>1. CASE arrived
    <3>1. tab' = "saved" /\ ShowSavedCharts(pinned)
      BY <1>3, <2>1 DEF OpenSaved
    <3>2. pinned \in Seq(PinnedCharts) /\ Unique(LabelSeq(pinned)) /\ IsFiniteSet(fetches)
      BY <1>1, <2>1 DEF TypeOK, PinsInv, BatchInv
    <3> QED BY <1>1, <1>2, <1>s, <2>1, <3>1, <3>2, BatchStarts, SavedTabStep
  <2>2. CASE ~arrived
    BY <1>3, <1>b, <2>2 DEF OpenSaved
  <2> QED BY <2>1, <2>2
<1>4. CASE OpenCharts
  <2>1. UNCHANGED <<pinned, batches, fetches, well>> /\ tab' = "charts"
    BY <1>4 DEF OpenCharts
  <2>2. CASE arrived
    BY <1>1, <1>2, <1>s, <2>1, <2>2, SavedTabStep DEF TypeOK, BatchInv
  <2> QED BY <1>b, <2>1, <2>2
<1> QED BY <1>2, <1>3, <1>4
-----------------------------------------------------------------------------
(* Pinning and removing *)

\* What is left to show of a step that changes what is pinned.
LEMMA PinsChange ==
    ASSUME IInv, arrived,
           UNCHANGED <<arrived, lastDates, selectors, shown, localStorage, requests, outcome,
                       tab, batches, fetches, well, changes>>,
           pinned' \in Seq(PinnedCharts), Unique(LabelSeq(pinned')),
           stored' = LabelSeq(pinned'), MarksAgree',
           charts' \in SUBSET [label : Selections, data : Requests, pinned : BOOLEAN],
           \A c, e \in charts' : c = e,
           \A c \in charts' : \E e \in charts : e.label = c.label /\ e.data = c.data,
           charts' = {} <=> charts = {},
           tab = "saved" /\ well => Counted'
    PROVE  IInv'
<1>1. TypeOK /\ BlankInv /\ SelectionInv /\ ChartsInv /\ PinsInv /\ BatchInv
  BY DEF IInv
<1>2. TypeOK'
  <2>1. stored' \in Seq(Selections)
    BY LabelSeqType
  <2> QED BY <1>1, <2>1 DEF TypeOK
<1>3. BlankInv' /\ SelectionInv'
  BY <1>1 DEF BlankInv, SelectionInv, SelectionExists, LastDates
<1>4. ChartsInv'
  BY <1>1 DEF ChartsInv, ChartsShowSelection, EntryOf, LastDates
<1>5. PinsInv'
  BY <1>1 DEF PinsInv
<1>6. BatchInv'
  BY <1>1 DEF BatchInv
<1> QED BY <1>2, <1>3, <1>4, <1>5, <1>6 DEF IInv

\* Taking a chart out, on either tab.
LEMMA UnpinStep ==
    ASSUME IInv, arrived, NEW label \in Labels(pinned),
           UNCHANGED <<arrived, lastDates, selectors, shown, localStorage, requests, outcome,
                       tab, batches, fetches, well, changes>>,
           pinned' = Without(pinned, label), charts' = Unmark(label),
           stored' = LabelSeq(pinned')
    PROVE  IInv'
<1>1. TypeOK /\ PinsInv /\ BatchInv
  BY DEF IInv
<1>2. pinned \in Seq(PinnedCharts) /\ Unique(LabelSeq(pinned))
  BY <1>1 DEF TypeOK, PinsInv
<1>3. /\ pinned' \in Seq(PinnedCharts) /\ Unique(LabelSeq(pinned'))
      /\ Labels(pinned') = Labels(pinned) \ {label}
      /\ \A j \in 1..Len(pinned') : \E i \in 1..Len(pinned) : pinned'[j] = pinned[i]
  BY <1>2, WithoutPin
<1>4. /\ charts \in SUBSET [label : Selections, data : Requests, pinned : BOOLEAN]
      /\ \A c, e \in charts : c = e
      /\ \A c \in charts : c.pinned <=> c.label \in Labels(pinned)
  BY <1>1 DEF TypeOK, PinsInv, MarksAgree
<1> DEFINE m(c) == IF c.label = label THEN [c EXCEPT !.pinned = FALSE] ELSE c
<1>5. charts' = {m(c) : c \in charts}
  BY DEF Unmark
<1>6. ASSUME NEW c \in charts
      PROVE  /\ m(c) \in [label : Selections, data : Requests, pinned : BOOLEAN]
             /\ m(c).label = c.label /\ m(c).data = c.data
             /\ m(c).pinned <=> c.label \in Labels(pinned) \ {label}
  <2>1. c \in [label : Selections, data : Requests, pinned : BOOLEAN]
    BY <1>4
  <2>2. c.pinned <=> c.label \in Labels(pinned)
    BY <1>4
  <2>3. CASE c.label = label
    <3>1. m(c) = [c EXCEPT !.pinned = FALSE]
      BY <2>3
    <3> QED BY <2>1, <2>3, <3>1
  <2>4. CASE c.label # label
    BY <2>1, <2>2, <2>4
  <2> QED BY <2>3, <2>4
<1> HIDE DEF m
<1>7. /\ charts' \in SUBSET [label : Selections, data : Requests, pinned : BOOLEAN]
      /\ \A c, e \in charts' : c = e
      /\ \A c \in charts' : \E e \in charts : e.label = c.label /\ e.data = c.data
      /\ charts' = {} <=> charts = {}
  BY <1>4, <1>5, <1>6
<1>8. MarksAgree'
  <2>1. \A c \in charts' : c.pinned <=> c.label \in Labels(pinned')
    BY <1>3, <1>5, <1>6
  <2> QED BY <2>1 DEF MarksAgree
<1>9. ASSUME tab = "saved", well PROVE Counted'
  <2>1. Counted
    BY <1>1, <1>9 DEF BatchInv
  <2>2. Due' = Due
    BY DEF Due
  <2>3. ASSUME NEW j \in Missing(pinned')
        PROVE  \E i \in Missing(pinned) : pinned'[j].label = pinned[i].label
    BY <1>3 DEF Missing
  <2> QED BY <1>3, <2>1, <2>2, <2>3 DEF Counted
<1> QED BY <1>3, <1>7, <1>8, <1>9, PinsChange

LEMMA PinsStep ==
    ASSUME IInv, Pins
    PROVE  IInv'
<1>1. TypeOK /\ BlankInv /\ PinsInv
  BY DEF IInv
<1>2. UNCHANGED changes
  BY DEF Pins
<1>3. ASSUME NEW label \in Labels(pinned), Remove(label) PROVE IInv'
  <2>1. arrived
    BY <1>1 DEF BlankInv, Labels
  <2>2. /\ UNCHANGED <<arrived, lastDates, selectors, shown, localStorage, requests, outcome>>
        /\ UNCHANGED <<tab, batches, fetches, well>>
        /\ pinned' = Without(pinned, label) /\ charts' = Unmark(label)
        /\ stored' = LabelSeq(pinned')
    BY <1>3 DEF Remove, SavePinned, pageVars
  <2> QED BY <1>2, <2>1, <2>2, UnpinStep
<1>4. CASE PinChart
  <2>1. /\ UNCHANGED <<arrived, lastDates, selectors, shown, localStorage, requests, outcome>>
        /\ UNCHANGED <<tab, batches, fetches, well>>
        /\ tab = "charts" /\ stored' = LabelSeq(pinned')
    BY <1>4 DEF PinChart, SavePinned, pageVars
  <2>2. PICK c \in charts :
            IF IsPinned(c.label)
            THEN pinned' = Without(pinned, c.label) /\ charts' = Unmark(c.label)
            ELSE /\ pinned' = Append(pinned,
                       [label |-> c.label, data |-> {c.data}, drawn |-> FALSE])
                 /\ charts' = (charts \ {c}) \union {[c EXCEPT !.pinned = TRUE]}
    BY <1>4 DEF PinChart
  <2>3. arrived
    BY <1>1, <2>2 DEF BlankInv
  <2>4. CASE c.label \in Labels(pinned)
    BY <1>2, <2>1, <2>2, <2>3, <2>4, UnpinStep DEF IsPinned
  <2>5. CASE c.label \notin Labels(pinned)
    <3> DEFINE pin == [label |-> c.label, data |-> {c.data}, drawn |-> FALSE]
               e == [c EXCEPT !.pinned = TRUE]
    <3>1. c \in [label : Selections, data : Requests, pinned : BOOLEAN]
          /\ \A x, y \in charts : x = y
      BY <1>1, <2>2 DEF TypeOK
    <3>2. pinned \in Seq(PinnedCharts) /\ Unique(LabelSeq(pinned))
      BY <1>1, <2>3 DEF TypeOK, PinsInv
    <3>3. pinned' = Append(pinned, pin) /\ charts' = (charts \ {c}) \union {e}
      BY <2>2, <2>5 DEF IsPinned
    <3>4. pin \in PinnedCharts /\ pin.label = c.label
      BY <3>1 DEF PinnedCharts
    <3>5. e \in [label : Selections, data : Requests, pinned : BOOLEAN]
          /\ e.label = c.label /\ e.data = c.data /\ e.pinned = TRUE
      BY <3>1
    <3> HIDE DEF pin, e
    <3>6. charts' = {e}
      BY <2>2, <3>1, <3>3
    <3>7. /\ pinned' \in Seq(PinnedCharts) /\ Unique(LabelSeq(pinned'))
          /\ Labels(pinned') = Labels(pinned) \union {c.label}
      BY <2>5, <3>2, <3>3, <3>4, AppendPin
    <3>8. MarksAgree'
      BY <3>5, <3>6, <3>7 DEF MarksAgree
    <3>9. /\ \A x \in charts' : \E y \in charts : y.label = x.label /\ y.data = x.data
          /\ charts' # {} /\ charts # {}
      BY <2>2, <3>1, <3>5, <3>6
    <3> QED BY <1>2, <2>1, <2>3, <3>5, <3>6, <3>7, <3>8, <3>9, PinsChange
  <2> QED BY <2>4, <2>5
<1> QED BY <1>3, <1>4 DEF Pins
-----------------------------------------------------------------------------
(* Loading the page *)

LEMMA LoadStep ==
    ASSUME IInv, Load
    PROVE  IInv'
<1> DEFINE pins == [i \in 1..Len(stored) |->
                       [label |-> stored[i], data |-> {}, drawn |-> FALSE]]
           last == CHOOSE d \in LastDates : \A e \in LastDates : e <= d
<1>1. /\ UNCHANGED <<outcome, stored, tab, changes>> /\ arrived' = TRUE
      /\ IF tab = "saved" THEN ShowSavedCharts(pins)
         ELSE pinned' = pins /\ UNCHANGED <<batches, fetches, well>>
      /\ \/ UNCHANGED <<lastDates, selectors, shown, localStorage, requests, charts>>
         \/ lastDates' = LastDates /\ DateChanged(last)
  BY DEF Load
<1>2. TypeOK /\ BlankInv /\ PinsInv /\ ~arrived
  BY DEF IInv, Load
<1>3. last \in LastDates /\ NoDate \notin LastDates
  BY LastDate, DaysAssumption DEF Days, NoDate
<1> HIDE DEF last
<1>4. /\ lastDates' \in {{}, LastDates}
      /\ selectors' \in Selections /\ localStorage' \in Entries
      /\ shown' \in [date : Dates, test : TestValues, language : LanguageValues]
      /\ requests' \in Seq(Requests) /\ charts' = {}
      /\ shown'.date \in LastDates \union {NoDate}
      /\ selectors'.date = NoDate => shown'.date = NoDate
      /\ SelectionInv' /\ ChartsInv'
  <2>1. CASE UNCHANGED <<lastDates, selectors, shown, localStorage, requests, charts>>
    <3>1. selectors'.date = NoDate /\ shown'.date = NoDate
      BY <1>2, <2>1 DEF BlankInv
    <3>2. SelectionInv' /\ ChartsInv'
      BY <1>3, <3>1 DEF SelectionInv, SelectionExists, ChartsInv, ChartsShowSelection,
         LastDates
    <3> QED BY <1>2, <2>1, <3>1, <3>2 DEF TypeOK, BlankInv
  <2>2. CASE lastDates' = LastDates /\ DateChanged(last)
    BY <1>2, <1>3, <2>2, DateArrives, ArrivesInOrder DEF BlankInv
  <2> QED BY <1>1, <2>1, <2>2
<1>5. stored \in Seq(Selections) /\ Len(stored) \in Nat /\ Unique(stored)
  BY <1>2, LenProperties DEF TypeOK, PinsInv
<1>6. pins \in Seq(PinnedCharts) /\ LabelSeq(pins) = stored
  <2>1. \A i \in 1..Len(stored) : stored[i] \in Selections
    BY <1>5, ElementOfSeq
  <2>2. pins \in [1..Len(stored) -> PinnedCharts]
    BY <2>1 DEF PinnedCharts
  <2>3. \A i \in 1..Len(stored) : pins[i].label = stored[i]
    OBVIOUS
  <2> HIDE DEF pins
  <2>4. pins \in Seq(PinnedCharts)
    BY <1>5, <2>2, SeqDef
  <2>5. Len(pins) = Len(stored)
    BY <1>5, <2>2, <2>4, LenProperties
  <2>6. LabelSeq(pins) \in Seq(Selections) /\ Len(LabelSeq(pins)) = Len(stored)
        /\ \A i \in 1..Len(stored) : LabelSeq(pins)[i] = stored[i]
    BY <2>3, <2>4, <2>5, LabelSeqType
  <2> QED BY <1>5, <2>4, <2>6, SeqEqual
<1> HIDE DEF pins
<1>7. /\ pinned' \in Seq(PinnedCharts) /\ LabelSeq(pinned') = stored
      /\ batches' \in Seq([fetch : Nat, received : Nat])
      /\ fetches' \in SUBSET [label : Selections, batch : 1..Len(batches'),
                              data : Requests]
      /\ IsFiniteSet(fetches') /\ well' \in BOOLEAN
      /\ tab = "saved" /\ well' => Counted'
  <2>1. IsFiniteSet(fetches)
    BY <1>2, FS_EmptySet DEF BlankInv
  <2>2. CASE tab = "saved"
    BY <1>1, <1>2, <1>5, <1>6, <2>1, <2>2, BatchStarts
  <2>3. CASE tab # "saved"
    <3>1. pinned' = pins /\ UNCHANGED <<batches, fetches, well>>
      BY <1>1, <2>3
    <3> QED BY <1>2, <1>6, <2>1, <2>3, <3>1 DEF TypeOK
  <2> QED BY <2>2, <2>3
<1>8. TypeOK'
  BY <1>1, <1>2, <1>4, <1>7 DEF TypeOK, LastDates
<1>9. BlankInv'
  BY <1>1, <1>4 DEF BlankInv, LastDates
<1>10. PinsInv'
  BY <1>1, <1>4, <1>5, <1>7 DEF PinsInv, MarksAgree, Unique
<1>11. BatchInv'
  BY <1>1, <1>7 DEF BatchInv
<1> QED BY <1>4, <1>8, <1>9, <1>10, <1>11 DEF IInv

\* A page on which nothing is loaded, and what the storage may hold then.
Blank ==
    /\ arrived = FALSE /\ lastDates = {} /\ outcome = "none"
    /\ selectors = Nothing
    /\ shown = [date |-> NoDate, test |-> None, language |-> None]
    /\ requests = <<>> /\ charts = {} /\ pinned = <<>> /\ batches = <<>> /\ fetches = {}
    /\ well = TRUE /\ changes = 0
    /\ localStorage \in Entries /\ stored \in Seq(Selections) /\ Unique(stored)
    /\ tab \in {"charts", "saved"}

LEMMA BlankPage == Blank => IInv
<1> SUFFICES ASSUME Blank PROVE IInv
  OBVIOUS
<1>1. selectors \in Selections /\ selectors.date = NoDate /\ NoDate \notin LastDates
  BY DaysAssumption DEF Blank, Nothing, Selections, Dates, TestValues, LanguageValues,
     ClientValues, LastDates, Days, NoDate
<1>2. shown \in [date : Dates, test : TestValues, language : LanguageValues]
  BY DEF Blank, Dates, TestValues, LanguageValues
<1>3. /\ requests \in Seq(Requests) /\ pinned \in Seq(PinnedCharts)
      /\ batches \in Seq([fetch : Nat, received : Nat])
  BY EmptySeq DEF Blank
<1>4. TypeOK
  <2>1. /\ charts \in SUBSET [label : Selections, data : Requests, pinned : BOOLEAN]
        /\ \A c, e \in charts : c = e
        /\ fetches \in SUBSET [label : Selections, batch : 1..Len(batches), data : Requests]
    BY DEF Blank
  <2>2. arrived \in BOOLEAN /\ lastDates \in {{}, LastDates} /\ well \in BOOLEAN
    BY ZenonT(30) DEF Blank
  <2>4. outcome \in {"none", "shown", "threw", "lost"} /\ changes \in 0..MaxChanges
    BY BoundsAssumption DEF Blank
  <2>3. localStorage \in Entries /\ stored \in Seq(Selections) /\ tab \in {"charts", "saved"}
    BY DEF Blank
  <2> QED BY <1>1, <1>2, <1>3, <2>1, <2>2, <2>3, <2>4 DEF TypeOK
<1>6. BlankInv /\ SelectionInv /\ ChartsInv
  BY <1>1 DEF Blank, BlankInv, SelectionInv, SelectionExists, ChartsInv, ChartsShowSelection
<1>7. PinsInv /\ BatchInv
  BY FS_EmptySet DEF Blank, PinsInv, MarksAgree, BatchInv
<1> QED BY <1>4, <1>6, <1>7 DEF IInv

LEMMA InitStep == Init => IInv
<1> SUFFICES ASSUME Init PROVE IInv
  OBVIOUS
<1>1. localStorage \in Entries
  BY DEF Init, Entry, Entries, TestValues, LanguageValues, ClientValues
<1>2. stored \in Seq(Selections) /\ Unique(stored)
  BY EmptySeq DEF Init, Unique
<1> QED BY <1>1, <1>2, BlankPage DEF Init, Blank

LEMMA ReloadStep ==
    ASSUME IInv, Reload
    PROVE  IInv'
<1>1. /\ arrived' = FALSE /\ lastDates' = {} /\ outcome' = "none" /\ selectors' = Nothing
      /\ shown' = [date |-> NoDate, test |-> None, language |-> None]
      /\ requests' = <<>> /\ charts' = {} /\ pinned' = <<>> /\ batches' = <<>>
      /\ fetches' = {} /\ well' = TRUE /\ changes' = 0
  BY DEF Reload
<1>2. /\ localStorage' \in Entries /\ stored' \in Seq(Selections) /\ Unique(stored')
      /\ tab' \in {"charts", "saved"}
  BY DEF Reload, IInv, TypeOK, PinsInv, Unique
<1>3. Blank'
  BY <1>1, <1>2 DEF Blank, Unique, Nothing
<1> QED BY <1>3, BlankPage, PTL
-----------------------------------------------------------------------------
(* Theorems *)

LEMMA NextStep == IInv /\ [Next]_vars => IInv'
<1> SUFFICES ASSUME IInv, [Next]_vars PROVE IInv'
  OBVIOUS
<1>1. ASSUME Receive PROVE IInv'
  <2>1. UNCHANGED changes
    BY <1>1 DEF Receive
  <2>2. ASSUME NEW i \in 1..Len(requests), Answer(i, Labels(pinned)), UNCHANGED savedVars
        PROVE  IInv'
    BY <2>1, <2>2, AnswerStep
  <2>3. ASSUME NEW f \in fetches, AnswerSaved(f) PROVE IInv'
    BY <2>1, <2>3, AnswerSavedStep
  <2> QED BY <1>1, <2>2, <2>3 DEF Receive
<1>2. CASE UNCHANGED vars
  <2>1. UNCHANGED <<arrived, lastDates, selectors, shown, localStorage, requests, charts,
                    outcome, pinned, stored, tab, batches, fetches, well, changes>>
    BY <1>2 DEF vars, selVars, savedVars, pageVars
  <2>2. TypeOK' /\ BlankInv'
    BY <2>1 DEF IInv, TypeOK, BlankInv, LastDates
  <2>3. SelectionInv' /\ ChartsInv'
    BY <2>1 DEF IInv, SelectionInv, SelectionExists, ChartsInv, ChartsShowSelection, EntryOf, LastDates
  <2>4. PinsInv'
    BY <2>1 DEF IInv, PinsInv, MarksAgree, Unique, Labels, LabelSeq
  <2>5. BatchInv'
    BY <2>1 DEF IInv, BatchInv, Counted, Due, Missing
  <2> QED BY <2>2, <2>3, <2>4, <2>5 DEF IInv
<1> QED BY <1>1, <1>2, LoadStep, ReloadStep, SelectStep, TabsStep, PinsStep DEF Next

\* The inductive invariant holds in every reachable state of the page.
THEOREM Invariance == Spec => []IInv
BY InitStep, NextStep, PTL DEF Spec

\* Every variable keeps its type; in particular no request asks for more than
\* Span days, the bound of getLastData, and the charts tab has at most one chart.
THEOREM TypeCorrect == Spec => []TypeOK
<1>1. IInv => TypeOK
  BY DEF IInv
<1> QED BY <1>1, Invariance, PTL

\* Whatever was clicked, and whatever the storage held when the page was loaded,
\* the watchers of perf3.js leave a selection that has results on its day.
THEOREM SelectionIsThere == Spec => []SelectionExists
<1>1. IInv => SelectionExists
  BY DEF IInv, SelectionInv
<1> QED BY <1>1, Invariance, PTL

\* When answers come in the order of the requests, gotAllSamples leaves the charts
\* of what is selected, though it labels them with what is selected by then.
THEOREM OrderedChartsShowSelection ==
    ASSUME Ordered
    PROVE  Spec => []ChartsShowSelection
<1>1. IInv => ChartsShowSelection
  BY DEF IInv, ChartsInv
<1> QED BY <1>1, Invariance, PTL

\* pinChart keeps the mark of the chart and the list of pinned charts in step, on
\* both tabs.
THEOREM MarksAlwaysAgree == Spec => []MarksAgree
<1>1. IInv => MarksAgree
  BY DEF IInv, PinsInv
<1> QED BY <1>1, Invariance, PTL

\* savePinned leaves in the browser's storage the labels of the pinned charts in
\* their order, and none of them twice.
THEOREM PinsAlwaysStored == Spec => []PinsAreStored
<1>1. IInv => PinsAreStored
  <2> SUFFICES ASSUME IInv, arrived
               PROVE  /\ stored = LabelSeq(pinned)
                      /\ Cardinality(Labels(pinned)) = Len(pinned)
    BY DEF PinsAreStored
  <2> DEFINE D == 1..Len(pinned)
             L == Labels(pinned)
             g == [i \in D |-> pinned[i].label]
  <2>1. pinned \in Seq(PinnedCharts) /\ Len(pinned) \in Nat
    BY LenProperties DEF IInv, TypeOK
  <2>2. stored = LabelSeq(pinned) /\ Unique(LabelSeq(pinned))
    BY DEF IInv, PinsInv
  <2>3. \A i, j \in D : g[i] = g[j] => i = j
    BY <2>1, <2>2, LabelSeqType DEF Unique
  <2>4. g \in [D -> L] /\ \A x \in L : \E i \in D : g[i] = x
    BY DEF Labels
  <2>5. IsFiniteSet(D) /\ Cardinality(D) = Len(pinned)
    <3> DEFINE n == Len(pinned)
    <3>1. n \in Int /\ 1 \in Int /\ n >= 0
      BY <2>1
    <3> HIDE DEF n
    <3>2. /\ IsFiniteSet(1..n)
          /\ Cardinality(1..n) = IF 1 > n THEN 0 ELSE n - 1 + 1
      BY <3>1, FS_Interval
    <3>3. IsFiniteSet(1..n) /\ Cardinality(1..n) = n
      BY <3>1, <3>2
    <3> QED BY <3>3 DEF n
  <2> HIDE DEF D, L, g
  <2>6. g \in Bijection(D, L)
    BY <2>3, <2>4 DEF Bijection, Injection, Surjection, IsInjective
  <2>7. Cardinality(L) = Cardinality(D)
    BY <2>5, <2>6, FS_Bijection DEF ExistsBijection
  <2> QED BY <2>2, <2>5, <2>7 DEF L
<1> QED BY <1>1, Invariance, PTL

\* However often the saved tab is opened, and whatever is pinned or removed while
\* samples are on the way, the count of showSavedCharts comes out: when all have
\* arrived, gotAllSamples has drawn every pinned chart.
THEOREM SavedChartsGetDrawn == Spec => []SavedChartsDrawn
<1>1. IInv => SavedChartsDrawn
  <2> SUFFICES ASSUME IInv, tab = "saved", arrived, Due = {}, well
               PROVE  \A i \in 1..Len(pinned) : pinned[i].drawn
    BY DEF SavedChartsDrawn
  <2>1. Counted
    BY DEF IInv, BatchInv
  <2> QED BY <2>1 DEF Counted
<1> QED BY <1>1, Invariance, PTL
=============================================================================
