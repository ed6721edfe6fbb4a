--------------------------- MODULE MjsonSort_proofs ---------------------------
(***************************************************************************)
(* Proofs about MjsonSort, for any number of children and any labels.      *)
(***************************************************************************)
EXTENDS MjsonSort, TLAPS

\* A swap of neighbours stays within the children.
LEMMA SwapType ==
    ASSUME NEW c \in [1..N -> 1..N], NEW k \in 2..N
    PROVE  [c EXCEPT ![k - 1] = c[k], ![k] = c[k - 1]] \in [1..N -> 1..N]
<1>1. k \in 1..N /\ k - 1 \in 1..N
  BY SortAssumption
<1>2. c[k] \in 1..N /\ c[k - 1] \in 1..N
  BY <1>1
<1> QED BY <1>2

\* A swap of neighbours permutes the children.
LEMMA SwapLosesNothing ==
    ASSUME TypeOK, NothingLost, NEW k \in 2..N, children' = Swapped(k)
    PROVE  NothingLost'
<1> USE SortAssumption
<1>1. \A a \in 1..N : children'[a] = IF a = k - 1 THEN children[k]
                                     ELSE IF a = k THEN children[k - 1]
                                     ELSE children[a]
  BY DEF Swapped, TypeOK
<1>2. k \in 1..N /\ k - 1 \in 1..N
  OBVIOUS
<1>3. ASSUME NEW a \in 1..N, NEW b \in 1..N, children'[a] = children'[b]
      PROVE  a = b
  BY <1>1, <1>2, <1>3 DEF NothingLost
<1>4. ASSUME NEW id \in 1..N
      PROVE  \E a \in 1..N : children'[a] = id
  <2>1. PICK a \in 1..N : children[a] = id
    BY DEF NothingLost
  <2>2. CASE a = k - 1
    BY <1>1, <1>2, <2>1, <2>2
  <2>3. CASE a = k
    BY <1>1, <1>2, <2>1, <2>3
  <2>4. CASE a # k - 1 /\ a # k
    BY <1>1, <2>1, <2>4
  <2> QED BY <2>2, <2>3, <2>4
<1> QED BY <1>3, <1>4 DEF NothingLost

\* Only children with different labels change places.
LEMMA SwapIsStable ==
    ASSUME TypeOK, Stable, NEW k \in 2..N, Wrong(Key(k - 1), Key(k)),
           children' = Swapped(k), given' = given
    PROVE  Stable'
<1> USE SortAssumption
<1>1. \A a \in 1..N : children'[a] = IF a = k - 1 THEN children[k]
                                     ELSE IF a = k THEN children[k - 1]
                                     ELSE children[a]
  BY DEF Swapped, TypeOK
<1>2. k \in 1..N /\ k - 1 \in 1..N
  OBVIOUS
<1>3. \A a \in 1..N : Key(a)' = IF a = k - 1 THEN Key(k)
                                ELSE IF a = k THEN Key(k - 1)
                                ELSE Key(a)
  BY <1>1 DEF Key
<1>4. \A a \in 1..N : Key(a) \in Nat
  BY DEF Key, TypeOK
<1>5. Key(k - 1) # Key(k)
  BY <1>2, <1>4 DEF Wrong
<1>6. ASSUME NEW a \in 1..N, NEW b \in 1..N, a < b, Key(a)' = Key(b)'
      PROVE  children'[a] < children'[b]
  <2>1. CASE a = k - 1 /\ b = k
    BY <1>2, <1>3, <1>5, <1>6, <2>1
  <2>2. CASE a = k - 1 /\ b # k
    BY <1>1, <1>2, <1>3, <1>6, <2>2 DEF Stable
  <2>3. CASE a = k
    BY <1>1, <1>2, <1>3, <1>6, <2>3 DEF Stable
  <2>4. CASE a # k - 1 /\ a # k
    BY <1>1, <1>2, <1>3, <1>6, <2>4 DEF Stable
  <2> QED BY <2>1, <2>2, <2>3, <2>4
<1> QED BY <1>6 DEF Stable
-----------------------------------------------------------------------------
LEMMA InitIInv == ASSUME Init PROVE IInv
<1> USE SortAssumption DEF Init
<1>1. TypeOK
  BY DEF TypeOK
<1>2. PassInv
  BY DEF PassInv, OrderedTo
<1>3. NothingLost
  BY DEF NothingLost
<1>4. Stable
  BY DEF Stable
<1> QED BY <1>1, <1>2, <1>3, <1>4 DEF IInv

LEMMA NextIInv == ASSUME IInv, [Next]_vars PROVE IInv'
<1> USE SortAssumption
<1> USE DEF IInv
<1>types. given \in [1..N -> Keys] /\ children \in [1..N -> 1..N]
  BY DEF TypeOK
<1>nats. \A a \in 1..N : Key(a) \in Nat
  BY <1>types DEF Key
<1>same. ASSUME UNCHANGED <<given, children>>
         PROVE  (NothingLost /\ Stable)' /\ \A n \in Nat : OrderedTo(n)' <=> OrderedTo(n)
  BY <1>same DEF NothingLost, Stable, OrderedTo, Key
<1>1. CASE While
  <2>1. TypeOK'
    <3>1. disordered' \in BOOLEAN
      BY <1>1, Zenon DEF While, TypeOK
    <3>2. pc' \in {"for", "done"} /\ i' \in Nat /\ UNCHANGED <<given, children>>
      BY <1>1 DEF While, TypeOK
    <3> QED BY <3>1, <3>2 DEF TypeOK
  <2>2. PassInv'
    <3>1. CASE disordered
      <4>1. pc' = "for" /\ disordered' = FALSE /\ i' = 2
        BY <1>1, <3>1 DEF While
      <4>2. OrderedTo(1)'
        BY DEF OrderedTo
      <4>3. N > 1 /\ 2 \in 2..(N + 1)
        BY <1>1 DEF While, PassInv
      <4>4. OrderedTo(i - 1)'
        BY <4>1, <4>2 DEF OrderedTo
      <4> QED BY <4>1, <4>3, <4>4 DEF PassInv
    <3>2. CASE ~disordered
      BY <1>1, <1>same, <3>2 DEF While, PassInv
    <3> QED BY <3>1, <3>2
  <2> QED BY <1>1, <1>same, <2>1, <2>2 DEF While
<1>2. CASE For
  <2>1. CASE i <= Last /\ Wrong(Key(i - 1), Key(i))
    <3>1. /\ i \in 2..N /\ i' = i + 1 /\ pc' = "for"
          /\ children' = Swapped(i) /\ given' = given
      BY <1>2, <2>1 DEF For, PassInv, Last
    <3>2. disordered' = TRUE
      BY <1>2, <2>1 DEF For
    <3>3. TypeOK'
      <4>1. children' \in [1..N -> 1..N]
        BY <1>types, <3>1, SwapType DEF Swapped
      <4>2. given' \in [1..N -> Keys] /\ i' \in Nat
        BY <1>types, <3>1
      <4> QED BY <3>1, <3>2, <4>1, <4>2 DEF TypeOK
    <3>4. PassInv'
      <4>1. N > 1 /\ i' \in 2..(N + 1)
        BY <3>1
      <4> QED BY <3>1, <3>2, <4>1 DEF PassInv
    <3> QED BY <2>1, <3>1, <3>3, <3>4, SwapLosesNothing, SwapIsStable
  <2>2. CASE i <= Last /\ ~Wrong(Key(i - 1), Key(i))
    <3>1. i \in 2..N /\ i' = i + 1 /\ pc' = "for" /\ UNCHANGED <<given, children>>
      BY <1>2, <2>2 DEF For, PassInv, Last
    <3>2. disordered' = disordered
      BY <1>2, <2>2 DEF For
    <3>3. TypeOK'
      <4>1. disordered' \in BOOLEAN
        BY <3>2 DEF TypeOK
      <4> QED BY <1>types, <3>1, <4>1 DEF TypeOK
    <3>4. Key(i - 1) <= Key(i)
      BY <1>nats, <2>2, <3>1 DEF Wrong
    <3>5. ASSUME ~disordered, NEW a \in 1..i, NEW b \in 1..i, a < b
          PROVE  Key(a) <= Key(b)
      <4>1. OrderedTo(i - 1)
        BY <1>2, <3>5 DEF PassInv, For
      <4>2. CASE b = i /\ a < i - 1
        <5>1. Key(a) <= Key(i - 1)
          BY <3>1, <4>1, <4>2 DEF OrderedTo
        <5> QED BY <1>nats, <3>1, <3>4, <4>2, <5>1
      <4>3. CASE b = i /\ a = i - 1
        BY <3>4, <4>3
      <4>4. CASE b # i
        BY <3>1, <3>5, <4>1, <4>4 DEF OrderedTo
      <4> QED BY <3>1, <3>5, <4>2, <4>3, <4>4
    <3>6. ~disordered' => OrderedTo(i - 1)'
      <4>1. ASSUME ~disordered PROVE OrderedTo(i)
        BY <3>5, <4>1 DEF OrderedTo
      <4>2. OrderedTo(i - 1)' <=> OrderedTo(i)
        BY <3>1 DEF OrderedTo, Key
      <4> QED BY <3>2, <4>1, <4>2
    <3>7. PassInv'
      <4>1. N > 1 /\ i' \in 2..(N + 1)
        BY <3>1
      <4> QED BY <3>1, <3>6, <4>1 DEF PassInv
    <3> QED BY <1>same, <3>1, <3>3, <3>7
  <2>3. CASE ~(i <= Last)
    <3>1. i = N + 1 /\ pc' = "while" /\ UNCHANGED <<given, children, i, disordered>>
      BY <1>2, <2>3 DEF For, PassInv, Last
    <3>2. TypeOK'
      BY <3>1 DEF TypeOK
    <3>3. PassInv'
      BY <1>2, <1>same, <3>1 DEF PassInv, For
    <3> QED BY <1>same, <3>1, <3>2, <3>3
  <2> QED BY <2>1, <2>2, <2>3
<1>3. CASE UNCHANGED vars
  BY <1>3 DEF vars, TypeOK, PassInv, OrderedTo, Key, NothingLost, Stable
<1> QED BY <1>1, <1>2, <1>3 DEF Next, Finished
-----------------------------------------------------------------------------
\* The invariant of the sort: the pass has ordered what it has seen without a
\* swap, and the children are a stable permutation of those that were added.
THEOREM Invariance == Spec => []IInv
<1>1. Init => IInv
  BY InitIInv
<1>2. IInv /\ [Next]_vars => IInv'
  BY NextIInv
<1> QED BY <1>1, <1>2, PTL DEF Spec

\* When mjson_sort_children returns, the labels are in order.
THEOREM SortIsOrdered == Spec => []Sorted
<1>1. IInv => Sorted
  BY DEF IInv, PassInv, Sorted, OrderedTo
<1> QED BY <1>1, Invariance, PTL

\* No child of the object is lost or doubled, at any moment of the sort, and
\* children with the same label keep their order.
THEOREM SortIsStable == Spec => [](NothingLost /\ Stable)
<1>1. IInv => NothingLost /\ Stable
  BY DEF IInv
<1> QED BY <1>1, Invariance, PTL
=============================================================================
