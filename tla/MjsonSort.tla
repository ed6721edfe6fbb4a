------------------------------ MODULE MjsonSort ------------------------------
(***************************************************************************)
(* utils/mjson/mjson.c: mjson_sort_children, the bubble sort that orders   *)
(* the pairs of an object by their labels.  The order of the labels is     *)
(* that of strcmp, here that of the naturals.                              *)
(***************************************************************************)
EXTENDS Integers

CONSTANTS N,    \* n_children
          Keys  \* the labels

ASSUME SortAssumption == N \in Nat /\ Keys \subseteq Nat

VARIABLES given,       \* given[id]: the label of the child that was added id-th
          children,    \* node->children: the ids, in their present order
          i,           \* i of the inner loop, counted from 1
          disordered,  \* disordered
          pc           \* "while", "for", or "done"

vars == <<given, children, i, disordered, pc>>

TypeOK ==
    /\ given \in [1..N -> Keys] /\ children \in [1..N -> 1..N]
    /\ i \in Nat /\ disordered \in BOOLEAN
    /\ pc \in {"while", "for", "done"}

Key(j) == given[children[j]]

\* Any children, in the order they were added; one child is left alone.
Init ==
    /\ given \in [1..N -> Keys]
    /\ children = [j \in 1..N |-> j]
    /\ i = 1 /\ disordered = TRUE
    /\ pc = IF N > 1 THEN "while" ELSE "done"

\* while ( disordered )
While ==
    /\ pc = "while"
    /\ IF disordered THEN pc' = "for" /\ disordered' = FALSE /\ i' = 2
       ELSE pc' = "done" /\ UNCHANGED <<disordered, i>>
    /\ UNCHANGED <<given, children>>

\* Definitions named Bug... are faulty variants of the definition that follows.

\* >= for >.
BugWrong(a, b) == a >= b

\* Are two neighbours in the wrong order?
Wrong(a, b) == a > b

\* A child is copied over its neighbour.
BugSwapped(j) == [children EXCEPT ![j - 1] = children[j]]

Swapped(j) == [children EXCEPT ![j - 1] = children[j], ![j] = children[j - 1]]

\* The last pair is not compared.
BugLast == N - 1

Last == N

\* One turn of the for loop, or its end.
For ==
    /\ pc = "for"
    /\ IF i <= Last
       THEN /\ i' = i + 1
            /\ IF Wrong(Key(i - 1), Key(i))
               THEN children' = Swapped(i) /\ disordered' = TRUE
               ELSE UNCHANGED <<children, disordered>>
            /\ UNCHANGED pc
       ELSE pc' = "while" /\ UNCHANGED <<children, i, disordered>>
    /\ UNCHANGED given

Finished == pc = "done" /\ UNCHANGED vars

Next == While \/ For \/ Finished

Spec == Init /\ [][Next]_vars

FairSpec == Spec /\ WF_vars(While \/ For)
-----------------------------------------------------------------------------
\* The labels of the object are in the order of strcmp when the sort returns.
Sorted == pc = "done" => \A a, b \in 1..N : a < b => Key(a) <= Key(b)

\* No child is lost and none is there twice, at any time during the sort.
NothingLost ==
    /\ \A a, b \in 1..N : children[a] = children[b] => a = b
    /\ \A id \in 1..N : \E a \in 1..N : children[a] = id

\* Children with the same label stay in the order in which they were added.
Stable ==
    \A a, b \in 1..N : a < b /\ Key(a) = Key(b) => children[a] < children[b]

\* The sort returns.
Terminates == <>(pc = "done")

(* The inductive invariant *)

\* The labels of the first n children are in order.
OrderedTo(n) == \A a, b \in 1..n : a < b => Key(a) <= Key(b)

\* While nothing was swapped in this pass, what the pass has seen is ordered.
PassInv ==
    /\ pc # "done" => N > 1
    /\ pc = "for" => i \in 2..(N + 1)
    /\ pc = "for" /\ ~disordered => OrderedTo(i - 1)
    /\ (pc = "while" /\ ~disordered) \/ pc = "done" => OrderedTo(N)

IInv == TypeOK /\ PassInv /\ NothingLost /\ Stable
=============================================================================
