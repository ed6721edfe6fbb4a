-------------------------- MODULE JsonizeTree_proofs --------------------------
(***************************************************************************)
(* Proofs about JsonizeTree: what the nodes of mjson hold, and what is     *)
(* printed of them, for any tree.                                          *)
(***************************************************************************)
EXTENDS JsonizeTree, FiniteSetTheorems, SequenceTheorems, NaturalsInduction,
        WellFoundedInduction, TLAPS

(* Induction.  A set of numbers takes the place of a predicate. *)

LEMMA LeastNumber ==
    ASSUME NEW T, T \subseteq Nat, T # {}
    PROVE  \E x \in T : \A y \in T : x <= y
<1> DEFINE R == OpToRel(<, Nat)
<1>1. IsWellFoundedOn(R, Nat)
  BY NatLessThanWellFounded
<1>2. \A x, y \in Nat : x < y => <<x, y>> \in R
  BY DEF OpToRel
<1> HIDE DEF R
<1>3. PICK x \in T : \A y \in T : ~(<<y, x>> \in R)
  BY <1>1, WFMin
<1>4. \A y \in T : ~(y < x)
  BY <1>2, <1>3
<1> QED BY <1>3, <1>4

LEMMA Induction ==
    ASSUME NEW T, 0 \in T, \A n \in Nat : n \in T => n + 1 \in T
    PROVE  Nat \subseteq T
<1> SUFFICES ASSUME Nat \ T # {} PROVE FALSE
  OBVIOUS
<1>1. PICK x \in Nat \ T : \A y \in Nat \ T : x <= y
  <2>1. Nat \ T \subseteq Nat
    OBVIOUS
  <2> QED BY <2>1, LeastNumber
<1>2. x # 0 /\ x - 1 \in Nat
  BY <1>1
<1>3. x - 1 \in T
  BY <1>1, <1>2
<1> QED BY <1>1, <1>2, <1>3
-----------------------------------------------------------------------------
(* Directories *)

LEMMA Single == ASSUME NEW S, NEW x \in S PROVE <<x>> \in Seq(S) /\ Len(<<x>>) = 1
OBVIOUS

LEMMA Assoc ==
    ASSUME NEW S, NEW s \in Seq(S), NEW t \in Seq(S), NEW u \in Seq(S)
    PROVE  (s \o t) \o u = s \o (t \o u)
BY ConcatAssociative

LEMMA AssocOne ==
    ASSUME NEW S, NEW s \in Seq(S), NEW x \in S, NEW u \in Seq(S)
    PROVE  (s \o <<x>>) \o u = s \o (<<x>> \o u)
<1> DEFINE t == <<x>>
<1>1. t \in Seq(S)
  BY Single
<1> HIDE DEF t
<1>2. (s \o t) \o u = s \o (t \o u)
  BY <1>1, Assoc
<1> QED BY <1>2 DEF t

LEMMA PrefixOfConcat ==
    ASSUME NEW S, NEW s \in Seq(S), NEW t \in Seq(S), NEW k \in 0..Len(s)
    PROVE  SubSeq(s \o t, 1, k) = SubSeq(s, 1, k)
<1>1. Len(s) \in Nat
  BY LenProperties
<1>2. CASE k = 0
  BY <1>2, SubSeqEmpty
<1>3. CASE k # 0
  <2>1. 1 \in 1..Len(s) /\ k \in 1..Len(s)
    BY <1>1, <1>3
  <2> QED BY <2>1, SubSeqOfConcat1
<1> QED BY <1>2, <1>3

LEMMA WholePrefix ==
    ASSUME NEW S, NEW s \in Seq(S), NEW t \in Seq(S)
    PROVE  SubSeq(s \o t, 1, Len(s)) = s
<1>1. Len(s) \in 0..Len(s)
  BY LenProperties
<1> QED BY <1>1, PrefixOfConcat, SubSeqFull

LEMMA PrefixType ==
    ASSUME NEW S, NEW s \in Seq(S), NEW k \in 0..Len(s)
    PROVE  SubSeq(s, 1, k) \in Seq(S) /\ Len(SubSeq(s, 1, k)) = k
<1>1. \A i \in 1..k : s[i] \in S
  BY LenProperties
<1>2. k \in Int /\ 1 \in Int /\ k >= 0
  BY LenProperties
<1> QED BY <1>1, <1>2, SubSeqProperties

\* A directory in another.
LEMMA Below ==
    ASSUME NEW d \in Seq(Name), NEW x \in Name
    PROVE  /\ d \o <<x>> \in Seq(Name) /\ Len(d \o <<x>>) = Len(d) + 1
           /\ d \o <<x>> # <<>> /\ Parent(d \o <<x>>) = d /\ Label(d \o <<x>>) = x
<1>1. <<x>> \in Seq(Name) /\ Len(<<x>>) = 1 /\ Len(d) \in Nat /\ <<x>>[1] = x
  BY LenProperties
<1>2. /\ d \o <<x>> \in Seq(Name) /\ Len(d \o <<x>>) = Len(d) + 1
      /\ (d \o <<x>>)[Len(d) + 1] = <<x>>[1]
  BY <1>1, ConcatProperties
<1>3. d \o <<x>> # <<>>
  BY <1>1, <1>2, EmptySeq
<1>4. Parent(d \o <<x>>) = d
  BY <1>1, <1>2, WholePrefix DEF Parent
<1> QED BY <1>1, <1>2, <1>3, <1>4 DEF Label

LEMMA HasParent ==
    ASSUME NEW d \in Seq(Name), d # <<>>
    PROVE  /\ Len(d) \in Nat \ {0} /\ Label(d) \in Name
           /\ Parent(d) \in Seq(Name) /\ Len(Parent(d)) = Len(d) - 1
           /\ d = Parent(d) \o <<Label(d)>>
<1>1. PICK s \in Seq(Name), x \in Name : d = Append(s, x)
  BY SequenceEmptyOrAppend
<1>2. d = s \o <<x>>
  BY <1>1, AppendIsConcat
<1> QED BY <1>2, Below, LenProperties

LEMMA SameEnd ==
    ASSUME NEW s \in Seq(Name), NEW t \in Seq(Name), NEW x \in Name, NEW y \in Name,
           s \o <<x>> = t \o <<y>>
    PROVE  s = t /\ x = y
BY Below
-----------------------------------------------------------------------------
(* The nodes of mjson *)

IsSequence(s) == Len(s) \in Nat /\ s = [i \in 1..Len(s) |-> s[i]]

\* A node whose children have room.
IsNode(node) ==
    /\ DOMAIN node = {"type", "label", "max", "children"}
    /\ node.max \in Nat /\ IsFiniteSet(node.children)
    /\ Cardinality(node.children) <= node.max

\* All the nodes that a job has made.
AreNodes(tree) == IsSequence(tree) /\ \A n \in 1..Len(tree) : IsNode(tree[n])

NodesInv == nodes = [j \in Jobs |-> nodes[j]] /\ \A j \in Jobs : AreNodes(nodes[j])

\* A new node has no children yet.
LEMMA NewNode ==
    ASSUME NEW type, NEW label, NEW max \in Nat
    PROVE  IsNode(Node(type, label, max))
BY FS_EmptySet DEF IsNode, Node

\* _add_child doubles a full node first, so that there is room for one more.
LEMMA AddChildKeepsRoom ==
    ASSUME NEW node, IsNode(node), NEW child
    PROVE  IsNode(AddChild(node, child))
<1> DEFINE roomy == IF Full(node) THEN Expanded(node) ELSE node
<1>1. Cardinality(node.children) \in Nat /\ node.max \in Nat
  BY FS_CardinalityType DEF IsNode
<1>2. /\ DOMAIN roomy = {"type", "label", "max", "children"}
      /\ roomy.children = node.children
      /\ roomy.max \in Nat /\ Cardinality(node.children) + 1 <= roomy.max
  BY <1>1 DEF IsNode, Full, Expanded
<1> HIDE DEF roomy
<1> DEFINE grown == [roomy EXCEPT !.children = @ \union {child}]
<1>3. /\ DOMAIN grown = {"type", "label", "max", "children"}
      /\ grown.max = roomy.max /\ grown.children = node.children \union {child}
  BY <1>2
<1>4. /\ IsFiniteSet(node.children \union {child})
      /\ Cardinality(node.children \union {child}) \in Nat
      /\ Cardinality(node.children \union {child}) <= Cardinality(node.children) + 1
  <2>1. IsFiniteSet(node.children) BY DEF IsNode
  <2>2. /\ IsFiniteSet(node.children \union {child})
        /\ \/ Cardinality(node.children \union {child}) = Cardinality(node.children)
           \/ Cardinality(node.children \union {child}) = Cardinality(node.children) + 1
    BY <2>1, FS_AddElement
  <2> QED BY <1>1, <2>2
<1>5. AddChild(node, child) = grown
  BY DEF AddChild, roomy
<1> HIDE DEF grown
<1>6. Cardinality(grown.children) <= grown.max
  BY <1>1, <1>2, <1>3, <1>4
<1> QED BY <1>2, <1>3, <1>4, <1>5, <1>6 DEF IsNode

\* Changing one node, or adding one at the end, leaves the others as they are.
LEMMA ChangeNode ==
    ASSUME NEW tree, AreNodes(tree), NEW n, NEW child
    PROVE  AreNodes([tree EXCEPT ![n] = AddChild(@, child)])
<1> DEFINE t == [tree EXCEPT ![n] = AddChild(@, child)]
<1>1. Len(tree) \in Nat /\ DOMAIN tree = 1..Len(tree)
  BY DEF AreNodes, IsSequence
<1>2. t = [i \in 1..Len(tree) |-> IF i = n THEN AddChild(tree[i], child) ELSE tree[i]]
  BY <1>1
<1>3. \A i \in 1..Len(tree) : IsNode(t[i])
  BY <1>2, AddChildKeepsRoom DEF AreNodes
<1>4. Len(t) = Len(tree)
  BY <1>1, <1>2
<1> HIDE DEF t
<1>5. t = [i \in 1..Len(t) |-> t[i]]
  BY <1>2, <1>4
<1> QED BY <1>1, <1>3, <1>4, <1>5 DEF AreNodes, IsSequence, t

LEMMA AppendNode ==
    ASSUME NEW tree, AreNodes(tree), NEW node, IsNode(node)
    PROVE  AreNodes(Append(tree, node))
<1> DEFINE S == {tree[i] : i \in 1..Len(tree)} \union {node}
           t == Append(tree, node)
<1>1. Len(tree) \in Nat /\ tree \in Seq(S) /\ node \in S
  <2>1. Len(tree) \in Nat /\ tree \in [1..Len(tree) -> S]
    BY DEF AreNodes, IsSequence
  <2> HIDE DEF S
  <2>2. tree \in Seq(S)
    BY <2>1, SeqDef
  <2> QED BY <2>1, <2>2 DEF S
<1>2. \A x \in S : IsNode(x)
  BY DEF AreNodes
<1> HIDE DEF S
<1>3. t \in Seq(S) /\ Len(t) = Len(tree) + 1
  BY <1>1, AppendProperties
<1> HIDE DEF t
<1>4. Len(t) \in Nat /\ t \in [1..Len(t) -> S]
  BY <1>3, LenProperties
<1>5. IsSequence(t)
  BY <1>4 DEF IsSequence
<1>6. \A i \in 1..Len(t) : IsNode(t[i])
  BY <1>2, <1>4
<1> QED BY <1>5, <1>6 DEF AreNodes, t

\* The tree with which jsonize_tree starts.
LEMMA OneNode == ASSUME NEW node, IsNode(node) PROVE AreNodes(<<node>>)
BY DEF AreNodes, IsSequence

LEMMA NoNode == AreNodes(<<>>)
BY DEF AreNodes, IsSequence

\* mjson_add_labeled_object and mjson_add_labeled_array change the parent and
\* make one node.
LEMMA AddLabeledNodes ==
    ASSUME NEW tree, AreNodes(tree), NEW parent, NEW type, NEW label, NEW max \in Nat
    PROVE  AreNodes(AddLabeled(tree, parent, type, label, max))
BY ChangeNode, NewNode, AppendNode DEF AddLabeled
-----------------------------------------------------------------------------
(* The tree of nodes.  place gives the directory of every node but the first, which
   only holds the node of the target. *)

\* What the nodes have to do with each other: the children of an object are the
\* nodes of directories in its own, and what is above a node is an object that was
\* made before.
IsPlaced(tree, place, n) ==
    /\ tree[n].type \in {"object", "array"} /\ tree[n].label = Label(place[n])
    /\ tree[n].type = "array" => tree[n].children \subseteq Name
    /\ tree[n].type = "object" =>
          tree[n].children = {c \in 2..Len(tree) :
                                  place[c] # <<>> /\ Parent(place[c]) = place[n]}
IsReached(tree, place, n) ==
    \A k \in 0..(Len(place[n]) - 1) : \E m \in 2..Len(tree) :
        m < n /\ place[m] = SubSeq(place[n], 1, k) /\ tree[m].type = "object"
Shape(tree, place) ==
    /\ Len(tree) \in Nat \ {0} /\ place \in [2..Len(tree) -> Seq(Name)]
    /\ \A m, n \in 2..Len(tree) : place[m] = place[n] => m = n
    /\ tree[1].type = "object"
    /\ tree[1].children = {n \in 2..Len(tree) : place[n] = <<>>}
    /\ \A n \in 2..Len(tree) : IsPlaced(tree, place, n) /\ IsReached(tree, place, n)

\* The directories and files that the nodes stand for.
IsDir(tree, place, e) == \E n \in 2..Len(tree) : e = place[n]
IsFile(tree, place, e) ==
    \E n \in 2..Len(tree) : tree[n].type = "array" /\
        \E c \in tree[n].children : e = place[n] \o <<c>>
Entry(tree, place, e) == IsDir(tree, place, e) \/ IsFile(tree, place, e)

LEMMA AboveNode ==
    ASSUME NEW tree, NEW place, Shape(tree, place), NEW n \in 2..Len(tree),
           NEW k \in Nat, k < Len(place[n])
    PROVE  \E m \in 2..Len(tree) :
               m < n /\ place[m] = SubSeq(place[n], 1, k) /\ tree[m].type = "object"
<1>1. Len(place[n]) \in Nat /\ Len(tree) \in Nat
  BY LenProperties DEF Shape, IsPlaced
<1>2. k \in 0..(Len(place[n]) - 1)
  BY <1>1
<1> QED BY <1>2 DEF Shape, IsReached

\* What is above a directory or a file has an object for its node.
LEMMA AboveEntry ==
    ASSUME NEW tree, NEW place, Shape(tree, place), NEW e, Entry(tree, place, e),
           NEW k \in Nat, k < Len(e)
    PROVE  /\ e \in Seq(Name)
           /\ \E m \in 2..Len(tree) :
                 /\ place[m] = SubSeq(e, 1, k)
                 /\ k < Len(e) - 1 \/ IsDir(tree, place, e) => tree[m].type = "object"
<1>1. CASE IsDir(tree, place, e)
  <2>1. PICK n \in 2..Len(tree) : e = place[n]
    BY <1>1 DEF IsDir
  <2>2. e \in Seq(Name) /\ Len(e) \in Nat
    BY <2>1, LenProperties DEF Shape, IsPlaced
  <2>3. PICK m \in 2..Len(tree) : place[m] = SubSeq(e, 1, k) /\ tree[m].type = "object"
    BY <2>1, AboveNode
  <2> QED BY <2>2, <2>3
<1>2. CASE ~IsDir(tree, place, e)
  <2>entry. PICK n \in 2..Len(tree) :
           tree[n].type = "array" /\ \E c \in tree[n].children : e = place[n] \o <<c>>
    BY <1>2 DEF Entry, IsFile
  <2>1. PICK c \in tree[n].children : tree[n].type = "array" /\ e = place[n] \o <<c>>
    BY <2>entry
  <2>2. place[n] \in Seq(Name) /\ c \in Name /\ Len(place[n]) \in Nat
    BY <2>1, LenProperties DEF Shape, IsPlaced
  <2>3. e \in Seq(Name) /\ Len(e) = Len(place[n]) + 1
    BY <2>1, <2>2, Below
  <2>4. SubSeq(e, 1, k) = SubSeq(place[n], 1, k)
    BY <2>1, <2>2, <2>3, PrefixOfConcat, Single
  <2>5. CASE k = Len(place[n])
    <3>1. place[n] = SubSeq(e, 1, k)
      BY <2>2, <2>4, <2>5, SubSeqFull
    <3>2. ~(k < Len(e) - 1)
      BY <2>2, <2>3, <2>5
    <3>3. place[n] = SubSeq(e, 1, k)
             /\ (k < Len(e) - 1 \/ IsDir(tree, place, e) => tree[n].type = "object")
      BY <1>2, <3>1, <3>2
    <3> QED BY <2>3, <3>3
  <2>6. CASE k # Len(place[n])
    <3>1. k < Len(place[n])
      BY <2>2, <2>3, <2>6
    <3>2. PICK m \in 2..Len(tree) :
             place[m] = SubSeq(place[n], 1, k) /\ tree[m].type = "object"
      BY <3>1, AboveNode
    <3> QED BY <2>3, <2>4, <3>2
  <2> QED BY <2>5, <2>6
<1> QED BY <1>1, <1>2

\* Nothing but its names is below an array, ...
LEMMA BelowArray ==
    ASSUME NEW tree, NEW place, Shape(tree, place), NEW m \in 2..Len(tree),
           tree[m].type = "array", NEW p \in Seq(Name), p # <<>>
    PROVE  Entry(tree, place, place[m] \o p) <=> \E c \in tree[m].children : p = <<c>>
<1> DEFINE e == place[m] \o p
<1>1. place[m] \in Seq(Name) /\ Len(place[m]) \in Nat /\ Len(p) \in Nat \ {0}
  BY EmptySeq, LenProperties DEF Shape, IsPlaced
<1>2. e \in Seq(Name) /\ Len(e) = Len(place[m]) + Len(p)
  BY <1>1, ConcatProperties
<1>3. ASSUME NEW c \in tree[m].children, p = <<c>> PROVE Entry(tree, place, e)
  BY <1>3 DEF Entry, IsFile
<1>4. ASSUME Entry(tree, place, e) PROVE \E c \in tree[m].children : p = <<c>>
  <2>1. Len(place[m]) \in Nat /\ Len(place[m]) < Len(e) /\ SubSeq(e, 1, Len(place[m])) = place[m]
    BY <1>1, <1>2, WholePrefix
  <2> HIDE DEF e
  <2>unique. \A n \in 2..Len(tree) : place[n] = place[m] => n = m
    BY DEF Shape, IsPlaced
  <2>2. ~(Len(place[m]) < Len(e) - 1 \/ IsDir(tree, place, e))
    <3>1. PICK n \in 2..Len(tree) :
             /\ place[n] = SubSeq(e, 1, Len(place[m]))
             /\ Len(place[m]) < Len(e) - 1 \/ IsDir(tree, place, e) => tree[n].type = "object"
      BY <1>4, <2>1, AboveEntry
    <3>2. n = m
      BY <2>unique, <2>1, <3>1
    <3> QED BY <3>1, <3>2
  <2>3. PICK n \in 2..Len(tree) :
           tree[n].type = "array" /\ \E c \in tree[n].children : e = place[n] \o <<c>>
    BY <1>4, <2>2 DEF Entry, IsFile
  <2>4. PICK c \in tree[n].children : e = place[n] \o <<c>>
    BY <2>3
  <2>5. c \in Name /\ place[n] \in Seq(Name) /\ Len(place[n]) \in Nat
    BY <2>3, LenProperties DEF Shape, IsPlaced
  <2>6. Len(e) = Len(place[n]) + 1
    BY <2>4, <2>5, Below
  <2>7. Len(place[m]) = Len(place[n]) /\ Len(p) = 1
    <3>1. Len(place[m]) < Len(e) /\ ~(Len(place[m]) < Len(e) - 1)
      BY <2>1, <2>2
    <3>2. \A a, b, l, q \in Nat : l = a + q /\ l = b + 1 /\ a < l /\ ~(a < l - 1)
                                    => a = b /\ q = 1
      OBVIOUS
    <3> HIDE DEF e
    <3>3. Len(e) \in Nat /\ Len(p) \in Nat
      BY <1>1, <1>2, LenProperties
    <3> QED BY <1>1, <1>2, <2>5, <2>6, <3>1, <3>2, <3>3
  <2>8. SubSeq(e, 1, Len(place[n])) = place[n]
    BY <2>4, <2>5, WholePrefix, Single
  <2>9. n = m
    BY <2>unique, <2>1, <2>7, <2>8
  <2>10. p = <<c>>
    BY <1>1, <2>4, <2>5, <2>9, Single, ConcatSimplifications DEF e
  <2> QED BY <2>9, <2>10
<1> QED BY <1>3, <1>4

\* ... and what is below an object is one of its children, or below one.
LEMMA BelowObject ==
    ASSUME NEW tree, NEW place, Shape(tree, place), NEW m \in 2..Len(tree),
           tree[m].type = "object", NEW x \in Name, NEW r \in Seq(Name)
    PROVE  Entry(tree, place, place[m] \o (<<x>> \o r)) <=>
              \E c \in tree[m].children :
                  tree[c].label = x /\ (r = <<>> \/ Entry(tree, place, place[c] \o r))
<1> DEFINE p == <<x>> \o r
           e == place[m] \o p
           d == place[m] \o <<x>>
<1>1. place[m] \in Seq(Name) /\ Len(place[m]) \in Nat /\ Len(r) \in Nat
  BY LenProperties DEF Shape, IsPlaced
<1>2. /\ d \in Seq(Name) /\ Len(d) = Len(place[m]) + 1 /\ d # <<>>
      /\ Parent(d) = place[m] /\ Label(d) = x
  BY <1>1, Below
<1>3. e = d \o r
  <2>1. place[m] \in Seq(Name)
    BY <1>1
  <2>2. \A s \in Seq(Name) : (s \o <<x>>) \o r = s \o (<<x>> \o r)
    BY AssocOne
  <2>3. (place[m] \o <<x>>) \o r = place[m] \o (<<x>> \o r)
    BY <2>1, <2>2
  <2> QED BY <2>3 DEF d, e, p
<1>4. e \in Seq(Name) /\ Len(e) = Len(d) + Len(r)
  BY <1>2, <1>3, ConcatProperties
<1>5. ASSUME NEW c \in tree[m].children, tree[c].label = x
      PROVE  c \in 2..Len(tree) /\ place[c] = d
  <2>1. c \in 2..Len(tree) /\ place[c] # <<>> /\ Parent(place[c]) = place[m]
    BY DEF Shape, IsPlaced
  <2>2. place[c] \in Seq(Name) /\ tree[c].label = Label(place[c])
    BY <2>1 DEF Shape, IsPlaced
  <2>3. place[c] = Parent(place[c]) \o <<Label(place[c])>>
    BY <2>1, <2>2, HasParent
  <2> QED BY <1>5, <2>1, <2>2, <2>3
<1>6. ASSUME NEW c \in 2..Len(tree), place[c] = d
      PROVE  c \in tree[m].children /\ tree[c].label = x
  <2>1. /\ tree[c].label = Label(place[c])
        /\ tree[m].children = {b \in 2..Len(tree) :
                                  place[b] # <<>> /\ Parent(place[b]) = place[m]}
    BY DEF Shape, IsPlaced
  <2> QED BY <1>2, <1>6, <2>1
<1> HIDE DEF d, e, p
<1>7. ASSUME NEW c \in tree[m].children, tree[c].label = x,
             r = <<>> \/ Entry(tree, place, place[c] \o r)
      PROVE  Entry(tree, place, e)
  <2>1. c \in 2..Len(tree) /\ place[c] = d
    BY <1>5, <1>7
  <2>2. CASE r = <<>>
    <3>1. e = d
      BY <1>2, <1>3, <2>2, ConcatEmptySeq
    <3> QED BY <2>1, <3>1 DEF Entry, IsDir
  <2>3. CASE r # <<>>
    BY <1>3, <1>7, <2>1, <2>3
  <2> QED BY <2>2, <2>3
<1>8. ASSUME Entry(tree, place, e)
      PROVE  \E c \in tree[m].children :
                 tree[c].label = x /\ (r = <<>> \/ Entry(tree, place, place[c] \o r))
  <2>1. \E c \in 2..Len(tree) : place[c] = d
    <3>1. CASE r = <<>>
      <4>1. e = d
        BY <1>2, <1>3, <3>1, ConcatEmptySeq
      <4>2. CASE IsDir(tree, place, e)
        BY <4>1, <4>2 DEF IsDir
      <4>3. CASE IsFile(tree, place, e)
        <5>1. PICK n \in 2..Len(tree) :
                 tree[n].type = "array" /\ \E c \in tree[n].children : e = place[n] \o <<c>>
          BY <4>3 DEF IsFile
        <5>2. PICK c \in tree[n].children : e = place[n] \o <<c>>
          BY <5>1
        <5>3. c \in Name /\ place[n] \in Seq(Name)
          BY <5>1 DEF Shape, IsPlaced
        <5>4. place[n] = place[m]
          BY <1>1, <4>1, <5>2, <5>3, SameEnd DEF d
        <5> QED BY <5>1, <5>4 DEF Shape, IsPlaced
      <4> QED BY <1>8, <4>2, <4>3 DEF Entry
    <3>2. CASE r # <<>>
      <4>1. Len(d) \in Nat /\ Len(d) < Len(e) /\ SubSeq(e, 1, Len(d)) = d
        <5>1. Len(r) # 0
          BY <3>2, EmptySeq
        <5> QED BY <1>1, <1>2, <1>3, <1>4, <5>1, WholePrefix
      <4>2. PICK c \in 2..Len(tree) : place[c] = SubSeq(e, 1, Len(d))
        BY <1>8, <4>1, AboveEntry
      <4> QED BY <4>1, <4>2
    <3> QED BY <3>1, <3>2
  <2>2. PICK c \in 2..Len(tree) : place[c] = d
    BY <2>1
  <2>3. c \in tree[m].children /\ tree[c].label = x
    BY <1>6, <2>2
  <2> QED BY <1>3, <1>8, <2>2, <2>3
<1> QED BY <1>7, <1>8 DEF e, p

(* mjson_print *)

Under(label, path) == <<label>> \o path

\* What it prints of node m, when it prints f of the nodes below.
PrintedChild(tree, f, c) == {Under(tree[c].label, p) : p \in f[c] \union {<<>>}}
Printed(tree, f, m) ==
    IF tree[m].type = "array" THEN {<<c>> : c \in tree[m].children}
    ELSE UNION {PrintedChild(tree, f, c) : c \in tree[m].children}

LEMMA PrintedSome ==
    ASSUME NEW tree, NEW f, NEW m, tree[m].type # "array", NEW q \in Printed(tree, f, m)
    PROVE  \E c \in tree[m].children : \E p \in f[c] \union {<<>>} : q = Under(tree[c].label, p)
<1>1. PICK c \in tree[m].children : q \in PrintedChild(tree, f, c)
  BY DEF Printed
<1>2. PICK p \in f[c] \union {<<>>} : q = Under(tree[c].label, p)
  BY <1>1 DEF PrintedChild
<1> QED BY <1>2

LEMMA PrintedAll ==
    ASSUME NEW tree, NEW f, NEW m, tree[m].type # "array",
           NEW c \in tree[m].children, NEW p \in f[c] \union {<<>>}
    PROVE  Under(tree[c].label, p) \in Printed(tree, f, m)
<1>1. Under(tree[c].label, p) \in PrintedChild(tree, f, c)
  BY DEF PrintedChild
<1> QED BY <1>1 DEF Printed

LEMMA PrintedSame ==
    ASSUME NEW tree, NEW f, NEW g, NEW m,
           tree[m].type # "array" => \A c \in tree[m].children : f[c] = g[c]
    PROVE  Printed(tree, f, m) = Printed(tree, g, m)
<1>1. CASE tree[m].type = "array"
  BY <1>1 DEF Printed
<1>2. CASE tree[m].type # "array"
  <2>1. \A c \in tree[m].children : PrintedChild(tree, f, c) = PrintedChild(tree, g, c)
    BY <1>2 DEF PrintedChild
  <2> QED BY <1>2, <2>1 DEF Printed
<1> QED BY <1>1, <1>2

IsPrinter(tree, f) == f = [m \in 1..Len(tree) |-> Printed(tree, f, m)]

\* The recursion is well-founded, as children come after their parents.
LEMMA PathsAreUnique ==
    ASSUME NEW tree, Len(tree) \in Nat,
           \A m \in 1..Len(tree) :
              tree[m].type # "array" => tree[m].children \subseteq (m + 1)..Len(tree),
           NEW f, IsPrinter(tree, f),
           NEW g, IsPrinter(tree, g)
    PROVE  f = g
<1> DEFINE N == Len(tree)
           T == {k \in Nat : k < N /\ f[N - k] # g[N - k]}
<1>1. ASSUME NEW m \in 1..N, f[m] # g[m] PROVE FALSE
  <2>1. N - m \in T
    BY <1>1
  <2>2. T \subseteq Nat /\ T # {}
    BY <2>1
  <2> HIDE DEF T
  <2>3. PICK k \in T : \A l \in T : k <= l
    BY <2>2, LeastNumber
  <2>4. k \in Nat /\ k < N /\ N - k \in 1..N /\ f[N - k] # g[N - k]
    BY <2>3 DEF T
  <2>5. \A c \in (N - k + 1)..N : f[c] = g[c]
    <3> SUFFICES ASSUME NEW c \in (N - k + 1)..N, f[c] # g[c] PROVE FALSE
      OBVIOUS
    <3>1. N - c \in Nat /\ N - c < N /\ N - (N - c) = c /\ N - c < k
      BY <2>4
    <3>2. N - c \in T
      BY <3>1 DEF T
    <3> QED BY <2>3, <2>4, <3>1, <3>2
  <2> DEFINE n == N - k
  <2>6. n \in 1..N /\ f[n] # g[n] /\ \A c \in (n + 1)..N : f[c] = g[c]
    BY <2>4, <2>5
  <2> HIDE DEF n
  <2>7. tree[n].type # "array" => \A c \in tree[n].children : f[c] = g[c]
    BY <2>6
  <2>8. Printed(tree, f, n) = Printed(tree, g, n)
    BY <2>7, PrintedSame
  <2>9. f[n] = Printed(tree, f, n) /\ g[n] = Printed(tree, g, n)
    BY <2>6 DEF IsPrinter
  <2> QED BY <2>6, <2>8, <2>9
<1> QED BY <1>1 DEF IsPrinter

LEMMA PathsAre ==
    ASSUME NEW tree, Len(tree) \in Nat,
           \A m \in 1..Len(tree) :
              tree[m].type # "array" => tree[m].children \subseteq (m + 1)..Len(tree),
           NEW g, IsPrinter(tree, g),
           NEW n \in 1..Len(tree)
    PROVE  Paths(tree, n) = g[n]
<1> DEFINE below[m \in 1..Len(tree)] ==
              IF tree[m].type = "array" THEN {<<c>> : c \in tree[m].children}
              ELSE UNION {{<<tree[c].label>> \o p : p \in below[c] \union {<<>>}} :
                          c \in tree[m].children}
<1>1. Paths(tree, n) = below[n]
  BY DEF Paths
<1>2. IsPrinter(tree, below)
  BY ZenonT(30) DEF IsPrinter, Printed, PrintedChild, Under
<1> HIDE DEF below
<1>3. below = g
  BY <1>2, PathsAreUnique
<1> QED BY <1>1, <1>3

LEMMA ChildrenComeLater ==
    ASSUME NEW tree, NEW place, Shape(tree, place), NEW m \in 1..Len(tree),
           tree[m].type # "array"
    PROVE  tree[m].children \subseteq (m + 1)..Len(tree)
<1>1. CASE m = 1
  BY <1>1 DEF Shape, IsPlaced
<1>2. CASE m # 1
  <2>1. m \in 2..Len(tree) /\ tree[m].type = "object"
    BY <1>2 DEF Shape, IsPlaced
  <2> SUFFICES ASSUME NEW c \in tree[m].children PROVE c \in (m + 1)..Len(tree)
    OBVIOUS
  <2>2. c \in 2..Len(tree) /\ place[c] # <<>> /\ Parent(place[c]) = place[m]
    BY <2>1 DEF Shape, IsPlaced
  <2>3. Len(place[c]) \in Nat \ {0}
    BY <2>2, HasParent DEF Shape, IsPlaced
  <2> DEFINE k == Len(place[c]) - 1
  <2>4. k \in Nat /\ k < Len(place[c])
    BY <2>3
  <2> HIDE DEF k
  <2>5. PICK b \in 2..Len(tree) : b < c /\ place[b] = SubSeq(place[c], 1, k)
    <3>1. c \in 2..Len(tree)
      BY <2>2
    <3>2. \E b \in 2..Len(tree) :
              b < c /\ place[b] = SubSeq(place[c], 1, k) /\ tree[b].type = "object"
      BY <2>4, <3>1, AboveNode
    <3> QED BY <3>2
  <2>6. place[b] = place[m]
    BY <2>2, <2>5 DEF Parent, k
  <2>7. b = m
    BY <2>1, <2>6 DEF Shape, IsPlaced
  <2> QED BY <2>2, <2>5, <2>7 DEF Shape, IsPlaced
<1> QED BY <1>1, <1>2

\* What is printed of each node: the directories and files that are below it.
Entries(tree, place) == {e \in Seq(Name) : Entry(tree, place, e)}
BelowNode(tree, place, m) == {p \in Seq(Name) : p # <<>> /\ Entry(tree, place, place[m] \o p)}
Printer(tree, place) ==
    [m \in 1..Len(tree) |->
        IF m = 1 THEN {Under("tests", e) : e \in Entries(tree, place)}
        ELSE BelowNode(tree, place, m)]

LEMMA PrintedArray ==
    ASSUME NEW tree, NEW place, Shape(tree, place), NEW m \in 2..Len(tree),
           tree[m].type = "array", NEW f
    PROVE  BelowNode(tree, place, m) = Printed(tree, f, m)
<1>1. Printed(tree, f, m) = {<<c>> : c \in tree[m].children}
  BY DEF Printed
<1>2. ASSUME NEW p \in BelowNode(tree, place, m) PROVE p \in {<<c>> : c \in tree[m].children}
  <2>1. p \in Seq(Name) /\ p # <<>> /\ Entry(tree, place, place[m] \o p)
    BY DEF BelowNode
  <2>2. \E c \in tree[m].children : p = <<c>>
    BY <2>1, BelowArray
  <2> QED BY <2>2
<1>3. ASSUME NEW c \in tree[m].children PROVE <<c>> \in BelowNode(tree, place, m)
  <2>1. c \in Name
    BY DEF Shape, IsPlaced
  <2> DEFINE p == <<c>>
  <2>2. p \in Seq(Name) /\ p # <<>> /\ p = <<c>>
    BY <2>1
  <2> HIDE DEF p
  <2>3. Entry(tree, place, place[m] \o p)
    BY <2>2, BelowArray
  <2>4. p \in BelowNode(tree, place, m)
    BY <2>2, <2>3 DEF BelowNode
  <2> QED BY <2>4 DEF p
<1> QED BY <1>1, <1>2, <1>3

LEMMA UnderType ==
    ASSUME NEW x \in Name, NEW p \in Seq(Name)
    PROVE  Under(x, p) \in Seq(Name) /\ Under(x, p) # <<>>
<1> DEFINE s == <<x>>
<1>1. s \in Seq(Name) /\ Len(s) = 1 /\ Len(p) \in Nat
  BY Single, LenProperties
<1> HIDE DEF s
<1>2. s \o p \in Seq(Name) /\ Len(s \o p) = 1 + Len(p)
  <2>1. s \o p \in Seq(Name) /\ Len(s \o p) = Len(s) + Len(p)
    BY <1>1, ConcatProperties, Zenon
  <2> QED BY <1>1, <2>1
<1>3. s \o p # <<>>
  BY <1>1, <1>2, EmptySeq
<1> QED BY <1>2, <1>3 DEF Under, s

LEMMA UnderAll ==
    ASSUME NEW q \in Seq(Name), q # <<>>
    PROVE  \E x \in Name : \E p \in Seq(Name) : q = Under(x, p)
<1>1. 1 \in 1..Len(q) /\ Len(q) \in 1..Len(q) /\ Len(q) \in Nat
  BY EmptySeq, LenProperties
<1>2. q = <<q[1]>> \o SubSeq(q, 2, Len(q))
  <2>1. SubSeq(q, 1, Len(q)) = <<q[1]>> \o SubSeq(q, 1 + 1, Len(q))
    BY <1>1, SubSeqRecursiveFirst
  <2> QED BY <2>1, SubSeqFull
<1>3. q[1] \in Name
  BY <1>1, ElementOfSeq
<1>4. SubSeq(q, 2, Len(q)) \in Seq(Name)
  <2>1. \A i \in 2..Len(q) : q[i] \in Name
    BY ElementOfSeq, <1>1
  <2> QED BY <1>1, <2>1, SubSeqProperties
<1> QED BY <1>2, <1>3, <1>4 DEF Under

LEMMA PrintedNode ==
    ASSUME NEW tree, NEW place, Shape(tree, place), NEW m \in 2..Len(tree),
           tree[m].type = "object", NEW f,
           \A c \in 2..Len(tree) : f[c] = BelowNode(tree, place, c)
    PROVE  BelowNode(tree, place, m) = Printed(tree, f, m)
<1>1. \A c \in tree[m].children :
         c \in 2..Len(tree) /\ place[c] # <<>> /\ tree[c].label = Label(place[c])
  BY DEF Shape, IsPlaced
<1>2. ASSUME NEW c \in tree[m].children PROVE tree[c].label \in Name
  <2>1. place[c] \in Seq(Name) /\ place[c] # <<>>
    BY <1>1 DEF Shape, IsPlaced
  <2> QED BY <1>1, <2>1, HasParent
<1>3. ASSUME NEW x \in Name, NEW r \in Seq(Name)
      PROVE  Entry(tree, place, place[m] \o Under(x, r)) <=>
                \E c \in tree[m].children :
                    tree[c].label = x /\ (r = <<>> \/ Entry(tree, place, place[c] \o r))
  BY BelowObject DEF Under
<1>4. ASSUME NEW q \in BelowNode(tree, place, m) PROVE q \in Printed(tree, f, m)
  <2>1. q \in Seq(Name) /\ q # <<>> /\ Entry(tree, place, place[m] \o q)
    BY DEF BelowNode
  <2>2. PICK x \in Name, r \in Seq(Name) : q = Under(x, r)
    BY <2>1, UnderAll
  <2>3. PICK c \in tree[m].children :
           tree[c].label = x /\ (r = <<>> \/ Entry(tree, place, place[c] \o r))
    BY <1>3, <2>1, <2>2
  <2>4. f[c] = BelowNode(tree, place, c)
    BY <1>1
  <2>5. r \in f[c] \union {<<>>}
    BY <2>3, <2>4 DEF BelowNode
  <2> QED BY <2>2, <2>3, <2>5, PrintedAll
<1>5. ASSUME NEW q \in Printed(tree, f, m) PROVE q \in BelowNode(tree, place, m)
  <2>1. PICK c \in tree[m].children : \E p \in f[c] \union {<<>>} : q = Under(tree[c].label, p)
    BY PrintedSome
  <2>2. PICK p \in f[c] \union {<<>>} : q = Under(tree[c].label, p)
    BY <2>1
  <2>3. p \in Seq(Name) /\ (p = <<>> \/ Entry(tree, place, place[c] \o p))
    <3>1. f[c] = BelowNode(tree, place, c)
      BY <1>1
    <3> QED BY <2>2, <3>1, EmptySeq DEF BelowNode
  <2>4. tree[c].label \in Name
    BY <1>2
  <2>5. Entry(tree, place, place[m] \o q)
    BY <1>3, <2>2, <2>3, <2>4
  <2>6. q \in Seq(Name) /\ q # <<>>
    BY <2>2, <2>3, <2>4, UnderType
  <2> QED BY <2>5, <2>6 DEF BelowNode
<1> QED BY <1>4, <1>5

\* The first node prints "tests" and all there is.
LEMMA PrintedTarget ==
    ASSUME NEW tree, NEW place, Shape(tree, place), NEW f,
           \A c \in 2..Len(tree) : f[c] = BelowNode(tree, place, c)
    PROVE  {Under("tests", e) : e \in Entries(tree, place)} = Printed(tree, f, 1)
<1>1. /\ tree[1].type # "array"
      /\ tree[1].children = {n \in 2..Len(tree) : place[n] = <<>>}
      /\ \A c \in tree[1].children : tree[c].label = Label(place[c])
  BY DEF Shape, IsPlaced
<1>2. \A c \in tree[1].children :
         c \in 2..Len(tree) /\ place[c] = <<>> /\ tree[c].label = "tests"
  BY <1>1 DEF Label
<1>3. \A p \in Seq(Name) : <<>> \o p = p
  BY ConcatEmptySeq
<1>4. ASSUME NEW e \in Entries(tree, place) PROVE Under("tests", e) \in Printed(tree, f, 1)
  <2>1. e \in Seq(Name) /\ Entry(tree, place, e)
    BY DEF Entries
  <2>2. \E n \in 2..Len(tree) : place[n] = <<>>
    <3>1. 2 \in 2..Len(tree)
      BY <2>1 DEF Entry, IsDir, IsFile, Shape
    <3>2. place[2] \in Seq(Name) /\ Len(place[2]) \in Nat
      BY <3>1, LenProperties DEF Shape, IsPlaced
    <3>3. 0 < Len(place[2]) => \E b \in 2..Len(tree) : b < 2
      BY <3>1, AboveNode
    <3>4. Len(place[2]) = 0
      BY <3>2, <3>3
    <3> QED BY <3>1, <3>2, <3>4, EmptySeq
  <2>3. PICK c \in tree[1].children : c \in 2..Len(tree) /\ place[c] = <<>>
    BY <1>1, <2>2
  <2>4. e \in f[c] \union {<<>>}
    <3>1. f[c] = BelowNode(tree, place, c) /\ place[c] \o e = e
      BY <1>3, <2>1, <2>3
    <3> QED BY <2>1, <3>1 DEF BelowNode
  <2>5. Under(tree[c].label, e) \in Printed(tree, f, 1)
    BY <1>1, <2>4, PrintedAll
  <2> QED BY <1>2, <2>5
<1>5. ASSUME NEW q \in Printed(tree, f, 1) PROVE \E e \in Entries(tree, place) : q = Under("tests", e)
  <2>1. PICK c \in tree[1].children : \E p \in f[c] \union {<<>>} : q = Under(tree[c].label, p)
    BY <1>1, PrintedSome
  <2>2. PICK p \in f[c] \union {<<>>} : q = Under("tests", p)
    BY <1>2, <2>1
  <2>3. p \in Seq(Name) /\ (p = <<>> \/ Entry(tree, place, p))
    <3>1. f[c] = BelowNode(tree, place, c) /\ place[c] = <<>>
      BY <1>2
    <3>2. CASE p = <<>>
      BY <3>2, EmptySeq
    <3>3. CASE p \in f[c]
      <4>1. p \in Seq(Name) /\ Entry(tree, place, <<>> \o p)
        BY <3>1, <3>3 DEF BelowNode
      <4> QED BY <1>3, <4>1
    <3> QED BY <3>2, <3>3
  <2>4. Entry(tree, place, <<>>)
    BY <1>2 DEF Entry, IsDir
  <2> QED BY <2>2, <2>3, <2>4 DEF Entries
<1> QED BY <1>4, <1>5

\* mjson_print prints the directories and files of the nodes, each in its place.
THEOREM PathsAreEntries ==
    ASSUME NEW tree, NEW place, Shape(tree, place)
    PROVE  Paths(tree, 1) = {<<"tests">> \o e : e \in Entries(tree, place)}
<1> DEFINE f == Printer(tree, place)
<1>1. Len(tree) \in Nat /\ 1 \in 1..Len(tree)
  BY DEF Shape, IsPlaced
<1>2. /\ f = [m \in 1..Len(tree) |-> f[m]]
      /\ f[1] = {Under("tests", e) : e \in Entries(tree, place)}
      /\ \A c \in 2..Len(tree) : f[c] = BelowNode(tree, place, c)
  BY <1>1 DEF Printer
<1> HIDE DEF f
<1>3. \A m \in 1..Len(tree) : f[m] = Printed(tree, f, m)
  <2>1. f[1] = Printed(tree, f, 1)
    BY <1>2, PrintedTarget
  <2>2. ASSUME NEW m \in 2..Len(tree) PROVE f[m] = Printed(tree, f, m)
    <3>1. CASE tree[m].type = "array"
      BY <1>2, <3>1, PrintedArray
    <3>2. CASE tree[m].type = "object"
      BY <1>2, <3>2, PrintedNode
    <3> QED BY <3>1, <3>2 DEF Shape, IsPlaced
  <2> QED BY <1>1, <2>1, <2>2
<1>4. IsPrinter(tree, f)
  BY <1>2, <1>3 DEF IsPrinter
<1>5. Paths(tree, 1) = f[1]
  BY <1>1, <1>4, ChildrenComeLater, PathsAre
<1> QED BY <1>2, <1>5 DEF Under
-----------------------------------------------------------------------------
(* How the tree grows *)

LEMMA AddChildIs ==
    ASSUME NEW node, IsNode(node), NEW child
    PROVE  /\ AddChild(node, child).type = node.type
           /\ AddChild(node, child).label = node.label
           /\ AddChild(node, child).children = node.children \union {child}
<1> DEFINE roomy == IF Full(node) THEN Expanded(node) ELSE node
<1>1. /\ DOMAIN roomy = {"type", "label", "max", "children"} /\ roomy.children = node.children
      /\ roomy.type = node.type /\ roomy.label = node.label
  BY DEF IsNode, Full, Expanded
<1>2. AddChild(node, child) = [roomy EXCEPT !.children = @ \union {child}]
  BY DEF AddChild
<1> HIDE DEF roomy
<1> QED BY <1>1, <1>2

WithChild(tree, n, x) == [tree EXCEPT ![n] = AddChild(@, x)]

\* t is the tree with the child x added to node n.
HasMore(tree, n, x, t) ==
    /\ Len(t) = Len(tree) /\ \A i \in 1..Len(tree) : i # n => t[i] = tree[i]
    /\ t[n].type = tree[n].type /\ t[n].label = tree[n].label
    /\ t[n].children = tree[n].children \union {x}

LEMMA WithChildIs ==
    ASSUME NEW tree, AreNodes(tree), NEW n \in 1..Len(tree), NEW x
    PROVE  HasMore(tree, n, x, WithChild(tree, n, x))
<1> DEFINE t == WithChild(tree, n, x)
<1>1. Len(tree) \in Nat /\ DOMAIN tree = 1..Len(tree) /\ IsNode(tree[n])
  BY DEF AreNodes, IsSequence
<1>2. t = [i \in 1..Len(tree) |-> IF i = n THEN AddChild(tree[n], x) ELSE tree[i]]
  BY <1>1 DEF WithChild
<1> HIDE DEF t
<1>3. Len(t) = Len(tree) /\ t[n] = AddChild(tree[n], x)
  BY <1>1, <1>2
<1>4. \A i \in 1..Len(tree) : i # n => t[i] = tree[i]
  BY <1>2
<1>5. HasMore(tree, n, x, t)
  BY <1>1, <1>3, <1>4, AddChildIs DEF HasMore
<1> QED BY <1>5 DEF t

LEMMA AppendIs ==
    ASSUME NEW tree, AreNodes(tree), NEW node, NEW t, t = Append(tree, node)
    PROVE  /\ Len(t) = Len(tree) + 1 /\ t[Len(tree) + 1] = node
           /\ \A i \in 1..Len(tree) : t[i] = tree[i]
<1> DEFINE S == {tree[i] : i \in 1..Len(tree)} \union {node}
<1>1. Len(tree) \in Nat /\ tree \in Seq(S) /\ node \in S
  <2>1. Len(tree) \in Nat /\ tree \in [1..Len(tree) -> S]
    BY DEF AreNodes, IsSequence
  <2> HIDE DEF S
  <2>2. tree \in Seq(S)
    BY <2>1, SeqDef
  <2> QED BY <2>1, <2>2 DEF S
<1> HIDE DEF S
<1> QED BY <1>1, AppendProperties

LEMMA AddLabeledIs ==
    ASSUME NEW tree, AreNodes(tree), NEW parent \in 1..Len(tree),
           NEW type, NEW label, NEW max, NEW t, t = AddLabeled(tree, parent, type, label, max)
    PROVE  /\ Len(t) = Len(tree) + 1 /\ t[Len(tree) + 1] = Node(type, label, max)
           /\ \A i \in 1..Len(tree) : i # parent => t[i] = tree[i]
           /\ t[parent].type = tree[parent].type /\ t[parent].label = tree[parent].label
           /\ t[parent].children = tree[parent].children \union {Len(tree) + 1}
<1> DEFINE u == WithChild(tree, parent, Len(tree) + 1)
<1>1. AreNodes(u)
  BY ChangeNode DEF WithChild
<1>2. /\ Len(u) = Len(tree) /\ \A i \in 1..Len(tree) : i # parent => u[i] = tree[i]
      /\ u[parent].type = tree[parent].type /\ u[parent].label = tree[parent].label
      /\ u[parent].children = tree[parent].children \union {Len(tree) + 1}
  BY WithChildIs DEF HasMore
<1>3. t = Append(u, Node(type, label, max))
  BY DEF AddLabeled, WithChild
<1> HIDE DEF u
<1>4. /\ Len(t) = Len(u) + 1 /\ t[Len(u) + 1] = Node(type, label, max)
      /\ \A i \in 1..Len(u) : t[i] = u[i]
  BY <1>1, <1>3, AppendIs
<1> QED BY <1>2, <1>4

\* The tree with which jsonize_tree starts has the node for the target still to come.
LEMMA ShapeFirst ==
    ASSUME NEW max PROVE Shape(<<Node("object", "", max)>>, [n \in 2..1 |-> <<>>])
<1> DEFINE tree == <<Node("object", "", max)>>
           place == [n \in 2..1 |-> <<>>]
<1>1. Len(tree) = 1 /\ tree[1].type = "object" /\ tree[1].children = {} /\ 2..1 = {}
  <2>1. tree[1] = Node("object", "", max) /\ Len(tree) = 1
    OBVIOUS
  <2>2. Node("object", "", max).type = "object" /\ Node("object", "", max).children = {}
    BY DEF Node
  <2> HIDE DEF tree
  <2>3. 2..1 = {}
    OBVIOUS
  <2> QED BY <2>1, <2>2, <2>3
<1>2. place \in [2..1 -> Seq(Name)]
  BY <1>1
<1> HIDE DEF tree, place
<1>3. Shape(tree, place)
  BY <1>1, <1>2 DEF Shape
<1> QED BY <1>3 DEF tree, place

LEMMA ShapeName ==
    ASSUME NEW tree, NEW place, AreNodes(tree), Shape(tree, place),
           NEW n \in 2..Len(tree), tree[n].type = "array", NEW x \in Name
    PROVE  Shape(WithChild(tree, n, x), place)
<1> DEFINE t == WithChild(tree, n, x)
<1>1. n \in 1..Len(tree) /\ 1 \in 1..Len(tree) /\ n # 1 /\ Len(tree) \in Nat
  BY DEF Shape
<1>2. /\ Len(t) = Len(tree) /\ \A i \in 1..Len(tree) : i # n => t[i] = tree[i]
      /\ t[n].type = tree[n].type /\ t[n].label = tree[n].label
      /\ t[n].children = tree[n].children \union {x}
  BY <1>1, WithChildIs DEF HasMore
<1> HIDE DEF t
<1>3. /\ t[1] = tree[1]
      /\ \A i \in 2..Len(tree) : i # n => t[i] = tree[i]
      /\ \A i \in 2..Len(tree) : t[i].type = tree[i].type /\ t[i].label = tree[i].label
  BY <1>1, <1>2
<1>4. /\ Len(t) \in Nat \ {0} /\ place \in [2..Len(t) -> Seq(Name)]
      /\ \A a, b \in 2..Len(t) : place[a] = place[b] => a = b
      /\ t[1].type = "object"
      /\ t[1].children = {a \in 2..Len(t) : place[a] = <<>>}
  BY <1>2, <1>3 DEF Shape
<1>5. ASSUME NEW i \in 2..Len(t) PROVE IsPlaced(t, place, i)
  <2>1. IsPlaced(tree, place, i) /\ i \in 2..Len(tree) /\ Len(t) = Len(tree)
    BY <1>2 DEF Shape
  <2>2. CASE i = n
    BY <1>2, <2>1, <2>2 DEF IsPlaced
  <2>3. CASE i # n
    <3>1. t[i] = tree[i]
      BY <1>3, <2>1, <2>3
    <3> QED BY <2>1, <3>1 DEF IsPlaced
  <2> QED BY <2>2, <2>3
<1>6. ASSUME NEW i \in 2..Len(t) PROVE IsReached(t, place, i)
  <2>1. IsReached(tree, place, i) /\ Len(t) = Len(tree)
    BY <1>2 DEF Shape
  <2> SUFFICES ASSUME NEW k \in 0..(Len(place[i]) - 1)
               PROVE  \E m \in 2..Len(t) :
                         m < i /\ place[m] = SubSeq(place[i], 1, k) /\ t[m].type = "object"
    BY DEF IsReached
  <2>2. PICK m \in 2..Len(tree) :
           m < i /\ place[m] = SubSeq(place[i], 1, k) /\ tree[m].type = "object"
    BY <2>1 DEF IsReached
  <2>3. m \in 2..Len(t) /\ t[m].type = "object"
    BY <1>3, <2>1, <2>2
  <2> QED BY <2>2, <2>3
<1>7. Shape(t, place)
  BY <1>4, <1>5, <1>6 DEF Shape
<1> QED BY <1>7 DEF t

WithPlace(place, n, d) == [m \in 2..n |-> IF m = n THEN d ELSE place[m]]

\* Node parent may get a node for directory d.
MayHold(tree, place, parent, d) ==
    /\ parent \in 1..Len(tree) /\ d \in Seq(Name)
    /\ \A n \in 2..Len(tree) : place[n] # d
    /\ \/ parent = 1 /\ d = <<>>
       \/ /\ parent # 1 /\ d # <<>>
          /\ tree[parent].type = "object" /\ place[parent] = Parent(d)

\* t is the tree with that node, and q gives its directory.
HasNode(tree, parent, d, t) ==
    /\ Len(t) = Len(tree) + 1
    /\ t[Len(t)].type \in {"object", "array"} /\ t[Len(t)].label = Label(d)
    /\ t[Len(t)].children = {}
    /\ \A i \in 1..Len(tree) : i # parent => t[i] = tree[i]
    /\ \A i \in 1..Len(tree) : t[i].type = tree[i].type /\ t[i].label = tree[i].label
    /\ t[parent].children = tree[parent].children \union {Len(t)}
HasPlace(place, n, d, q) ==
    q \in [2..n -> Seq(Name)] /\ q[n] = d /\ \A m \in 2..(n - 1) : q[m] = place[m]

LEMMA ShapeMore ==
    ASSUME NEW tree, NEW place, Shape(tree, place),
           NEW parent, NEW d, MayHold(tree, place, parent, d),
           NEW t, HasNode(tree, parent, d, t), NEW q, HasPlace(place, Len(t), d, q)
    PROVE  Shape(t, q)
<1> DEFINE N == Len(tree)
           M == Len(t)
<1>1. /\ N \in Nat \ {0} /\ M = N + 1 /\ M \in Nat
      /\ 1 \in 1..N /\ 2..M = 2..N \union {M} /\ M \notin 2..N
  BY DEF HasNode, Shape
<1>2. /\ place \in [2..N -> Seq(Name)] /\ \A m, n \in 2..N : place[m] = place[n] => m = n
      /\ tree[1].type = "object" /\ tree[1].children = {n \in 2..N : place[n] = <<>>}
      /\ \A n \in 2..N : IsPlaced(tree, place, n) /\ IsReached(tree, place, n)
  BY DEF Shape
<1>3. /\ parent \in 1..N /\ d \in Seq(Name) /\ \A n \in 2..N : place[n] # d
      /\ \/ parent = 1 /\ d = <<>>
         \/ /\ parent # 1 /\ d # <<>>
            /\ tree[parent].type = "object" /\ place[parent] = Parent(d)
  BY DEF MayHold
<1>4. /\ t[M].type \in {"object", "array"} /\ t[M].label = Label(d) /\ t[M].children = {}
      /\ \A i \in 1..N : i # parent => t[i] = tree[i]
      /\ \A i \in 1..N : t[i].type = tree[i].type /\ t[i].label = tree[i].label
      /\ t[parent].children = tree[parent].children \union {M}
  BY DEF HasNode
<1>5. q \in [2..M -> Seq(Name)] /\ q[M] = d /\ \A m \in 2..N : q[m] = place[m]
  BY <1>1 DEF HasPlace
<1>6. ASSUME NEW n \in 2..N, NEW k \in Nat, k < Len(place[n])
      PROVE  \E m \in 2..N :
                m < n /\ place[m] = SubSeq(place[n], 1, k) /\ tree[m].type = "object"
  BY <1>6, AboveNode
<1> HIDE DEF N, M
<1>7. d # <<>> => /\ Len(d) \in Nat \ {0} /\ Parent(d) \in Seq(Name)
                  /\ Len(Parent(d)) = Len(d) - 1 /\ d = Parent(d) \o <<Label(d)>>
                  /\ Label(d) \in Name
  BY <1>3, HasParent
<1>8. ASSUME NEW n \in 2..N, place[n] # <<>> PROVE Parent(place[n]) # d
  <2> DEFINE k == Len(place[n]) - 1
  <2>1. k \in Nat /\ k < Len(place[n])
    <3>1. place[n] \in Seq(Name)
      BY <1>2
    <3> QED BY <1>8, <3>1, HasParent
  <2>2. Parent(place[n]) = SubSeq(place[n], 1, k)
    BY DEF Parent
  <2> HIDE DEF k
  <2>3. PICK m \in 2..N : place[m] = SubSeq(place[n], 1, k)
    BY <1>6, <2>1
  <2> QED BY <1>3, <2>2, <2>3
<1>9. t[1].type = "object" /\ t[1].children = {n \in 2..M : q[n] = <<>>}
  <2>1. {n \in 2..N : q[n] = <<>>} = {n \in 2..N : place[n] = <<>>}
    BY <1>5
  <2>2. CASE parent = 1 /\ d = <<>>
    <3>1. {n \in 2..M : q[n] = <<>>} = {n \in 2..N : q[n] = <<>>} \union {M}
      BY <1>1, <1>5, <2>2
    <3>2. t[1].children = tree[1].children \union {M} /\ t[1].type = tree[1].type
      BY <1>1, <1>4, <2>2
    <3> QED BY <1>2, <2>1, <3>1, <3>2
  <2>3. CASE parent # 1 /\ d # <<>>
    BY <1>1, <1>2, <1>4, <1>5, <2>1, <2>3, SMTT(30)
  <2> QED BY <1>3, <2>2, <2>3
<1>10. ASSUME NEW i \in 2..N PROVE IsPlaced(t, q, i)
  <2>1. /\ i \in 1..N /\ IsPlaced(tree, place, i) /\ i # 1 /\ q[i] = place[i]
        /\ t[i].type = tree[i].type /\ t[i].label = tree[i].label
    BY <1>1, <1>2, <1>4, <1>5
  <2> DEFINE Old == {c \in 2..N : place[c] # <<>> /\ Parent(place[c]) = place[i]}
             New == {c \in 2..M : q[c] # <<>> /\ Parent(q[c]) = q[i]}
  <2>2. CASE i # parent
    <3>1. t[i] = tree[i]
      BY <1>4, <2>1, <2>2
    <3>2. ~(d # <<>> /\ Parent(d) = place[i])
      BY <1>1, <1>2, <1>3, <2>1, <2>2
    <3>3. New = Old
      BY <1>1, <1>5, <2>1, <3>2
    <3> QED BY <2>1, <3>1, <3>3 DEF IsPlaced, N, M
  <2>3. CASE i = parent
    <3>1. t[i].children = tree[i].children \union {M} /\ tree[i].type = "object"
      BY <1>3, <1>4, <2>1, <2>3
    <3>2. d # <<>> /\ Parent(d) = place[i]
      BY <1>3, <2>1, <2>3
    <3>3. New = Old \union {M}
      BY <1>1, <1>5, <2>1, <3>2
    <3> QED BY <2>1, <3>1, <3>3 DEF IsPlaced, N, M
  <2> QED BY <2>2, <2>3
<1>11. IsPlaced(t, q, M)
  <2>1. \A c \in 2..N : ~(q[c] # <<>> /\ Parent(q[c]) = q[M])
    BY <1>5, <1>8
  <2>2. ~(q[M] # <<>> /\ Parent(q[M]) = q[M])
    BY <1>5, <1>7
  <2>3. {c \in 2..M : q[c] # <<>> /\ Parent(q[c]) = q[M]} = {}
    BY <1>1, <2>1, <2>2
  <2> QED BY <1>4, <1>5, <2>3 DEF IsPlaced, M
<1>12. ASSUME NEW i \in 2..N, NEW k \in Nat, k < Len(place[i])
       PROVE  \E m \in 2..M : m < i /\ q[m] = SubSeq(place[i], 1, k) /\ t[m].type = "object"
  <2>1. PICK m \in 2..N :
           m < i /\ place[m] = SubSeq(place[i], 1, k) /\ tree[m].type = "object"
    BY <1>6, <1>12
  <2>2. m \in 2..M /\ m \in 1..N
    BY <1>1
  <2> QED BY <1>4, <1>5, <2>1, <2>2
<1>13. ASSUME NEW i \in 2..N PROVE IsReached(t, q, i)
  <2>1. q[i] = place[i] /\ place[i] \in Seq(Name)
    BY <1>2, <1>5
  <2>2. ASSUME NEW k \in 0..(Len(q[i]) - 1)
        PROVE  \E m \in 2..M : m < i /\ q[m] = SubSeq(q[i], 1, k) /\ t[m].type = "object"
    <3>1. k \in Nat /\ k < Len(place[i])
      BY <2>1, <2>2, LenProperties
    <3> QED BY <1>12, <2>1, <3>1
  <2> QED BY <2>2 DEF IsReached, M
<1>14. ASSUME NEW k \in 0..(Len(d) - 1)
       PROVE  \E m \in 2..M : m < M /\ q[m] = SubSeq(d, 1, k) /\ t[m].type = "object"
  <2>1. Len(d) \in Nat /\ k \in Nat /\ k < Len(d) /\ d # <<>>
    BY <1>3, LenProperties, EmptySeq
  <2>2. /\ parent \in 2..N /\ parent \in 1..N /\ parent \in 2..M /\ parent < M
        /\ tree[parent].type = "object" /\ place[parent] = Parent(d)
    BY <1>1, <1>3, <2>1
  <2>3. CASE k = Len(d) - 1
    <3>1. Parent(d) = SubSeq(d, 1, k)
      BY <2>3 DEF Parent
    <3> QED BY <1>4, <1>5, <2>2, <3>1
  <2>4. CASE k # Len(d) - 1
    <3>1. k < Len(place[parent]) /\ k \in 0..Len(Parent(d))
      BY <1>7, <2>1, <2>2, <2>4
    <3>2. PICK m \in 2..M : /\ m < parent /\ q[m] = SubSeq(place[parent], 1, k)
                            /\ t[m].type = "object"
      BY <1>12, <2>1, <2>2, <3>1
    <3>3. SubSeq(Parent(d) \o <<Label(d)>>, 1, k) = SubSeq(Parent(d), 1, k)
      BY <1>7, <2>1, <3>1, PrefixOfConcat, Single
    <3>4. q[m] = SubSeq(d, 1, k)
      BY <1>7, <2>1, <2>2, <3>2, <3>3
    <3>5. m < M
      BY <1>1, <2>2, <3>2
    <3> QED BY <3>2, <3>4, <3>5
  <2> QED BY <2>3, <2>4
<1>15. IsReached(t, q, M)
  <2>1. q[M] = d
    BY <1>5
  <2> QED BY <1>14, <2>1 DEF IsReached, M
<1>16. \A m, n \in 2..M : q[m] = q[n] => m = n
  <2> SUFFICES ASSUME NEW m \in 2..M, NEW n \in 2..M, q[m] = q[n] PROVE m = n
    OBVIOUS
  <2>1. CASE m \in 2..N /\ n \in 2..N
    BY <1>2, <1>5, <2>1
  <2>2. CASE m = M \/ n = M
    BY <1>1, <1>3, <1>5, <2>2
  <2> QED BY <1>1, <2>1, <2>2
<1>17. \A n \in 2..M : IsPlaced(t, q, n) /\ IsReached(t, q, n)
  BY <1>1, <1>10, <1>11, <1>13, <1>15
<1> QED BY <1>1, <1>5, <1>9, <1>16, <1>17 DEF Shape, M

\* A node for a directory that has none yet, below the node of its parent.
LEMMA ShapeNode ==
    ASSUME NEW tree, NEW place, AreNodes(tree), Shape(tree, place),
           NEW parent \in 1..Len(tree), NEW d \in Seq(Name),
           \A n \in 2..Len(tree) : place[n] # d,
           \/ parent = 1 /\ d = <<>>
           \/ /\ parent # 1 /\ d # <<>>
              /\ tree[parent].type = "object" /\ place[parent] = Parent(d),
           NEW type \in {"object", "array"}, NEW max
    PROVE  Shape(AddLabeled(tree, parent, type, Label(d), max),
                 WithPlace(place, Len(tree) + 1, d))
<1> DEFINE N == Len(tree)
           M == N + 1
           t == AddLabeled(tree, parent, type, Label(d), max)
           q == WithPlace(place, M, d)
<1>1. N \in Nat \ {0} /\ M \in Nat /\ 2..M = 2..N \union {M} /\ M \notin 2..N
  <2>1. N \in Nat \ {0}
    BY DEF Shape
  <2> HIDE DEF N
  <2> QED BY <2>1
<1>2. HasPlace(place, M, d, q)
  BY <1>1 DEF WithPlace, Shape, HasPlace
<1>3. /\ Len(t) = M /\ t[M] = Node(type, Label(d), max)
      /\ \A i \in 1..N : i # parent => t[i] = tree[i]
      /\ t[parent].type = tree[parent].type /\ t[parent].label = tree[parent].label
      /\ t[parent].children = tree[parent].children \union {M}
  BY AddLabeledIs
<1>4. /\ t[M].type = type /\ t[M].label = Label(d) /\ t[M].children = {}
      /\ \A i \in 1..N : t[i].type = tree[i].type /\ t[i].label = tree[i].label
  BY <1>3 DEF Node
<1>5. MayHold(tree, place, parent, d)
  BY DEF MayHold
<1> HIDE DEF t, q
<1>6. HasNode(tree, parent, d, t) /\ Len(t) = M
  BY <1>3, <1>4 DEF HasNode
<1> HIDE DEF N, M
<1>7. Shape(t, q)
  BY <1>2, <1>5, <1>6, ShapeMore
<1> QED BY <1>7 DEF t, q, M, N
-----------------------------------------------------------------------------
(* The walk *)

\* What a site holds: each directory is in another, down to the target, and each
\* file is in a directory.
IsSite(ds, fs) ==
    /\ <<>> \in ds /\ ds \subseteq Seq(Name) /\ \A d \in ds \ {<<>>} : Parent(d) \in ds
    /\ fs \subseteq ds \X Name

NamesIn(d, fs) == {f[2] : f \in {g \in fs : g[1] = d}}
SubdirsIn(d, ds) == {e \in ds : e # <<>> /\ Parent(e) = d}

IsCall(c) == DOMAIN c = {"dir", "parent", "step", "node", "listed", "seen"}
AreCalls(stack) == IsSequence(stack) /\ \A i \in 1..Len(stack) : IsCall(stack[i])

\* b is what the job found at first, ds and fs are what there is now.
NodeInv(tree, place, b, ds, fs, n) ==
    /\ place[n] \in ds
    /\ tree[n].type = "array" =>
          tree[n].children \subseteq NamesIn(place[n], fs) /\ NamesIn(place[n], fs) # {}
    /\ tree[n].type = "object" => NamesIn(place[n], b.files) = {}

\* Nothing that was there at first is left out of node n.
Complete(tree, place, b, n) ==
    /\ tree[n].type = "array" => NamesIn(place[n], b.files) \subseteq tree[n].children
    /\ tree[n].type = "object" =>
          \A e \in SubdirsIn(place[n], b.dirs) : IsDir(tree, place, e)

CallInv(tree, place, b, ds, fs, c) ==
    /\ c.dir \in ds /\ c.step \in {"test", "leaf", "nonleaf"}
    /\ c.step = "leaf" => NamesIn(c.dir, fs) # {}
    /\ c.step = "nonleaf" => NamesIn(c.dir, b.files) = {}
    /\ c.node = 0 => c.seen = {} /\ ~IsDir(tree, place, c.dir)
    /\ c.node # 0 =>
          /\ c.node \in 2..Len(tree) /\ place[c.node] = c.dir
          /\ \/ /\ c.step = "leaf" /\ tree[c.node].type = "array"
                /\ NamesIn(c.dir, b.files) \subseteq c.listed
                /\ c.seen \subseteq tree[c.node].children
             \/ /\ c.step = "nonleaf" /\ tree[c.node].type = "object"
                /\ SubdirsIn(c.dir, b.dirs) \subseteq c.listed
                /\ \A n \in tree[c.node].children : place[n] \in c.seen

\* Each call is for a directory in that of the call below it; what a call has seen
\* has a node, or the next call will make it.
\* Call x is the i-th of n, and y, if there is one, the call that it has made.
IsLink(tree, place, x, y, i, n) ==
    /\ Len(x.dir) = i - 1 /\ (i = 1 => x.parent = 1)
    /\ i < n => /\ x.step = "nonleaf" /\ x.node # 0
                /\ y.dir # <<>> /\ Parent(y.dir) = x.dir
                /\ y.parent = x.node /\ y.dir \in x.seen
    /\ x.step = "nonleaf" =>
          \A e \in x.seen : IsDir(tree, place, e) \/ (i < n /\ e = y.dir)

StackInv(tree, place, stack) ==
    \A i \in 1..Len(stack) :
       IsLink(tree, place, stack[i], stack[i + 1], i, Len(stack))

Walk(tree, stack, place, b, ds, fs) ==
    /\ \A n \in 2..Len(tree) : NodeInv(tree, place, b, ds, fs, n)
    /\ \A i \in 1..Len(stack) : CallInv(tree, place, b, ds, fs, stack[i])
    /\ StackInv(tree, place, stack)
    /\ \A n \in 2..Len(tree) :
          (\A i \in 1..Len(stack) : stack[i].node # n) => Complete(tree, place, b, n)
    /\ Len(stack) = 0 => IsDir(tree, place, <<>>)

\* Sequences of calls.
LEMMA SequenceIs ==
    ASSUME NEW s, IsSequence(s)
    PROVE  /\ Len(s) \in Nat /\ s \in Seq({s[i] : i \in 1..Len(s)})
           /\ s = <<>> <=> Len(s) = 0
<1> DEFINE S == {s[i] : i \in 1..Len(s)}
<1>1. Len(s) \in Nat /\ s \in [1..Len(s) -> S]
  BY DEF IsSequence
<1> HIDE DEF S
<1>2. s \in Seq(S)
  BY <1>1, SeqDef
<1> QED BY <1>1, <1>2, EmptySeq DEF S

ChangesTop(stack, c, s) ==
    /\ Len(s) = Len(stack) /\ s[Len(stack)] = c
    /\ \A i \in 1..(Len(stack) - 1) : s[i] = stack[i]

LEMMA WithTopIs ==
    ASSUME NEW stack, AreCalls(stack), stack # <<>>, NEW c, IsCall(c),
           NEW s, s = [stack EXCEPT ![Len(stack)] = c]
    PROVE  AreCalls(s) /\ ChangesTop(stack, c, s)
<1> DEFINE L == Len(stack)
<1>1. L \in Nat \ {0} /\ stack = [i \in 1..L |-> stack[i]] /\ \A i \in 1..L : IsCall(stack[i])
  BY SequenceIs DEF AreCalls, IsSequence
<1>2. s = [i \in 1..L |-> IF i = L THEN c ELSE stack[i]]
  BY <1>1
<1> HIDE DEF L
<1>3. Len(s) = L /\ s[L] = c /\ \A i \in 1..(L - 1) : s[i] = stack[i]
  BY <1>1, <1>2
<1>4. s = [i \in 1..Len(s) |-> s[i]]
  BY <1>2, <1>3
<1>5. \A i \in 1..Len(s) : IsCall(s[i])
  BY <1>1, <1>2, <1>3
<1> QED BY <1>1, <1>3, <1>4, <1>5 DEF AreCalls, IsSequence, ChangesTop, L

IsPushed(stack, c, s) == s = Append(stack, c)

LEMMA PushIs ==
    ASSUME NEW stack, AreCalls(stack), NEW c, IsCall(c), NEW s, IsPushed(stack, c, s)
    PROVE  /\ AreCalls(s) /\ Len(s) = Len(stack) + 1 /\ s[Len(stack) + 1] = c
           /\ \A i \in 1..Len(stack) : s[i] = stack[i]
<1> DEFINE S == {stack[i] : i \in 1..Len(stack)} \union {c}
<1>1. Len(stack) \in Nat /\ stack \in Seq(S) /\ c \in S /\ \A x \in S : IsCall(x)
  <2>1. Len(stack) \in Nat /\ stack \in [1..Len(stack) -> S]
    BY DEF AreCalls, IsSequence
  <2>2. \A x \in S : IsCall(x)
    BY DEF AreCalls
  <2> HIDE DEF S
  <2>3. stack \in Seq(S)
    BY <2>1, SeqDef
  <2> QED BY <2>1, <2>2, <2>3 DEF S
<1> HIDE DEF S
<1>2. /\ s \in Seq(S) /\ Len(s) = Len(stack) + 1 /\ s[Len(stack) + 1] = c
      /\ \A i \in 1..Len(stack) : s[i] = stack[i]
  BY <1>1, AppendProperties DEF IsPushed
<1>3. Len(s) \in Nat /\ s \in [1..Len(s) -> S]
  BY <1>2, LenProperties
<1>4. AreCalls(s)
  BY <1>1, <1>3 DEF AreCalls, IsSequence
<1> QED BY <1>2, <1>4

LEMMA PopIs ==
    ASSUME NEW stack, AreCalls(stack), stack # <<>>,
           NEW s, s = SubSeq(stack, 1, Len(stack) - 1)
    PROVE  /\ AreCalls(s) /\ Len(s) = Len(stack) - 1
           /\ \A i \in 1..(Len(stack) - 1) : s[i] = stack[i]
<1> DEFINE L == Len(stack)
           S == {stack[i] : i \in 1..L}
<1>1. L \in Nat \ {0} /\ \A i \in 1..L : stack[i] \in S /\ IsCall(stack[i])
  BY SequenceIs DEF AreCalls
<1>2. \A x \in S : IsCall(x)
  BY <1>1
<1> HIDE DEF L, S
<1>3. \A i \in 1..(L - 1) : stack[i] \in S
  BY <1>1
<1>4. /\ s \in Seq(S) /\ Len(s) = L - 1 /\ \A i \in 1..(L - 1) : s[i] = stack[i]
  <2> DEFINE K == L - 1
  <2>1. K \in Nat /\ 1 \in Int /\ K \in Int /\ s = SubSeq(stack, 1, K)
    BY <1>1 DEF L
  <2>2. \A i \in 1..K : stack[i] \in S
    BY <1>3
  <2> HIDE DEF K
  <2>3. /\ s \in Seq(S) /\ Len(s) = (IF 1 <= K THEN K - 1 + 1 ELSE 0)
        /\ \A i \in 1..(K - 1 + 1) : s[i] = stack[1 + i - 1]
    BY <2>1, <2>2, SubSeqProperties
  <2>4. s \in Seq(S) /\ Len(s) = K /\ \A i \in 1..K : s[i] = stack[i]
    BY <2>1, <2>3
  <2> QED BY <2>4 DEF K
<1>5. Len(s) \in Nat /\ s \in [1..Len(s) -> S]
  BY <1>4, LenProperties
<1>6. AreCalls(s)
  BY <1>2, <1>5 DEF AreCalls, IsSequence
<1> QED BY <1>4, <1>6 DEF L

LEMMA NamesGrow ==
    ASSUME NEW d, NEW fs, NEW gs, fs \subseteq gs
    PROVE  NamesIn(d, fs) \subseteq NamesIn(d, gs)
BY DEF NamesIn

\* What is copied meanwhile does not disturb the walk.
LEMMA WalkGrows ==
    ASSUME NEW tree, NEW place, NEW stack, NEW b, NEW ds, NEW fs,
           Walk(tree, stack, place, b, ds, fs),
           NEW es, ds \subseteq es, NEW gs, fs \subseteq gs
    PROVE  Walk(tree, stack, place, b, es, gs)
<1>1. ASSUME NEW n \in 2..Len(tree) PROVE NodeInv(tree, place, b, es, gs, n)
  <2>1. NodeInv(tree, place, b, ds, fs, n)
    BY DEF Walk
  <2>2. NamesIn(place[n], fs) \subseteq NamesIn(place[n], gs)
    BY NamesGrow
  <2> QED BY <2>1, <2>2 DEF NodeInv
<1>2. ASSUME NEW i \in 1..Len(stack) PROVE CallInv(tree, place, b, es, gs, stack[i])
  <2>1. CallInv(tree, place, b, ds, fs, stack[i])
    BY DEF Walk
  <2>2. NamesIn(stack[i].dir, fs) \subseteq NamesIn(stack[i].dir, gs)
    BY NamesGrow
  <2> QED BY <2>1, <2>2 DEF CallInv
<1> QED BY <1>1, <1>2 DEF Walk

\* A change of the last call, to c, and of the nodes, to t.
KeepsDirs(tree, place, t, q) == \A e : IsDir(tree, place, e) => IsDir(t, q, e)
KeepsWalk(stack, b, ds, fs, t, q, c, s) ==
    /\ Len(stack) \in Nat \ {0} /\ ChangesTop(stack, c, s)
    /\ c.dir = stack[Len(stack)].dir /\ c.parent = stack[Len(stack)].parent
    /\ \A n \in 2..Len(t) : NodeInv(t, q, b, ds, fs, n)
    /\ \A i \in 1..(Len(stack) - 1) : CallInv(t, q, b, ds, fs, stack[i])
    /\ CallInv(t, q, b, ds, fs, c)
    /\ c.step = "nonleaf" => \A e \in c.seen : IsDir(t, q, e)
    /\ \A n \in 2..Len(t) :
          (\A i \in 1..Len(stack) : s[i].node # n) => Complete(t, q, b, n)

LEMMA WalkWithTop ==
    ASSUME NEW tree, NEW place, NEW stack, NEW b, NEW ds, NEW fs,
           Walk(tree, stack, place, b, ds, fs),
           NEW t, NEW q, KeepsDirs(tree, place, t, q),
           NEW c, NEW s, KeepsWalk(stack, b, ds, fs, t, q, c, s)
    PROVE  Walk(t, s, q, b, ds, fs)
<1> DEFINE L == Len(stack)
<1>1. /\ L \in Nat \ {0} /\ Len(s) = L /\ s[L] = c /\ \A i \in 1..(L - 1) : s[i] = stack[i]
  BY DEF KeepsWalk, ChangesTop
<1>2. \A i \in 1..Len(s) : CallInv(t, q, b, ds, fs, s[i])
  BY <1>1 DEF KeepsWalk
<1>3. StackInv(t, q, s)
  <2> SUFFICES ASSUME NEW i \in 1..L PROVE IsLink(t, q, s[i], s[i + 1], i, L)
    BY <1>1 DEF StackInv
  <2>1. IsLink(tree, place, stack[i], stack[i + 1], i, L)
    BY DEF Walk, StackInv
  <2>2. s[i].dir = stack[i].dir /\ s[i].parent = stack[i].parent
    BY <1>1 DEF KeepsWalk
  <2>3. CASE i < L
    <3>1. /\ s[i] = stack[i] /\ i + 1 \in 1..L
          /\ s[i + 1].dir = stack[i + 1].dir /\ s[i + 1].parent = stack[i + 1].parent
      BY <1>1, <2>3 DEF KeepsWalk
    <3> QED BY <2>1, <2>3, <3>1 DEF KeepsDirs, IsLink
  <2>4. CASE i = L
    BY <1>1, <2>1, <2>2, <2>4 DEF KeepsWalk, IsLink
  <2> QED BY <1>1, <2>3, <2>4
<1> QED BY <1>1, <1>2, <1>3 DEF Walk, KeepsWalk

WithLast(stack, c) == [stack EXCEPT ![Len(stack)] = c]
Tested(c, fs) == [c EXCEPT !.step = IF NamesIn(c.dir, fs) # {} THEN "leaf" ELSE "nonleaf"]
Opened(c, n, ds, fs) ==
    [c EXCEPT !.node = n,
              !.listed = NamesIn(c.dir, fs) \union
                         (IF c.step = "leaf" THEN {} ELSE SubdirsIn(c.dir, ds))]
TypeOf(c) == IF c.step = "leaf" THEN "array" ELSE "object"

\* Before its directory is opened a call has no node, and has seen nothing.
LEMMA WalkTest ==
    ASSUME NEW tree, NEW place, NEW stack, NEW b, NEW ds, NEW fs,
           AreCalls(stack), stack # <<>>, Walk(tree, stack, place, b, ds, fs),
           b.files \subseteq fs,
           NEW c, c = stack[Len(stack)], c.step = "test",
           NEW x, x = Tested(c, fs), NEW s, s = WithLast(stack, x)
    PROVE  AreCalls(s) /\ Walk(tree, s, place, b, ds, fs)
<1> DEFINE L == Len(stack)
<1>1. L \in Nat \ {0} /\ L \in 1..L /\ IsCall(c) /\ CallInv(tree, place, b, ds, fs, c)
  BY SequenceIs DEF AreCalls, Walk
<1>2. /\ IsCall(x) /\ x.dir = c.dir /\ x.parent = c.parent /\ x.node = c.node
      /\ x.seen = c.seen
      /\ x.step = IF NamesIn(c.dir, fs) # {} THEN "leaf" ELSE "nonleaf"
  BY <1>1 DEF IsCall, Tested
<1>3. AreCalls(s) /\ ChangesTop(stack, x, s)
  BY <1>2, WithTopIs DEF WithLast
<1>4. /\ c.dir \in ds /\ c.node = 0 /\ c.seen = {} /\ ~IsDir(tree, place, c.dir)
  BY <1>1 DEF CallInv
<1>5. CallInv(tree, place, b, ds, fs, x)
  <2>1. NamesIn(c.dir, b.files) \subseteq NamesIn(c.dir, fs)
    BY NamesGrow
  <2> QED BY <1>2, <1>4, <2>1 DEF CallInv
<1>6. ASSUME NEW n \in 2..Len(tree), \A i \in 1..L : s[i].node # n
      PROVE  Complete(tree, place, b, n)
  <2>1. \A i \in 1..L : s[i].node = stack[i].node
    BY <1>1, <1>2, <1>3 DEF ChangesTop
  <2> QED BY <1>6, <2>1 DEF Walk
<1>7. /\ \A n \in 2..Len(tree) : NodeInv(tree, place, b, ds, fs, n)
      /\ \A i \in 1..(Len(stack) - 1) : CallInv(tree, place, b, ds, fs, stack[i])
  BY <1>1 DEF Walk
<1>8. x.step = "nonleaf" => \A e \in x.seen : IsDir(tree, place, e)
  BY <1>2, <1>4
<1>9. KeepsWalk(stack, b, ds, fs, tree, place, x, s)
  BY <1>1, <1>2, <1>3, <1>5, <1>6, <1>7, <1>8 DEF KeepsWalk
<1>10. Walk(tree, s, place, b, ds, fs)
  BY <1>9, WalkWithTop DEF KeepsDirs
<1> QED BY <1>3, <1>10

\* The directory of the last call is in that of the call below it, which has a node.
LEMMA LastCall ==
    ASSUME NEW tree, NEW place, NEW stack, NEW b, NEW ds, NEW fs,
           Shape(tree, place), Walk(tree, stack, place, b, ds, fs), IsSite(ds, fs),
           Len(stack) \in Nat \ {0}, stack[Len(stack)].node = 0
    PROVE  /\ MayHold(tree, place, stack[Len(stack)].parent, stack[Len(stack)].dir)
           /\ \A i \in 1..(Len(stack) - 1) : stack[i].node = stack[Len(stack)].parent =>
                 stack[Len(stack)].dir \in stack[i].seen
<1> DEFINE L == Len(stack)
           c == stack[L]
<1>1. L \in Nat \ {0} /\ L \in 1..L /\ c.node = 0
  OBVIOUS
<1>2. CallInv(tree, place, b, ds, fs, c) /\ c.dir \in Seq(Name) /\ ~IsDir(tree, place, c.dir)
  BY <1>1 DEF Walk, CallInv, IsSite
<1>3. Len(c.dir) = L - 1 /\ (L = 1 => c.parent = 1)
  BY <1>1 DEF Walk, StackInv, IsLink
<1>4. \A n \in 2..Len(tree) : place[n] # c.dir
  BY <1>2 DEF IsDir
<1>5. ASSUME NEW i \in 1..(L - 1)
      PROVE  /\ stack[i].step = "nonleaf" /\ stack[i].node \in 2..Len(tree)
             /\ tree[stack[i].node].type = "object" /\ place[stack[i].node] = stack[i].dir
             /\ Len(stack[i].dir) = i - 1
  <2>1. i \in 1..L /\ i < L
    BY <1>1
  <2>2. /\ stack[i].step = "nonleaf" /\ stack[i].node # 0 /\ Len(stack[i].dir) = i - 1
        /\ CallInv(tree, place, b, ds, fs, stack[i])
    BY <2>1 DEF Walk, StackInv, IsLink
  <2> QED BY <2>2 DEF CallInv
<1>6. CASE L = 1
  <2>1. c.dir = <<>> /\ c.parent = 1
    BY <1>2, <1>3, <1>6, EmptySeq
  <2>2. 1 \in 1..Len(tree)
    BY DEF Shape
  <2> QED BY <1>2, <1>4, <1>6, <2>1, <2>2 DEF MayHold
<1>7. CASE L # 1
  <2> DEFINE k == L - 1
  <2>1. k \in 1..L /\ k < L /\ k \in 1..(L - 1) /\ k + 1 = L
    <3>1. \A m \in Nat \ {0, 1} :
             m - 1 \in 1..m /\ m - 1 < m /\ m - 1 \in 1..(m - 1) /\ m - 1 + 1 = m
      OBVIOUS
    <3>2. L \in Nat \ {0, 1}
      BY <1>1, <1>7
    <3> HIDE DEF L
    <3> QED BY <3>1, <3>2
  <2>2. c.dir # <<>> /\ Parent(c.dir) = stack[k].dir /\ c.parent = stack[k].node
        /\ c.dir \in stack[k].seen
    BY <2>1 DEF Walk, StackInv, IsLink
  <2>3. /\ c.parent \in 2..Len(tree) /\ c.parent \in 1..Len(tree) /\ c.parent # 1
        /\ tree[c.parent].type = "object" /\ place[c.parent] = Parent(c.dir)
    <3>1. stack[k].node \in 2..Len(tree) /\ tree[stack[k].node].type = "object"
          /\ place[stack[k].node] = stack[k].dir
      BY <1>5, <2>1
    <3> QED BY <2>2, <3>1
  <2>4. MayHold(tree, place, c.parent, c.dir)
    BY <1>2, <1>4, <2>2, <2>3 DEF MayHold
  <2>5. ASSUME NEW i \in 1..(L - 1), stack[i].node = c.parent PROVE c.dir \in stack[i].seen
    <3>1. stack[i].dir = stack[k].dir
      BY <1>5, <2>1, <2>2, <2>5
    <3>2. Len(stack[i].dir) = i - 1 /\ Len(stack[k].dir) = k - 1
      BY <1>5, <2>1
    <3>3. i \in Int /\ k \in Int
      BY <2>1
    <3> HIDE DEF k
    <3>4. i = k
      BY <3>1, <3>2, <3>3
    <3> QED BY <2>2, <3>4
  <2> QED BY <2>4, <2>5
<1> QED BY <1>6, <1>7

\* The node for a directory.
LEMMA WalkOpen ==
    ASSUME NEW tree, NEW place, NEW stack, NEW b, NEW ds, NEW fs,
           AreNodes(tree), Shape(tree, place), AreCalls(stack), stack # <<>>,
           Walk(tree, stack, place, b, ds, fs), IsSite(ds, fs),
           b.dirs \subseteq ds, b.files \subseteq fs,
           NEW c, c = stack[Len(stack)], c.step # "test", c.node = 0,
           NEW max \in Nat, NEW t, t = AddLabeled(tree, c.parent, TypeOf(c), Label(c.dir), max),
           NEW x, x = Opened(c, Len(tree) + 1, ds, fs), NEW s, s = WithLast(stack, x)
    PROVE  /\ AreNodes(t) /\ AreCalls(s)
           /\ \E q : Shape(t, q) /\ Walk(t, s, q, b, ds, fs)
<1> DEFINE L == Len(stack)
           N == Len(tree)
           M == N + 1
           d == c.dir
           type == TypeOf(c)
           q == WithPlace(place, M, d)
<1>kind. type = IF c.step = "leaf" THEN "array" ELSE "object"
  BY DEF TypeOf
<1> HIDE DEF type
<1>1. L \in Nat \ {0} /\ L \in 1..L /\ IsCall(c) /\ CallInv(tree, place, b, ds, fs, c)
  BY SequenceIs DEF AreCalls, Walk
<1>2. /\ IsCall(x) /\ x.dir = d /\ x.parent = c.parent /\ x.node = M
      /\ x.seen = c.seen /\ x.step = c.step
      /\ x.listed = NamesIn(d, fs) \union (IF c.step = "leaf" THEN {} ELSE SubdirsIn(d, ds))
  BY <1>1 DEF IsCall, Opened
<1>3. AreCalls(s) /\ ChangesTop(stack, x, s)
  BY <1>2, WithTopIs DEF WithLast
<1>4. /\ d \in ds /\ d \in Seq(Name) /\ c.seen = {} /\ c.step \in {"leaf", "nonleaf"}
      /\ c.step = "leaf" => NamesIn(d, fs) # {}
      /\ c.step = "nonleaf" => NamesIn(d, b.files) = {}
  BY <1>1 DEF CallInv, IsSite
<1>5. /\ MayHold(tree, place, c.parent, d)
      /\ \A i \in 1..(L - 1) : stack[i].node = c.parent => d \in stack[i].seen
  BY <1>1, LastCall
<1>6. /\ N \in Nat \ {0} /\ M \in Nat /\ 2..M = 2..N \union {M} /\ M \notin 2..N /\ M # 0
      /\ c.parent \in 1..N /\ type \in {"object", "array"}
  BY <1>kind, <1>5 DEF Shape, MayHold
<1>added. t = AddLabeled(tree, c.parent, type, Label(d), max)
  BY DEF type
<1>7. AreNodes(t)
  BY <1>added, AddLabeledNodes
<1>8. Shape(t, q)
  <2>1. /\ \A n \in 2..Len(tree) : place[n] # d
        /\ \/ c.parent = 1 /\ d = <<>>
           \/ /\ c.parent # 1 /\ d # <<>>
              /\ tree[c.parent].type = "object" /\ place[c.parent] = Parent(d)
    BY <1>5 DEF MayHold
  <2> QED BY <1>added, <1>4, <1>6, <2>1, ShapeNode
<1>9. /\ Len(t) = M /\ t[M].type = type /\ t[M].children = {}
      /\ \A i \in 1..N : i # c.parent => t[i] = tree[i]
      /\ \A i \in 1..N : t[i].type = tree[i].type
      /\ t[c.parent].children = tree[c.parent].children \union {M}
  <2>1. /\ Len(t) = N + 1 /\ t[N + 1] = Node(type, Label(d), max)
        /\ \A i \in 1..N : i # c.parent => t[i] = tree[i]
        /\ t[c.parent].type = tree[c.parent].type
        /\ t[c.parent].children = tree[c.parent].children \union {N + 1}
    BY <1>added, <1>6, AddLabeledIs
  <2>2. Node(type, Label(d), max).type = type /\ Node(type, Label(d), max).children = {}
    BY DEF Node
  <2> QED BY <2>1, <2>2
<1>10. q[M] = d /\ \A n \in 2..N : q[n] = place[n] /\ n \in 2..M /\ n \in 1..N
  BY <1>6 DEF WithPlace
<1>11. c.parent = 1 \/ tree[c.parent].type = "object"
  BY <1>5 DEF MayHold
<1> HIDE DEF L, N, M, d, q
<1>12. IsDir(t, q, d) /\ KeepsDirs(tree, place, t, q)
  BY <1>6, <1>9, <1>10, SMTT(30) DEF IsDir, KeepsDirs, N
<1>13. ASSUME NEW n \in 2..N PROVE NodeInv(t, q, b, ds, fs, n)
  <2>1. NodeInv(tree, place, b, ds, fs, n)
    BY DEF Walk, N
  <2>2. t[n].type = tree[n].type /\ q[n] = place[n] /\ n # 1
    BY <1>9, <1>10
  <2>3. tree[n].type = "array" => t[n] = tree[n]
    BY <1>9, <1>10, <1>11, <2>2
  <2> QED BY <2>1, <2>2, <2>3 DEF NodeInv
<1>14. NodeInv(t, q, b, ds, fs, M)
  <2>1. type = "array" => NamesIn(d, fs) # {}
    BY <1>kind, <1>4
  <2>2. type = "object" => NamesIn(d, b.files) = {}
    BY <1>kind, <1>4
  <2> QED BY <1>4, <1>9, <1>10, <2>1, <2>2 DEF NodeInv
<1>15. CallInv(t, q, b, ds, fs, x)
  <2>1. NamesIn(d, b.files) \subseteq NamesIn(d, fs)
    BY NamesGrow
  <2>2. SubdirsIn(d, b.dirs) \subseteq SubdirsIn(d, ds)
    BY DEF SubdirsIn
  <2>3. M \in 2..Len(t) /\ q[M] = d /\ x.node # 0
    BY <1>2, <1>6, <1>9, <1>10
  <2>4. CASE c.step = "leaf"
    <3>1. x.step = "leaf" /\ t[x.node].type = "array" /\ x.seen \subseteq t[x.node].children
          /\ NamesIn(x.dir, b.files) \subseteq x.listed
      BY <1>kind, <1>2, <1>4, <1>9, <2>1, <2>4
    <3> QED BY <1>2, <1>4, <2>3, <2>4, <3>1, ZenonT(30) DEF CallInv
  <2>5. CASE c.step = "nonleaf"
    <3>1. /\ x.step = "nonleaf" /\ t[x.node].type = "object" /\ t[x.node].children = {}
          /\ SubdirsIn(x.dir, b.dirs) \subseteq x.listed
      BY <1>kind, <1>2, <1>9, <2>2, <2>5
    <3> QED BY <1>2, <1>4, <2>3, <2>5, <3>1 DEF CallInv
  <2> QED BY <1>4, <2>4, <2>5
<1>16. ASSUME NEW i \in 1..(L - 1) PROVE CallInv(t, q, b, ds, fs, stack[i])
  <2> DEFINE p == stack[i]
  <2>1. i \in 1..L /\ i < L
    BY <1>1
  <2>2. CallInv(tree, place, b, ds, fs, p) /\ p.step = "nonleaf" /\ p.node # 0
    BY <2>1 DEF Walk, StackInv, IsLink, L
  <2>3. p.node = c.parent => d \in p.seen
    BY <1>5
  <2> HIDE DEF p
  <2>4. /\ p.dir \in ds /\ p.node \in 2..N /\ place[p.node] = p.dir
        /\ tree[p.node].type = "object" /\ NamesIn(p.dir, b.files) = {}
        /\ SubdirsIn(p.dir, b.dirs) \subseteq p.listed
        /\ \A n \in tree[p.node].children : place[n] \in p.seen
    BY <2>2 DEF CallInv, N
  <2>5. tree[p.node].children \subseteq 2..N
    BY <2>4 DEF Shape, IsPlaced, N
  <2>6. \A n \in t[p.node].children : q[n] \in p.seen
    <3>1. CASE p.node = c.parent
      BY <1>9, <1>10, <2>3, <2>4, <2>5, <3>1, SMTT(30)
    <3>2. CASE p.node # c.parent
      <4>1. t[p.node] = tree[p.node]
        BY <1>9, <1>10, <2>4, <3>2
      <4> QED BY <1>10, <2>4, <2>5, <4>1
    <3> QED BY <3>1, <3>2
  <2>7. p.node \in 2..Len(t) /\ q[p.node] = p.dir /\ t[p.node].type = "object"
    BY <1>9, <1>10, <2>4
  <2>8. CallInv(t, q, b, ds, fs, p)
    BY <2>2, <2>4, <2>6, <2>7 DEF CallInv
  <2> QED BY <2>8 DEF p
<1>17. ASSUME NEW n \in 2..M, \A i \in 1..L : s[i].node # n
       PROVE  Complete(t, q, b, n)
  <2>1. n \in 2..N /\ n # 0
    <3>1. s[L].node = M
      BY <1>2, <1>3 DEF ChangesTop, L
    <3> QED BY <1>1, <1>6, <1>17, <3>1
  <2>2. \A i \in 1..L : stack[i].node # n
    <3>1. \A i \in 1..(L - 1) : s[i] = stack[i]
      BY <1>3 DEF ChangesTop, L
    <3>2. stack[L].node = 0
      BY DEF L
    <3> QED BY <1>1, <1>17, <2>1, <3>1, <3>2
  <2>3. Complete(tree, place, b, n)
    BY <2>1, <2>2 DEF Walk, L, N
  <2>4. t[n].type = tree[n].type /\ q[n] = place[n] /\ n # 1
    BY <1>9, <1>10, <2>1
  <2>5. tree[n].type = "array" => t[n] = tree[n]
    BY <1>9, <1>10, <1>11, <2>1, <2>4
  <2> QED BY <1>12, <2>3, <2>4, <2>5 DEF Complete, KeepsDirs
<1>18. \A n \in 2..Len(t) : NodeInv(t, q, b, ds, fs, n)
  <2>1. \A n \in 2..Len(t) : n \in 2..N \/ n = M
    BY <1>6, <1>9
  <2> QED BY <1>13, <1>14, <2>1
<1>19. KeepsWalk(stack, b, ds, fs, t, q, x, s)
  <2>1. x.step = "nonleaf" => \A e \in x.seen : IsDir(t, q, e)
    BY <1>2, <1>4
  <2>2. x.dir = stack[Len(stack)].dir /\ x.parent = stack[Len(stack)].parent
    BY <1>2 DEF d
  <2> QED BY <1>1, <1>3, <1>9, <1>15, <1>16, <1>17, <1>18, <2>1, <2>2 DEF KeepsWalk, L
<1>20. Walk(t, s, q, b, ds, fs)
  BY <1>12, <1>19, WalkWithTop
<1> QED BY <1>3, <1>7, <1>8, <1>20

\* A name for an array.
LEMMA WalkName ==
    ASSUME NEW tree, NEW place, NEW stack, NEW b, NEW ds, NEW fs,
           AreNodes(tree), Shape(tree, place), AreCalls(stack), stack # <<>>,
           Walk(tree, stack, place, b, ds, fs), IsSite(ds, fs),
           NEW c, c = stack[Len(stack)], c.step = "leaf", c.node # 0,
           NEW name \in NamesIn(c.dir, fs),
           NEW t, t = WithChild(tree, c.node, name),
           NEW x, x = [c EXCEPT !.seen = @ \union {name}],
           NEW s, s = [stack EXCEPT ![Len(stack)] = x]
    PROVE  AreNodes(t) /\ AreCalls(s) /\ Shape(t, place) /\ Walk(t, s, place, b, ds, fs)
<1> DEFINE L == Len(stack)
           N == Len(tree)
           m == c.node
<1>1. L \in Nat \ {0} /\ L \in 1..L /\ IsCall(c) /\ CallInv(tree, place, b, ds, fs, c)
  BY SequenceIs DEF AreCalls, Walk
<1>2. /\ IsCall(x) /\ x.dir = c.dir /\ x.parent = c.parent /\ x.node = m
      /\ x.seen = c.seen \union {name} /\ x.step = "leaf" /\ x.listed = c.listed
  BY <1>1 DEF IsCall
<1>3. AreCalls(s) /\ ChangesTop(stack, x, s)
  BY <1>2, WithTopIs
<1>4. /\ c.dir \in ds /\ m \in 2..N /\ place[m] = c.dir /\ tree[m].type = "array"
      /\ NamesIn(c.dir, fs) # {} /\ NamesIn(c.dir, b.files) \subseteq c.listed
      /\ c.seen \subseteq tree[m].children
  BY <1>1 DEF CallInv
<1>5. N \in Nat /\ m \in 1..N /\ name \in Name /\ m # 0
  <2>1. name \in Name
    BY DEF NamesIn, IsSite
  <2> QED BY <1>4, <2>1 DEF Shape
<1>6. AreNodes(t)
  BY ChangeNode DEF WithChild
<1>7. Shape(t, place)
  BY <1>4, <1>5, ShapeName
<1>8. /\ Len(t) = N /\ \A i \in 1..N : i # m => t[i] = tree[i]
      /\ t[m].type = "array" /\ t[m].children = tree[m].children \union {name}
  BY <1>4, <1>5, WithChildIs DEF HasMore
<1> HIDE DEF L, N, m
<1>9. \A e : IsDir(t, place, e) <=> IsDir(tree, place, e)
  BY <1>8 DEF IsDir, N
<1>10. ASSUME NEW n \in 2..N PROVE NodeInv(t, place, b, ds, fs, n)
  <2>1. NodeInv(tree, place, b, ds, fs, n)
    BY DEF Walk, N
  <2>2. CASE n = m
    BY <1>4, <1>8, <2>1, <2>2 DEF NodeInv
  <2>3. CASE n # m
    <3>1. t[n] = tree[n]
      BY <1>5, <1>8, <2>3
    <3> QED BY <2>1, <3>1 DEF NodeInv
  <2> QED BY <2>2, <2>3
<1>11. CallInv(t, place, b, ds, fs, x)
  <2>1. /\ x.node \in 2..Len(t) /\ place[x.node] = x.dir /\ x.node # 0
        /\ t[x.node].type = "array" /\ x.seen \subseteq t[x.node].children
        /\ NamesIn(x.dir, b.files) \subseteq x.listed
    BY <1>2, <1>4, <1>5, <1>8
  <2> QED BY <1>2, <1>4, <2>1 DEF CallInv
<1>12. ASSUME NEW i \in 1..(L - 1) PROVE CallInv(t, place, b, ds, fs, stack[i])
  <2> DEFINE p == stack[i]
  <2>1. i \in 1..L /\ i < L
    BY <1>1
  <2>2. CallInv(tree, place, b, ds, fs, p) /\ p.step = "nonleaf" /\ p.node # 0
    BY <2>1 DEF Walk, StackInv, IsLink, L
  <2> HIDE DEF p
  <2>3. p.node \in 2..N /\ tree[p.node].type = "object"
    BY <2>2 DEF CallInv, N
  <2>4. t[p.node] = tree[p.node]
    BY <1>4, <1>5, <1>8, <2>3
  <2>5. CallInv(t, place, b, ds, fs, p)
    BY <1>8, <1>9, <2>2, <2>4 DEF CallInv, N
  <2> QED BY <2>5 DEF p
<1>13. ASSUME NEW n \in 2..N, \A i \in 1..L : s[i].node # n
       PROVE  Complete(t, place, b, n)
  <2>1. n # m /\ n \in 1..N
    <3>1. s[L].node = m
      BY <1>2, <1>3 DEF ChangesTop, L
    <3> QED BY <1>1, <1>5, <1>13, <3>1
  <2>2. \A i \in 1..L : stack[i].node # n
    <3>1. \A i \in 1..(L - 1) : s[i] = stack[i]
      BY <1>3 DEF ChangesTop, L
    <3>2. stack[L].node = m
      BY DEF L, m
    <3> QED BY <1>1, <1>13, <2>1, <3>1, <3>2
  <2>3. Complete(tree, place, b, n)
    BY <2>2 DEF Walk, L, N
  <2>4. t[n] = tree[n]
    BY <1>8, <2>1
  <2> QED BY <1>9, <2>3, <2>4 DEF Complete
<1>14. KeepsWalk(stack, b, ds, fs, t, place, x, s)
  <2>1. x.dir = stack[Len(stack)].dir /\ x.parent = stack[Len(stack)].parent
    BY <1>2
  <2>2. x.step # "nonleaf"
    BY <1>2
  <2>3. \A n \in 2..Len(t) : NodeInv(t, place, b, ds, fs, n)
    BY <1>8, <1>10
  <2> QED BY <1>1, <1>3, <1>8, <1>11, <1>12, <1>13, <2>1, <2>2, <2>3 DEF KeepsWalk, L
<1>15. Walk(t, s, place, b, ds, fs)
  BY <1>9, <1>14, WalkWithTop DEF KeepsDirs
<1> QED BY <1>3, <1>6, <1>7, <1>15

\* The call for a directory in that of the last call.
LEMMA WalkDir ==
    ASSUME NEW tree, NEW place, NEW stack, NEW b, NEW ds, NEW fs,
           Shape(tree, place), AreCalls(stack), stack # <<>>,
           Walk(tree, stack, place, b, ds, fs), IsSite(ds, fs),
           NEW c, c = stack[Len(stack)], c.step = "nonleaf", c.node # 0,
           NEW d \in SubdirsIn(c.dir, ds), d \notin c.seen,
           NEW x, x = [c EXCEPT !.seen = @ \union {d}],
           NEW r, r = [stack EXCEPT ![Len(stack)] = x],
           NEW y, y = Call(d, c.node), NEW s, s = Append(r, y)
    PROVE  AreCalls(s) /\ Walk(tree, s, place, b, ds, fs)
<1> DEFINE L == Len(stack)
           N == Len(tree)
<1>1. L \in Nat \ {0} /\ L \in 1..L /\ IsCall(c) /\ CallInv(tree, place, b, ds, fs, c)
  BY SequenceIs DEF AreCalls, Walk
<1>2. /\ IsCall(x) /\ x.dir = c.dir /\ x.parent = c.parent /\ x.node = c.node
      /\ x.seen = c.seen \union {d} /\ x.step = "nonleaf" /\ x.listed = c.listed
  BY <1>1 DEF IsCall
<1>3. AreCalls(r) /\ ChangesTop(stack, x, r)
  BY <1>2, WithTopIs
<1>4. /\ IsCall(y) /\ y.dir = d /\ y.parent = c.node /\ y.step = "test" /\ y.node = 0
      /\ y.seen = {}
  BY DEF IsCall, Call
<1>5. AreCalls(s) /\ Len(s) = Len(r) + 1 /\ s[Len(r) + 1] = y /\ \A i \in 1..Len(r) : s[i] = r[i]
  <2>1. AreCalls(r) /\ IsCall(y)
    BY <1>3, <1>4
  <2>2. IsPushed(r, y, s)
    BY DEF IsPushed
  <2> QED BY <2>1, <2>2, PushIs
<1> HIDE DEF L
<1>6. /\ Len(s) = L + 1 /\ s[L + 1] = y /\ s[L] = x /\ \A i \in 1..(L - 1) : s[i] = stack[i]
      /\ L + 1 \in 1..(L + 1)
  <2>1. Len(r) = L /\ r[L] = x /\ \A i \in 1..(L - 1) : r[i] = stack[i]
    BY <1>3 DEF ChangesTop, L
  <2>2. \A i \in 1..(L - 1) : i \in 1..L
    BY <1>1
  <2>3. L + 1 \in 1..(L + 1)
    BY <1>1
  <2> QED BY <1>1, <1>5, <2>1, <2>2, <2>3
<1>7. /\ c.dir \in ds /\ c.node \in 2..N /\ place[c.node] = c.dir
      /\ tree[c.node].type = "object" /\ NamesIn(c.dir, b.files) = {}
      /\ SubdirsIn(c.dir, b.dirs) \subseteq c.listed
      /\ \A n \in tree[c.node].children : place[n] \in c.seen
  BY <1>1 DEF CallInv
<1>8. d \in ds /\ d # <<>> /\ Parent(d) = c.dir /\ d \in Seq(Name)
  BY DEF SubdirsIn, IsSite
<1>9. ~IsDir(tree, place, d)
  <2> SUFFICES ASSUME NEW n \in 2..N, place[n] = d PROVE FALSE
    BY DEF IsDir
  <2>1. n \in tree[c.node].children
    BY <1>7, <1>8 DEF Shape, IsPlaced
  <2> QED BY <1>7, <2>1
<1>10. Len(c.dir) = L - 1 /\ Len(d) = L /\ (L = 1 => c.parent = 1)
  <2>1. Len(c.dir) = L - 1 /\ (L = 1 => c.parent = 1)
    BY <1>1 DEF Walk, StackInv, IsLink, L
  <2>2. Len(d) \in Nat /\ Len(Parent(d)) = Len(d) - 1
    BY <1>8, HasParent
  <2> QED BY <1>1, <1>8, <2>1, <2>2
<1>11. CallInv(tree, place, b, ds, fs, x)
  BY <1>1, <1>2, <1>7 DEF CallInv
<1>12. CallInv(tree, place, b, ds, fs, y)
  BY <1>4, <1>8, <1>9 DEF CallInv
<1>13. ASSUME NEW i \in 1..(L + 1) PROVE CallInv(tree, place, b, ds, fs, s[i])
  <2>1. CASE i \in 1..(L - 1)
    <3>1. s[i] = stack[i] /\ i \in 1..L
      BY <1>1, <1>6, <2>1
    <3> QED BY <3>1 DEF Walk, L
  <2>2. CASE i = L
    BY <1>6, <1>11, <2>2
  <2>3. CASE i = L + 1
    BY <1>6, <1>12, <2>3
  <2>4. i \in 1..(L - 1) \/ i = L \/ i = L + 1
    BY <1>1
  <2> QED BY <2>1, <2>2, <2>3, <2>4
<1>14. ASSUME NEW i \in 1..(L + 1)
       PROVE  IsLink(tree, place, s[i], s[i + 1], i, L + 1)
  <2>1. \A k \in 1..L : IsLink(tree, place, stack[k], stack[k + 1], k, L)
    BY DEF Walk, StackInv, L
  <2>2. CASE i \in 1..(L - 1)
    <3>1. s[i] = stack[i] /\ i \in 1..L /\ i < L /\ i < L + 1
      BY <1>1, <1>6, <2>2
    <3>2. s[i + 1].dir = stack[i + 1].dir /\ s[i + 1].parent = stack[i + 1].parent
      <4>1. CASE i + 1 = L
        BY <1>2, <1>6, <4>1 DEF L
      <4>2. CASE i + 1 # L
        BY <1>1, <1>6, <2>2, <4>2
      <4> QED BY <4>1, <4>2
    <3>3. IsLink(tree, place, stack[i], stack[i + 1], i, L)
      BY <2>1, <3>1
    <3> QED BY <3>1, <3>2, <3>3 DEF IsLink
  <2>3. CASE i = L
    <3>1. /\ s[i] = x /\ s[i + 1] = y /\ i < L + 1 /\ ~(i < L)
          /\ \A e \in c.seen : IsDir(tree, place, e)
      BY <1>1, <1>6, <2>1, <2>3 DEF L, IsLink
    <3>2. \A e \in x.seen : IsDir(tree, place, e) \/ e = y.dir
      BY <1>2, <1>4, <3>1
    <3>3. /\ Len(x.dir) = L - 1 /\ (L = 1 => x.parent = 1)
          /\ x.step = "nonleaf" /\ x.node # 0
          /\ y.dir # <<>> /\ Parent(y.dir) = x.dir /\ y.parent = x.node /\ y.dir \in x.seen
      BY <1>2, <1>4, <1>7, <1>8, <1>10
    <3> QED BY <2>3, <3>1, <3>2, <3>3 DEF IsLink
  <2>4. CASE i = L + 1
    <3>1. s[i] = y /\ ~(i < L + 1) /\ i - 1 = L /\ i # 1
      BY <1>1, <1>6, <2>4
    <3> QED BY <1>4, <1>10, <3>1 DEF IsLink
  <2>5. i \in 1..(L - 1) \/ i = L \/ i = L + 1
    BY <1>1
  <2> QED BY <2>2, <2>3, <2>4, <2>5
<1>15. ASSUME NEW n \in 2..N, \A i \in 1..(L + 1) : s[i].node # n
       PROVE  Complete(tree, place, b, n)
  <2>1. \A i \in 1..L : stack[i].node # n
    <3>1. stack[L].node = s[L].node
      BY <1>2, <1>6 DEF L
    <3> QED BY <1>1, <1>6, <1>15, <3>1
  <2> QED BY <2>1 DEF Walk, L
<1>16. StackInv(tree, place, s)
  <2>1. Len(s) = L + 1
    BY <1>6
  <2> QED BY <1>14, <2>1 DEF StackInv
<1>17. \A n \in 2..N : NodeInv(tree, place, b, ds, fs, n)
  BY DEF Walk
<1>18. Walk(tree, s, place, b, ds, fs)
  <2>1. Len(s) = L + 1 /\ Len(s) # 0
    BY <1>1, <1>6
  <2>2. \A i \in 1..Len(s) : CallInv(tree, place, b, ds, fs, s[i])
    BY <1>13, <2>1
  <2>3. \A n \in 2..N :
           (\A i \in 1..Len(s) : s[i].node # n) => Complete(tree, place, b, n)
    BY <1>15, <2>1
  <2> QED BY <1>16, <1>17, <2>1, <2>2, <2>3 DEF Walk, N
<1> QED BY <1>5, <1>18

\* The return of the last call, which has seen all it listed.
LEMMA WalkReturn ==
    ASSUME NEW tree, NEW place, NEW stack, NEW b, NEW ds, NEW fs,
           AreCalls(stack), stack # <<>>, Walk(tree, stack, place, b, ds, fs), IsSite(ds, fs),
           NEW c, c = stack[Len(stack)], c.node # 0, c.listed \subseteq c.seen,
           NEW s, s = SubSeq(stack, 1, Len(stack) - 1)
    PROVE  AreCalls(s) /\ Walk(tree, s, place, b, ds, fs)
<1> DEFINE L == Len(stack)
           N == Len(tree)
<1>1. L \in Nat \ {0} /\ L \in 1..L /\ IsCall(c) /\ CallInv(tree, place, b, ds, fs, c)
  BY SequenceIs DEF AreCalls, Walk
<1>2. AreCalls(s) /\ Len(s) = L - 1 /\ \A i \in 1..(L - 1) : s[i] = stack[i]
  BY PopIs
<1>3. /\ c.node \in 2..N /\ place[c.node] = c.dir /\ c.dir \in Seq(Name)
      /\ \/ /\ tree[c.node].type = "array" /\ NamesIn(c.dir, b.files) \subseteq c.listed
            /\ c.seen \subseteq tree[c.node].children
         \/ /\ c.step = "nonleaf" /\ tree[c.node].type = "object"
            /\ SubdirsIn(c.dir, b.dirs) \subseteq c.listed
  BY <1>1 DEF CallInv, IsSite
<1> HIDE DEF L
<1>4. IsDir(tree, place, c.dir)
  BY <1>3 DEF IsDir
<1>5. \A k \in 1..L : IsLink(tree, place, stack[k], stack[k + 1], k, L)
  BY DEF Walk, StackInv, L
<1>6. Complete(tree, place, b, c.node)
  <2>1. c.step = "nonleaf" => \A e \in c.seen : IsDir(tree, place, e)
    <3>1. c = stack[L] /\ ~(L < L) /\ L \in 1..L
      BY <1>1 DEF L
    <3> QED BY <1>5, <3>1 DEF IsLink
  <2> QED BY <1>3, <2>1 DEF Complete
<1>7. ASSUME NEW i \in 1..(L - 1) PROVE IsLink(tree, place, s[i], s[i + 1], i, L - 1)
  <2>1. s[i] = stack[i] /\ i \in 1..L /\ i < L
    BY <1>1, <1>2
  <2>2. CASE i < L - 1
    <3>1. s[i + 1] = stack[i + 1]
      BY <1>1, <1>2, <2>2
    <3>2. IsLink(tree, place, stack[i], stack[i + 1], i, L)
      BY <1>5, <2>1
    <3> QED BY <2>1, <2>2, <3>1, <3>2 DEF IsLink
  <2>3. CASE i = L - 1
    <3>1. stack[i + 1].dir = c.dir /\ ~(i < L - 1)
      BY <1>1, <2>3 DEF L
    <3> QED BY <1>4, <1>5, <2>1, <3>1 DEF IsLink
  <2>4. i < L - 1 \/ i = L - 1
    BY <1>1
  <2> QED BY <2>2, <2>3, <2>4
<1>8. ASSUME NEW n \in 2..N, \A i \in 1..(L - 1) : s[i].node # n
      PROVE  Complete(tree, place, b, n)
  <2>1. CASE n = c.node
    BY <1>6, <2>1
  <2>2. CASE n # c.node
    <3>1. stack[L].node = c.node
      BY DEF L
    <3>2. \A i \in 1..L : stack[i].node # n
      BY <1>1, <1>2, <1>8, <2>2, <3>1
    <3> QED BY <3>2 DEF Walk, L
  <2> QED BY <2>1, <2>2
<1>9. ASSUME Len(s) = 0 PROVE IsDir(tree, place, <<>>)
  <2>1. Len(c.dir) = 0
    BY <1>1, <1>2, <1>5, <1>9 DEF L, IsLink
  <2> QED BY <1>3, <1>4, <2>1, EmptySeq
<1>10. \A i \in 1..Len(s) : CallInv(tree, place, b, ds, fs, s[i])
  <2> SUFFICES ASSUME NEW i \in 1..(L - 1) PROVE CallInv(tree, place, b, ds, fs, s[i])
    BY <1>2
  <2>1. s[i] = stack[i] /\ i \in 1..L
    BY <1>1, <1>2
  <2> QED BY <2>1 DEF Walk, L
<1>11. StackInv(tree, place, s)
  BY <1>2, <1>7 DEF StackInv
<1>12. Walk(tree, s, place, b, ds, fs)
  BY <1>2, <1>8, <1>9, <1>10, <1>11 DEF Walk, N
<1> QED BY <1>2, <1>12

\* The start.
LEMMA WalkStart ==
    ASSUME NEW max \in Nat, NEW b, NEW ds, NEW fs, IsSite(ds, fs)
    PROVE  /\ AreNodes(<<Node("object", "", max)>>) /\ AreCalls(<<Call(<<>>, 1)>>)
           /\ \E place : /\ Shape(<<Node("object", "", max)>>, place)
                         /\ Walk(<<Node("object", "", max)>>, <<Call(<<>>, 1)>>, place, b, ds, fs)
<1> DEFINE tree == <<Node("object", "", max)>>
           c == Call(<<>>, 1)
           stack == <<c>>
           place == [n \in 2..1 |-> <<>>]
<1>1. AreNodes(tree) /\ Shape(tree, place)
  BY NewNode, OneNode, ShapeFirst
<1>2. /\ IsCall(c) /\ c.dir = <<>> /\ c.parent = 1 /\ c.step = "test" /\ c.node = 0
      /\ c.seen = {}
  BY DEF Call, IsCall
<1>3. Len(tree) = 1 /\ 2..1 = {}
  OBVIOUS
<1> HIDE DEF tree, c, place
<1>4. Len(stack) = 1 /\ stack[1] = c /\ IsSequence(stack) /\ 1..1 = {1}
  BY DEF IsSequence
<1> HIDE DEF stack
<1>5. AreCalls(stack)
  BY <1>2, <1>4 DEF AreCalls
<1>6. CallInv(tree, place, b, ds, fs, c)
  <2>1. ~IsDir(tree, place, <<>>)
    BY <1>3 DEF IsDir
  <2> QED BY <1>2, <2>1 DEF CallInv, IsSite
<1>7. StackInv(tree, place, stack)
  <2>1. Len(c.dir) = 0
    BY <1>2
  <2> QED BY <1>2, <1>4, <2>1 DEF StackInv, IsLink
<1>8. Walk(tree, stack, place, b, ds, fs)
  BY <1>3, <1>4, <1>6, <1>7 DEF Walk
<1> QED BY <1>1, <1>5, <1>8 DEF tree, stack, c

\* What there is to say of a job that walks, or has walked.
WalkInv(tree, stack, b, ds, fs) ==
    /\ AreNodes(tree) /\ AreCalls(stack)
    /\ \E place : Shape(tree, place) /\ Walk(tree, stack, place, b, ds, fs)

LEMMA NamesAre == \A d : Names(d) = NamesIn(d, files)
BY DEF Names, NamesIn

LEMMA SubdirsAre == \A d : Subdirs(d) = SubdirsIn(d, dirs)
BY DEF Subdirs, SubdirsIn

LEMMA WalkingTop ==
    ASSUME NEW j \in Jobs, Walking(j), AreCalls(calls[j])
    PROVE  calls[j] # <<>> /\ Top(j) = calls[j][Len(calls[j])] /\ IsCall(Top(j))
<1>1. calls[j] # <<>> /\ Top(j) = calls[j][Len(calls[j])]
  BY DEF Walking, Top
<1>2. Len(calls[j]) \in 1..Len(calls[j])
  BY <1>1, SequenceIs DEF AreCalls
<1> QED BY <1>1, <1>2 DEF AreCalls

\* Each step of the walk.
LEMMA TestLeafStep ==
    ASSUME NEW j \in Jobs, calls = [k \in Jobs |-> calls[k]],
           began[j].files \subseteq files,
           WalkInv(nodes[j], calls[j], began[j], dirs, files), TestLeaf(j)
    PROVE  WalkInv(nodes[j], calls'[j], began[j], dirs, files)
<1> DEFINE tree == nodes[j]
           stack == calls[j]
           c == Top(j)
           s == WithLast(stack, Tested(c, files))
           b == began[j]
<1>1. PICK place : Shape(tree, place) /\ Walk(tree, stack, place, began[j], dirs, files)
  BY DEF WalkInv
<1>2. stack # <<>> /\ c = stack[Len(stack)] /\ c.step = "test" /\ AreCalls(stack)
  BY WalkingTop DEF TestLeaf, WalkInv
<1>3. calls'[j] = s
  BY NamesAre DEF TestLeaf, WithTop, LeafNode, WithLast, Tested
<1>4. b.files \subseteq files /\ Walk(tree, stack, place, b, dirs, files)
  BY <1>1
<1> HIDE DEF tree, stack, c, b
<1>5. AreCalls(s) /\ Walk(tree, s, place, b, dirs, files)
  BY <1>2, <1>4, WalkTest
<1> HIDE DEF s
<1>6. AreNodes(tree)
  BY DEF WalkInv, tree
<1>7. WalkInv(tree, s, b, dirs, files)
  BY <1>1, <1>5, <1>6 DEF WalkInv
<1> QED BY <1>3, <1>7 DEF tree, b

LEMMA OpenDirStep ==
    ASSUME NEW j \in Jobs, calls = [k \in Jobs |-> calls[k]], nodes = [k \in Jobs |-> nodes[k]],
           IsSite(dirs, files), began[j].dirs \subseteq dirs, began[j].files \subseteq files,
           WalkInv(nodes[j], calls[j], began[j], dirs, files), OpenDir(j)
    PROVE  WalkInv(nodes'[j], calls'[j], began[j], dirs, files)
<1> DEFINE tree == nodes[j]
           stack == calls[j]
           c == Top(j)
           max == IF c.step = "leaf" THEN 4 ELSE 1
           t == AddLabeled(tree, c.parent, TypeOf(c), Label(c.dir), max)
           s == WithLast(stack, Opened(c, Len(tree) + 1, dirs, files))
           b == began[j]
<1>1. PICK place : Shape(tree, place) /\ Walk(tree, stack, place, began[j], dirs, files)
  BY DEF WalkInv
<1>2. /\ stack # <<>> /\ c = stack[Len(stack)] /\ c.step # "test" /\ c.node = 0
      /\ AreCalls(stack) /\ AreNodes(tree)
  BY WalkingTop DEF OpenDir, WalkInv
<1>3. nodes'[j] = t
  BY DEF OpenDir, TypeOf
<1>4. calls'[j] = s
  BY NamesAre, SubdirsAre DEF OpenDir, WithTop, WithLast, Opened
<1>5. max \in Nat
  OBVIOUS
<1>6. /\ b.dirs \subseteq dirs /\ b.files \subseteq files
      /\ Walk(tree, stack, place, b, dirs, files)
  BY <1>1
<1> HIDE DEF tree, stack, c, max, b
<1>7. AreNodes(t) /\ AreCalls(s) /\ \E q : Shape(t, q) /\ Walk(t, s, q, b, dirs, files)
  BY <1>1, <1>2, <1>5, <1>6, WalkOpen
<1> HIDE DEF t, s
<1> QED BY <1>3, <1>4, <1>7 DEF WalkInv, b

LEMMA ReadLeafStep ==
    ASSUME NEW j \in Jobs, calls = [k \in Jobs |-> calls[k]], nodes = [k \in Jobs |-> nodes[k]],
           IsSite(dirs, files), WalkInv(nodes[j], calls[j], began[j], dirs, files), ReadLeaf(j)
    PROVE  WalkInv(nodes'[j], calls'[j], began[j], dirs, files)
<1> DEFINE tree == nodes[j]
           stack == calls[j]
           c == Top(j)
<1>1. PICK place : Shape(tree, place) /\ Walk(tree, stack, place, began[j], dirs, files)
  BY DEF WalkInv
<1>2. /\ stack # <<>> /\ c = stack[Len(stack)] /\ c.step = "leaf" /\ c.node # 0
      /\ AreCalls(stack) /\ AreNodes(tree)
  BY WalkingTop DEF ReadLeaf, Reading, WalkInv
<1>3. PICK n \in Names(Top(j).dir) \ Top(j).seen :
         /\ nodes' = [nodes EXCEPT ![j][Top(j).node] = AddChild(@, n)]
         /\ calls' = [calls EXCEPT ![j] = See(j, n)]
  BY DEF ReadLeaf
<1> DEFINE t == WithChild(tree, c.node, n)
           x == [c EXCEPT !.seen = @ \union {n}]
           s == [stack EXCEPT ![Len(stack)] = x]
<1>4. nodes'[j] = t /\ calls'[j] = s
  BY <1>3 DEF See, WithTop, WithChild
<1>5. n \in NamesIn(c.dir, files)
  BY <1>3, NamesAre
<1> HIDE DEF tree, stack, c, x
<1>6. AreNodes(t) /\ AreCalls(s) /\ Shape(t, place) /\ Walk(t, s, place, began[j], dirs, files)
  BY <1>1, <1>2, <1>5, WalkName DEF x
<1> HIDE DEF t, s
<1> QED BY <1>4, <1>6 DEF WalkInv

LEMMA ReadDirStep ==
    ASSUME NEW j \in Jobs, calls = [k \in Jobs |-> calls[k]],
           IsSite(dirs, files), WalkInv(nodes[j], calls[j], began[j], dirs, files), ReadDir(j)
    PROVE  WalkInv(nodes[j], calls'[j], began[j], dirs, files)
<1> DEFINE tree == nodes[j]
           stack == calls[j]
           c == Top(j)
<1>1. PICK place : Shape(tree, place) /\ Walk(tree, stack, place, began[j], dirs, files)
  BY DEF WalkInv
<1>2. /\ stack # <<>> /\ c = stack[Len(stack)] /\ c.step = "nonleaf" /\ c.node # 0
      /\ AreCalls(stack) /\ AreNodes(tree)
  BY WalkingTop DEF ReadDir, Reading, WalkInv
<1>3. PICK d \in Subdirs(Top(j).dir) \ Top(j).seen :
         calls' = [calls EXCEPT ![j] = Append(See(j, d), Call(d, Top(j).node))]
  BY DEF ReadDir
<1> DEFINE x == [c EXCEPT !.seen = @ \union {d}]
           r == [stack EXCEPT ![Len(stack)] = x]
           y == Call(d, c.node)
           s == Append(r, y)
<1>4. calls'[j] = s
  BY <1>3 DEF See, WithTop
<1>5. d \in SubdirsIn(c.dir, dirs) /\ d \notin c.seen
  BY <1>3, SubdirsAre
<1> HIDE DEF tree, stack, c, x, r, y
<1>6. AreCalls(s) /\ Walk(tree, s, place, began[j], dirs, files)
  BY <1>1, <1>2, <1>5, WalkDir DEF x, r, y
<1> HIDE DEF s
<1>7. WalkInv(tree, s, began[j], dirs, files)
  BY <1>1, <1>2, <1>6 DEF WalkInv
<1> QED BY <1>4, <1>7 DEF tree

LEMMA ReturnStep ==
    ASSUME NEW j \in Jobs, calls = [k \in Jobs |-> calls[k]],
           IsSite(dirs, files), WalkInv(nodes[j], calls[j], began[j], dirs, files), Return(j)
    PROVE  WalkInv(nodes[j], calls'[j], began[j], dirs, files)
<1> DEFINE tree == nodes[j]
           stack == calls[j]
           c == Top(j)
           s == SubSeq(stack, 1, Len(stack) - 1)
<1>1. PICK place : Shape(tree, place) /\ Walk(tree, stack, place, began[j], dirs, files)
  BY DEF WalkInv
<1>2. Walking(j) /\ c.node # 0 /\ c.listed \subseteq c.seen
  BY DEF Return, Reading
<1>3. stack # <<>> /\ c = stack[Len(stack)] /\ AreCalls(stack) /\ AreNodes(tree)
  BY <1>2, WalkingTop DEF WalkInv
<1>4. calls'[j] = s
  BY DEF Return
<1> HIDE DEF tree, stack, c
<1>5. AreCalls(s) /\ Walk(tree, s, place, began[j], dirs, files)
  BY <1>1, <1>2, <1>3, WalkReturn
<1> HIDE DEF s
<1>6. WalkInv(tree, s, began[j], dirs, files)
  BY <1>1, <1>3, <1>5 DEF WalkInv
<1> QED BY <1>4, <1>6 DEF tree

LEMMA StartStep ==
    ASSUME NEW j \in Jobs, calls = [k \in Jobs |-> calls[k]], nodes = [k \in Jobs |-> nodes[k]],
           NEW b, IsSite(dirs, files), Start(j)
    PROVE  WalkInv(nodes'[j], calls'[j], b, dirs, files)
<1>1. nodes'[j] = <<Node("object", "", 1)>> /\ calls'[j] = <<Call(<<>>, 1)>>
  BY DEF Start
<1>2. /\ AreNodes(<<Node("object", "", 1)>>) /\ AreCalls(<<Call(<<>>, 1)>>)
      /\ \E place : /\ Shape(<<Node("object", "", 1)>>, place)
                    /\ Walk(<<Node("object", "", 1)>>, <<Call(<<>>, 1)>>, place, b, dirs, files)
  BY WalkStart
<1> QED BY <1>1, <1>2 DEF WalkInv

LEMMA WalkInvGrows ==
    ASSUME NEW tree, NEW stack, NEW b, NEW ds, NEW fs, WalkInv(tree, stack, b, ds, fs),
           NEW es, ds \subseteq es, NEW gs, fs \subseteq gs
    PROVE  WalkInv(tree, stack, b, es, gs)
BY WalkGrows DEF WalkInv

\* A file beside directories was not there at first.
LEMMA NoFailure ==
    ASSUME NEW j \in Jobs, WalkInv(nodes[j], calls[j], began[j], dirs, files),
           began[j].files = files
    PROVE  ~ReadFile(j)
<1> SUFFICES ASSUME ReadFile(j) PROVE FALSE
  OBVIOUS
<1>1. PICK place : Walk(nodes[j], calls[j], place, began[j], dirs, files)
  BY DEF WalkInv
<1>2. /\ calls[j] # <<>> /\ Top(j) = calls[j][Len(calls[j])] /\ AreCalls(calls[j])
      /\ Top(j).step = "nonleaf" /\ Names(Top(j).dir) # {}
  BY WalkingTop DEF ReadFile, Reading, WalkInv
<1>3. Len(calls[j]) \in 1..Len(calls[j])
  BY <1>2, SequenceIs DEF AreCalls
<1>4. CallInv(nodes[j], place, began[j], dirs, files, Top(j))
  BY <1>1, <1>2, <1>3 DEF Walk
<1>5. NamesIn(Top(j).dir, files) = {}
  BY <1>2, <1>4 DEF CallInv
<1> QED BY <1>2, <1>5, NamesAre
-----------------------------------------------------------------------------
(* What is printed at the end *)

LEMMA Prefix ==
    ASSUME NEW d \in Seq(Name), NEW k \in Nat, k < Len(d)
    PROVE  /\ SubSeq(d, 1, k + 1) \in Seq(Name) /\ SubSeq(d, 1, k + 1) # <<>>
           /\ Parent(SubSeq(d, 1, k + 1)) = SubSeq(d, 1, k)
<1> DEFINE e == SubSeq(d, 1, k + 1)
<1>1. Len(d) \in Nat /\ k + 1 \in 0..Len(d)
  BY LenProperties
<1>2. e \in Seq(Name) /\ Len(e) = k + 1
  BY <1>1, PrefixType
<1>3. SubSeq(e, 1, k) = SubSeq(d, 1, k)
  <2>1. CASE k = 0
    BY <2>1, SubSeqEmpty
  <2>2. CASE k # 0
    <3> DEFINE m == k + 1
    <3>1. /\ 1 \in 1..Len(d) /\ m \in 1..Len(d) /\ 1 \in 1..(m - 1 + 1) /\ k \in 1..(m - 1 + 1)
          /\ 1 + 1 - 1 = 1 /\ 1 + k - 1 = k
      BY <1>1, <2>2
    <3> HIDE DEF m
    <3>2. SubSeq(SubSeq(d, 1, m), 1, k) = SubSeq(d, 1 + 1 - 1, 1 + k - 1)
      BY <3>1, SubSeqOfSubSeq
    <3> QED BY <3>1, <3>2 DEF m
  <2> QED BY <2>1, <2>2
<1> HIDE DEF e
<1>4. Len(e) - 1 = k /\ e # <<>>
  BY <1>2, EmptySeq
<1>5. Parent(e) = SubSeq(d, 1, k)
  BY <1>3, <1>4 DEF Parent
<1> QED BY <1>2, <1>4, <1>5 DEF e

\* All that is above a directory of a site is there too.
LEMMA PrefixThere ==
    ASSUME NEW ds, NEW fs, IsSite(ds, fs), NEW d \in ds, NEW k \in 0..Len(d)
    PROVE  SubSeq(d, 1, k) \in ds
<1> DEFINE L == Len(d)
           T == {m \in Nat : m <= L => SubSeq(d, 1, L - m) \in ds}
<1>1. d \in Seq(Name) /\ L \in Nat
  BY LenProperties DEF IsSite
<1>2. 0 \in T
  <2>1. SubSeq(d, 1, Len(d)) = d
    BY <1>1, SubSeqFull
  <2>2. L - 0 = L
    BY <1>1
  <2>3. SubSeq(d, 1, L - 0) \in ds
    BY <2>1, <2>2
  <2> QED BY <2>3
<1>3. ASSUME NEW m \in Nat, m \in T PROVE m + 1 \in T
  <2> SUFFICES ASSUME m + 1 <= L PROVE SubSeq(d, 1, L - (m + 1)) \in ds
    OBVIOUS
  <2> DEFINE n == L - (m + 1)
  <2>1. n \in Nat /\ n < L /\ n + 1 = L - m /\ m <= L
    BY <1>1
  <2>2. SubSeq(d, 1, n + 1) \in ds
    BY <1>3, <2>1
  <2> HIDE DEF n
  <2>3. SubSeq(d, 1, n + 1) # <<>> /\ Parent(SubSeq(d, 1, n + 1)) = SubSeq(d, 1, n)
    BY <1>1, <2>1, Prefix
  <2>4. SubSeq(d, 1, n) \in ds
    BY <2>2, <2>3 DEF IsSite
  <2> QED BY <2>4 DEF n
<1> HIDE DEF T
<1>4. Nat \subseteq T
  BY <1>2, <1>3, Induction
<1>5. L - k \in T /\ L - k <= L /\ L - (L - k) = k
  BY <1>1, <1>4
<1> QED BY <1>5 DEF T

\* The directories of ds that are not below one with a file of fs in it.
Reachable(ds, fs) ==
    {d \in ds : \A k \in 0..(Len(d) - 1) : NamesIn(SubSeq(d, 1, k), fs) = {}}

\* What was reachable at first, and still is, has a node, ...
LEMMA ReachableHasNode ==
    ASSUME NEW tree, NEW place, NEW stack, NEW b, NEW ds, NEW fs,
           Shape(tree, place), Walk(tree, stack, place, b, ds, fs), Len(stack) = 0,
           IsSite(b.dirs, b.files),
           NEW d \in Reachable(b.dirs, fs)
    PROVE  IsDir(tree, place, d)
<1> DEFINE T == {k \in Nat : k <= Len(d) => IsDir(tree, place, SubSeq(d, 1, k))}
<1>1. /\ d \in b.dirs /\ d \in Seq(Name) /\ Len(d) \in Nat
      /\ \A k \in 0..(Len(d) - 1) : NamesIn(SubSeq(d, 1, k), fs) = {}
  BY LenProperties DEF Reachable, IsSite
<1>2. 0 \in T
  <2>1. IsDir(tree, place, <<>>)
    BY DEF Walk
  <2>2. SubSeq(d, 1, 0) = <<>>
    BY SubSeqEmpty
  <2> QED BY <2>1, <2>2
<1>3. ASSUME NEW k \in Nat, k \in T PROVE k + 1 \in T
  <2> SUFFICES ASSUME k + 1 <= Len(d) PROVE IsDir(tree, place, SubSeq(d, 1, k + 1))
    OBVIOUS
  <2> DEFINE e == SubSeq(d, 1, k + 1)
  <2>1. k < Len(d) /\ k <= Len(d) /\ k \in 0..(Len(d) - 1) /\ k + 1 \in 0..Len(d)
    BY <1>1
  <2>2. PICK n \in 2..Len(tree) : place[n] = SubSeq(d, 1, k)
    BY <1>3, <2>1 DEF IsDir
  <2>3. e \in b.dirs
    BY <1>1, <2>1, PrefixThere
  <2>4. e # <<>> /\ Parent(e) = place[n]
    BY <1>1, <2>1, <2>2, Prefix
  <2> HIDE DEF e
  <2>5. NamesIn(place[n], fs) = {}
    BY <1>1, <2>1, <2>2
  <2>6. tree[n].type = "object"
    <3>1. NodeInv(tree, place, b, ds, fs, n)
      BY DEF Walk
    <3> QED BY <2>5, <3>1 DEF NodeInv, Shape, IsPlaced
  <2>7. Complete(tree, place, b, n)
    BY DEF Walk
  <2>8. e \in SubdirsIn(place[n], b.dirs)
    BY <2>3, <2>4 DEF SubdirsIn
  <2>9. IsDir(tree, place, e)
    BY <2>6, <2>7, <2>8 DEF Complete
  <2> QED BY <2>9 DEF e
<1> HIDE DEF T
<1>4. Nat \subseteq T
  BY <1>2, <1>3, Induction
<1>5. IsDir(tree, place, SubSeq(d, 1, Len(d)))
  BY <1>1, <1>4 DEF T
<1> QED BY <1>1, <1>5, SubSeqFull

\* ... and so have the names of the files in it.
LEMMA ReachableHasNames ==
    ASSUME NEW tree, NEW place, NEW stack, NEW b, NEW ds, NEW fs,
           Shape(tree, place), Walk(tree, stack, place, b, ds, fs), Len(stack) = 0,
           IsSite(b.dirs, b.files),
           NEW f \in b.files, f[1] \in Reachable(b.dirs, fs)
    PROVE  IsFile(tree, place, f[1] \o <<f[2]>>)
<1>1. PICK n \in 2..Len(tree) : place[n] = f[1]
  BY ReachableHasNode DEF IsDir
<1>2. f[2] \in NamesIn(place[n], b.files)
  BY <1>1 DEF NamesIn
<1>3. tree[n].type = "array"
  <2>1. NodeInv(tree, place, b, ds, fs, n)
    BY DEF Walk
  <2> QED BY <1>2, <2>1 DEF NodeInv, Shape, IsPlaced
<1>4. f[2] \in tree[n].children
  <2>1. Complete(tree, place, b, n)
    BY DEF Walk
  <2> QED BY <1>2, <1>3, <2>1 DEF Complete
<1> QED BY <1>1, <1>3, <1>4 DEF IsFile

\* What has a node could be reached in the tree of the beginning.
LEMMA NodeIsReachable ==
    ASSUME NEW tree, NEW place, NEW stack, NEW b, NEW ds, NEW fs,
           Shape(tree, place), Walk(tree, stack, place, b, ds, fs), NEW n \in 2..Len(tree)
    PROVE  place[n] \in Reachable(ds, b.files)
<1>1. place[n] \in ds
  BY DEF Walk, NodeInv
<1>2. ASSUME NEW k \in 0..(Len(place[n]) - 1) PROVE NamesIn(SubSeq(place[n], 1, k), b.files) = {}
  <2>reached. IsReached(tree, place, n)
    BY DEF Shape
  <2>1. PICK m \in 2..Len(tree) : place[m] = SubSeq(place[n], 1, k) /\ tree[m].type = "object"
    <3>1. \E m \in 2..Len(tree) :
             m < n /\ place[m] = SubSeq(place[n], 1, k) /\ tree[m].type = "object"
      BY <2>reached DEF IsReached
    <3> QED BY <3>1
  <2>2. NodeInv(tree, place, b, ds, fs, m)
    BY DEF Walk
  <2> QED BY <2>1, <2>2 DEF NodeInv
<1> QED BY <1>1, <1>2 DEF Reachable

\* The paths of the directories ds, and of the files fs in them.
NamedBy(ds, fs) ==
    ds \union {f[1] \o <<f[2]>> : f \in {g \in fs : g[1] \in ds}}

\* When the walk is over, the entries are those of the tree, as far as it did not
\* change meanwhile.
LEMMA EntriesAreTree ==
    ASSUME NEW tree, NEW place, NEW stack, NEW b, NEW ds, NEW fs,
           Shape(tree, place), Walk(tree, stack, place, b, ds, fs), Len(stack) = 0,
           IsSite(ds, fs), IsSite(b.dirs, b.files)
    PROVE  /\ NamedBy(Reachable(b.dirs, fs), b.files) \subseteq Entries(tree, place)
           /\ Entries(tree, place) \subseteq NamedBy(Reachable(ds, b.files), fs)
<1>1. ASSUME NEW e \in NamedBy(Reachable(b.dirs, fs), b.files)
      PROVE  e \in Entries(tree, place)
  <2>1. CASE e \in Reachable(b.dirs, fs)
    <3>1. IsDir(tree, place, e)
      BY <2>1, ReachableHasNode
    <3>2. e \in Seq(Name)
      BY <2>1 DEF Reachable, IsSite
    <3> QED BY <3>1, <3>2 DEF Entries, Entry
  <2>2. CASE e \notin Reachable(b.dirs, fs)
    <3>1. PICK f \in b.files : f[1] \in Reachable(b.dirs, fs) /\ e = f[1] \o <<f[2]>>
      BY <2>2 DEF NamedBy
    <3>2. IsFile(tree, place, e)
      BY <3>1, ReachableHasNames
    <3>3. f[1] \in Seq(Name) /\ f[2] \in Name
      BY DEF IsSite
    <3>4. e \in Seq(Name)
      BY <3>1, <3>3, Below
    <3> QED BY <3>2, <3>4 DEF Entries, Entry
  <2> QED BY <2>1, <2>2
<1>2. ASSUME NEW e \in Entries(tree, place)
      PROVE  e \in NamedBy(Reachable(ds, b.files), fs)
  <2>1. Entry(tree, place, e)
    BY DEF Entries
  <2>2. CASE IsDir(tree, place, e)
    BY <2>2, NodeIsReachable DEF IsDir, NamedBy
  <2>3. CASE IsFile(tree, place, e)
    <3>1. PICK n \in 2..Len(tree) :
             tree[n].type = "array" /\ \E c \in tree[n].children : e = place[n] \o <<c>>
      BY <2>3 DEF IsFile
    <3>2. PICK c \in tree[n].children : e = place[n] \o <<c>>
      BY <3>1
    <3>3. NodeInv(tree, place, b, ds, fs, n)
      BY DEF Walk
    <3>4. PICK f \in fs : f[1] = place[n] /\ f[2] = c
      BY <3>1, <3>3 DEF NodeInv, NamesIn
    <3>5. f[1] \in Reachable(ds, b.files)
      BY <3>4, NodeIsReachable
    <3> QED BY <3>2, <3>4, <3>5 DEF NamedBy
  <2> QED BY <2>1, <2>2, <2>3 DEF Entry
<1> QED BY <1>1, <1>2
=============================================================================
