---------------------------- MODULE Nightly_proofs ----------------------------
(***************************************************************************)
(* Proofs about Nightly and JsonizeTree, for any tree of results, any jobs *)
(* and whatever is copied meanwhile.                                       *)
(***************************************************************************)
EXTENDS Nightly, JsonizeTree_proofs

-----------------------------------------------------------------------------
(* The room of the nodes *)

LEMMA InitNodes == ASSUME Init PROVE NodesInv
BY NoNode DEF Init, NodesInv

LEMMA NextNodes ==
    ASSUME NodesInv, [Next]_vars
    PROVE  NodesInv'
<1>1. ASSUME NEW j \in Jobs, NEW tree, AreNodes(tree), nodes' = [nodes EXCEPT ![j] = tree]
      PROVE  NodesInv'
  BY <1>1 DEF NodesInv
<1>2. CASE UNCHANGED nodes
  BY <1>2 DEF NodesInv
<1>3. ASSUME NEW j \in Jobs, Start(j) PROVE NodesInv'
  <2>1. AreNodes(<<Node("object", "", 1)>>)
    BY NewNode, OneNode
  <2> QED BY <1>1, <1>3, <2>1 DEF Start
<1>4. ASSUME NEW j \in Jobs, OpenDir(j) PROVE NodesInv'
  <2>1. AreNodes(nodes[j])
    BY DEF NodesInv
  <2>2. /\ AreNodes(AddLabeled(nodes[j], Top(j).parent, "array", Label(Top(j).dir), 4))
        /\ AreNodes(AddLabeled(nodes[j], Top(j).parent, "object", Label(Top(j).dir), 1))
    BY <2>1, AddLabeledNodes
  <2> QED BY <1>1, <1>4, <2>2 DEF OpenDir
<1>5. ASSUME NEW j \in Jobs, ReadLeaf(j) PROVE NodesInv'
  <2>1. PICK n : nodes' = [nodes EXCEPT ![j][Top(j).node] = AddChild(@, n)]
    BY <1>5 DEF ReadLeaf
  <2>2. nodes' = [nodes EXCEPT ![j] = [nodes[j] EXCEPT ![Top(j).node] = AddChild(@, n)]]
    BY <2>1
  <2>3. AreNodes([nodes[j] EXCEPT ![Top(j).node] = AddChild(@, n)])
    BY ChangeNode DEF NodesInv
  <2> QED BY <1>1, <2>2, <2>3
<1>6. ASSUME NEW j \in Jobs, RunJsonize(j) PROVE NodesInv'
  BY <1>2, <1>3, <1>4, <1>5, <1>6
     DEF RunJsonize, Jsonize, TestLeaf, ReadDir, ReadFile, Return, StartPrint, EndPrint, treeVars
<1> QED BY <1>2, <1>6
        DEF Next, Build, RunTests, MakeDay, Copy, CopyDone, Finished, vars, treeVars

\* _expand_child_space always leaves room for the child that is added, however
\* large the directories are and whatever happens to them.
THEOREM NodesHaveRoom == Spec => []RoomForChildren
<1>1. NodesInv => RoomForChildren
  BY DEF NodesInv, AreNodes, IsNode, RoomForChildren
<1> QED BY <1>1, InitNodes, NextNodes, PTL DEF Spec
-----------------------------------------------------------------------------
(* The tree, and the jobs that walk it *)

TypeInv ==
    /\ nodes = [j \in Jobs |-> nodes[j]] /\ calls = [j \in Jobs |-> calls[j]]
    /\ pc = [j \in Jobs |-> pc[j]] /\ began = [j \in Jobs |-> began[j]]
    /\ undisturbed = [j \in Jobs |-> undisturbed[j]]

SiteInv == IsSite(dirs, files) /\ written \subseteq Results

JobInv(j) ==
    pc[j] \in {"walk", "print", "done"} =>
        /\ began[j].dirs \subseteq dirs /\ began[j].files \subseteq files
        /\ IsSite(began[j].dirs, began[j].files)
        /\ WalkInv(nodes[j], calls[j], began[j], dirs, files)
        /\ pc[j] # "walk" => calls[j] = <<>>

TreeInv == TypeInv /\ SiteInv /\ \A j \in Jobs : JobInv(j)

\* The results of a night come to directories that are there.
LEMMA DayIsSite ==
    ASSUME SiteInv, MakeDay
    PROVE  SiteInv' /\ dirs \subseteq dirs' /\ files \subseteq files'
<1>1. /\ dirs' = dirs \union {SubSeq(Day, 1, n) : n \in 1..Len(Day)}
      /\ files' = files /\ written' = written
  BY DEF MakeDay
<1>2. IsSite(dirs, files) /\ Day \in Seq(Name) /\ Len(Day) \in Nat
  BY TreeAssumption, LenProperties DEF SiteInv
<1>3. ASSUME NEW n \in 1..Len(Day)
      PROVE  SubSeq(Day, 1, n) \in Seq(Name) /\ Parent(SubSeq(Day, 1, n)) \in dirs'
  <2> DEFINE k == n - 1
  <2>1. k \in Nat /\ k < Len(Day) /\ k + 1 = n /\ (k = 0 \/ k \in 1..Len(Day))
    BY <1>2
  <2> HIDE DEF k
  <2>2. /\ SubSeq(Day, 1, k + 1) \in Seq(Name)
        /\ Parent(SubSeq(Day, 1, k + 1)) = SubSeq(Day, 1, k)
    BY <1>2, <2>1, Prefix
  <2>3. SubSeq(Day, 1, k) \in dirs'
    <3>1. CASE k = 0
      <4>1. SubSeq(Day, 1, k) = <<>>
        BY <3>1, SubSeqEmpty
      <4> QED BY <1>1, <1>2, <4>1 DEF IsSite
    <3>2. CASE k \in 1..Len(Day)
      BY <1>1, <3>2
    <3> QED BY <2>1, <3>1, <3>2
  <2> QED BY <2>1, <2>2, <2>3
<1>4. IsSite(dirs', files')
  <2>1. dirs' \subseteq Seq(Name)
    BY <1>1, <1>2, <1>3 DEF IsSite
  <2>2. ASSUME NEW d \in dirs', d # <<>> PROVE Parent(d) \in dirs'
    <3>1. CASE d \in dirs
      BY <1>1, <1>2, <2>2, <3>1 DEF IsSite
    <3>2. CASE d \notin dirs
      BY <1>1, <1>3, <3>2
    <3> QED BY <3>1, <3>2
  <2>3. <<>> \in dirs' /\ files' \subseteq dirs' \X Name
    BY <1>1, <1>2 DEF IsSite
  <2> QED BY <2>1, <2>2, <2>3 DEF IsSite
<1> QED BY <1>1, <1>4 DEF SiteInv

LEMMA CopyIsSite ==
    ASSUME SiteInv, Copy
    PROVE  SiteInv' /\ dirs \subseteq dirs' /\ files \subseteq files'
<1>1. written' = written /\ IsSite(dirs, files) /\ written \subseteq Results
  BY DEF Copy, SiteInv
<1>2. CASE \E d \in TestDirs \ dirs :
              Parent(d) \in dirs /\ dirs' = dirs \union {d} /\ UNCHANGED files
  <2>1. PICK d \in TestDirs : Parent(d) \in dirs /\ dirs' = dirs \union {d} /\ files' = files
    BY <1>2
  <2>2. d \in Seq(Name)
    BY TreeAssumption
  <2>3. IsSite(dirs', files')
    BY <1>1, <2>1, <2>2 DEF IsSite
  <2> QED BY <1>1, <2>1, <2>3 DEF SiteInv
<1>3. CASE \E f \in written \ files :
              f[1] \in dirs /\ files' = files \union {f} /\ UNCHANGED dirs
  <2>1. PICK f \in written : f[1] \in dirs /\ files' = files \union {f} /\ dirs' = dirs
    BY <1>3
  <2>2. f \in TestDirs \X Name
    BY <1>1, TreeAssumption
  <2>3. f \in dirs \X Name
    BY <2>1, <2>2
  <2>4. IsSite(dirs', files')
    BY <1>1, <2>1, <2>3 DEF IsSite
  <2> QED BY <1>1, <2>1, <2>4 DEF SiteInv
<1> QED BY <1>2, <1>3 DEF Copy

\* What others do does not disturb a job.
LEMMA JobKept ==
    ASSUME NEW j \in Jobs, JobInv(j), dirs \subseteq dirs', files \subseteq files',
           pc'[j] \in {"walk", "print", "done"} => pc'[j] = pc[j],
           nodes'[j] = nodes[j], calls'[j] = calls[j], began'[j] = began[j]
    PROVE  JobInv(j)'
<1> SUFFICES ASSUME pc'[j] \in {"walk", "print", "done"}
             PROVE  /\ began'[j].dirs \subseteq dirs' /\ began'[j].files \subseteq files'
                    /\ IsSite(began'[j].dirs, began'[j].files)
                    /\ WalkInv(nodes'[j], calls'[j], began'[j], dirs', files')
                    /\ pc'[j] # "walk" => calls'[j] = <<>>
  BY DEF JobInv
<1>1. /\ began[j].dirs \subseteq dirs /\ began[j].files \subseteq files
      /\ IsSite(began[j].dirs, began[j].files)
      /\ WalkInv(nodes[j], calls[j], began[j], dirs, files)
      /\ pc[j] # "walk" => calls[j] = <<>>
  BY DEF JobInv
<1>2. WalkInv(nodes[j], calls[j], began[j], dirs', files')
  BY <1>1, WalkInvGrows
<1> QED BY <1>1, <1>2

\* Each step of a job.
LEMMA JobStep ==
    ASSUME NEW j \in Jobs, TypeInv, IsSite(dirs, files), JobInv(j), Jsonize(j)
    PROVE  JobInv(j)'
<1>1. UNCHANGED <<dirs, files>>
  BY DEF Jsonize, Start, TestLeaf, OpenDir, ReadLeaf, ReadDir, ReadFile, Return, StartPrint,
         EndPrint
<1>2. CASE Start(j)
  <2>1. pc'[j] = "walk" /\ began'[j] = [dirs |-> dirs, files |-> files]
    BY <1>2 DEF Start, TypeInv, Tree
  <2>2. WalkInv(nodes'[j], calls'[j], began'[j], dirs, files)
    BY <1>2, StartStep DEF TypeInv
  <2> QED BY <1>1, <2>1, <2>2 DEF JobInv
<1>3. ASSUME pc[j] = "walk", pc' = pc, began' = began,
             WalkInv(nodes'[j], calls'[j], began[j], dirs, files)
      PROVE  JobInv(j)'
  BY <1>1, <1>3 DEF JobInv
<1>4. ASSUME Walking(j)
      PROVE  /\ pc[j] = "walk" /\ began[j].dirs \subseteq dirs /\ began[j].files \subseteq files
             /\ WalkInv(nodes[j], calls[j], began[j], dirs, files)
  BY <1>4 DEF JobInv, Walking
<1>5. CASE TestLeaf(j)
  <2>1. Walking(j) /\ pc' = pc /\ began' = began /\ nodes' = nodes
    BY <1>5 DEF TestLeaf
  <2>2. WalkInv(nodes[j], calls'[j], began[j], dirs, files)
    BY <1>4, <1>5, <2>1, TestLeafStep DEF TypeInv
  <2> QED BY <1>3, <1>4, <2>1, <2>2
<1>6. CASE OpenDir(j)
  <2>1. Walking(j) /\ pc' = pc /\ began' = began
    BY <1>6 DEF OpenDir
  <2>2. WalkInv(nodes'[j], calls'[j], began[j], dirs, files)
    BY <1>4, <1>6, <2>1, OpenDirStep DEF TypeInv
  <2> QED BY <1>3, <1>4, <2>1, <2>2
<1>7. CASE ReadLeaf(j)
  <2>1. Walking(j) /\ pc' = pc /\ began' = began
    BY <1>7 DEF ReadLeaf, Reading
  <2>2. WalkInv(nodes'[j], calls'[j], began[j], dirs, files)
    BY <1>4, <1>7, <2>1, ReadLeafStep DEF TypeInv
  <2> QED BY <1>3, <1>4, <2>1, <2>2
<1>8. CASE ReadDir(j)
  <2>1. Walking(j) /\ pc' = pc /\ began' = began /\ nodes' = nodes
    BY <1>8 DEF ReadDir, Reading
  <2>2. WalkInv(nodes[j], calls'[j], began[j], dirs, files)
    BY <1>4, <1>8, <2>1, ReadDirStep DEF TypeInv
  <2> QED BY <1>3, <1>4, <2>1, <2>2
<1>9. CASE ReadFile(j)
  BY <1>9 DEF ReadFile, JobInv, TypeInv
<1>10. CASE Return(j)
  <2>1. Walking(j) /\ pc' = pc /\ began' = began /\ nodes' = nodes
    BY <1>10 DEF Return, Reading
  <2>2. WalkInv(nodes[j], calls'[j], began[j], dirs, files)
    BY <1>4, <1>10, <2>1, ReturnStep DEF TypeInv
  <2> QED BY <1>3, <1>4, <2>1, <2>2
<1>11. CASE StartPrint(j)
  BY <1>1, <1>11 DEF StartPrint, JobInv, TypeInv
<1>12. CASE EndPrint(j)
  BY <1>1, <1>12 DEF EndPrint, JobInv, TypeInv
<1> QED BY <1>2, <1>5, <1>6, <1>7, <1>8, <1>9, <1>10, <1>11, <1>12 DEF Jsonize

LEMMA InitTree == ASSUME Init PROVE TreeInv
<1>1. TypeInv
  BY DEF Init, TypeInv
<1>2. SiteInv
  BY TreeAssumption DEF Init, SiteInv, IsSite
<1>3. \A j \in Jobs : JobInv(j)
  BY DEF Init, JobInv
<1> QED BY <1>1, <1>2, <1>3 DEF TreeInv

LEMMA NextTree ==
    ASSUME TreeInv, [Next]_vars
    PROVE  TreeInv'
<1>1. Night \in Jobs
  BY JobsAssumption
<1>2. TypeInv'
  <2>1. CASE UNCHANGED vars
    BY <2>1 DEF TreeInv, TypeInv, vars, treeVars
  <2>2. CASE Build \/ RunTests \/ MakeDay \/ Copy \/ CopyDone \/ Finished
    BY <2>2 DEF TreeInv, TypeInv, Build, RunTests, MakeDay, Copy, CopyDone, Finished, Go,
                vars, treeVars
  <2>3. ASSUME NEW j \in Jobs, RunJsonize(j) PROVE TypeInv'
    BY <2>3 DEF RunJsonize, Jsonize, Start, TestLeaf, OpenDir, ReadLeaf, ReadDir, ReadFile,
                Return, StartPrint, EndPrint, TreeInv, TypeInv, treeVars
  <2> QED BY <2>1, <2>2, <2>3 DEF Next
<1>3. ASSUME SiteInv', dirs \subseteq dirs', files \subseteq files',
             UNCHANGED treeVars,
             \A j \in Jobs : pc'[j] \in {"walk", "print", "done"} => pc'[j] = pc[j]
      PROVE  TreeInv'
  <2>1. ASSUME NEW j \in Jobs PROVE JobInv(j)'
    BY <1>3, JobKept DEF TreeInv, treeVars
  <2> QED BY <1>2, <1>3, <2>1 DEF TreeInv
<1>4. ASSUME NEW step \in {"C", "CPP", "tests", "exit", "mkdir", "cp", "jsonize"}, Go(step)
      PROVE  \A j \in Jobs : pc'[j] \in {"walk", "print", "done"} => pc'[j] = pc[j]
  BY <1>1, <1>4 DEF Go, TreeInv, TypeInv
<1>5. CASE UNCHANGED vars
  BY <1>3, <1>5 DEF TreeInv, SiteInv, vars, treeVars
<1>6. CASE Build
  BY <1>3, <1>4, <1>6 DEF Build, TreeInv, SiteInv
<1>7. CASE RunTests
  BY <1>3, <1>4, <1>7 DEF RunTests, TreeInv, SiteInv
<1>8. CASE MakeDay
  <2>1. UNCHANGED treeVars /\ Go("cp")
    BY <1>8 DEF MakeDay
  <2> QED BY <1>3, <1>4, <1>8, <2>1, DayIsSite DEF TreeInv
<1>9. CASE Copy
  <2>1. UNCHANGED <<pc, treeVars>>
    BY <1>9 DEF Copy
  <2> QED BY <1>3, <1>9, <2>1, CopyIsSite DEF TreeInv
<1>10. CASE CopyDone
  BY <1>3, <1>4, <1>10 DEF CopyDone, TreeInv, SiteInv
<1>11. ASSUME NEW j \in Jobs, RunJsonize(j) PROVE TreeInv'
  <2>1. Jsonize(j) /\ UNCHANGED <<dirs, files, written>>
    BY <1>11 DEF RunJsonize, Jsonize, Start, TestLeaf, OpenDir, ReadLeaf, ReadDir, ReadFile,
                 Return, StartPrint, EndPrint
  <2>2. JobInv(j)'
    BY <2>1, JobStep DEF TreeInv, SiteInv
  <2>3. ASSUME NEW k \in Jobs, k # j PROVE JobInv(k)'
    <3>1. /\ pc'[k] = pc[k] /\ nodes'[k] = nodes[k] /\ calls'[k] = calls[k]
          /\ began'[k] = began[k]
      BY <2>1, <2>3 DEF Jsonize, Start, TestLeaf, OpenDir, ReadLeaf, ReadDir, ReadFile,
                        Return, StartPrint, EndPrint, TreeInv, TypeInv, treeVars
    <3> QED BY <2>1, <3>1, JobKept DEF TreeInv
  <2>4. SiteInv'
    BY <2>1 DEF TreeInv, SiteInv
  <2> QED BY <1>2, <2>2, <2>3, <2>4 DEF TreeInv
<1>12. CASE Finished
  BY <1>5, <1>12 DEF Finished
<1> QED BY <1>5, <1>6, <1>7, <1>8, <1>9, <1>10, <1>11, <1>12 DEF Next

\* The paths of a tree are those of its entries below "tests".
LEMMA WalkedIs == ASSUME NEW ds, NEW fs PROVE Walked(ds, fs) = Reachable(ds, fs)
<1>1. ASSUME NEW d
      PROVE  (\A a \in Above(d) : ~\E f \in fs : f[1] = a) <=>
             (\A k \in 0..(Len(d) - 1) : NamesIn(SubSeq(d, 1, k), fs) = {})
  <2>1. \A a : (~\E f \in fs : f[1] = a) <=> NamesIn(a, fs) = {}
    BY DEF NamesIn
  <2> QED BY <2>1, ZenonT(30) DEF Above
<1> QED BY <1>1 DEF Walked, Reachable

LEMMA NamedIs ==
    ASSUME NEW ds, ds \subseteq Seq(Name), NEW fs, fs \subseteq Seq(Name) \X Name
    PROVE  Named(ds, fs) = {<<"tests">> \o e : e \in NamedBy(ds, fs)}
<1> DEFINE S == Name \union {"tests"}
           root == <<"tests">>
           gs == {g \in fs : g[1] \in ds}
<1>1. ASSUME NEW f \in gs PROVE (root \o f[1]) \o <<f[2]>> = root \o (f[1] \o <<f[2]>>)
  <2> DEFINE a == f[1]
             z == <<f[2]>>
  <2>1. f[1] \in Seq(Name) /\ f[2] \in S
    OBVIOUS
  <2>2. root \in Seq(S) /\ a \in Seq(S) /\ z \in Seq(S)
    <3>1. f[1] \in Seq(S)
      BY <2>1, SeqDef
    <3> QED BY <2>1, <3>1
  <2> HIDE DEF a, z, root, S
  <2>3. (root \o a) \o z = root \o (a \o z)
    BY <2>2, Assoc, SMTT(30)
  <2> QED BY <2>3 DEF a, z
<1>2. Named(ds, fs) = {root \o d : d \in ds} \union {(root \o f[1]) \o <<f[2]>> : f \in gs}
  BY DEF Named
<1>3. NamedBy(ds, fs) = ds \union {f[1] \o <<f[2]>> : f \in gs}
  BY DEF NamedBy
<1> HIDE DEF root, gs
<1>4. {(root \o f[1]) \o <<f[2]>> : f \in gs} = {root \o (f[1] \o <<f[2]>>) : f \in gs}
  BY <1>1
<1>5. {root \o e : e \in NamedBy(ds, fs)}
         = {root \o d : d \in ds} \union {root \o (f[1] \o <<f[2]>>) : f \in gs}
  BY <1>3
<1> QED BY <1>2, <1>4, <1>5 DEF root

\* What a job prints.
LEMMA TextIsTree ==
    ASSUME TreeInv, NEW j \in Jobs, pc[j] \in {"print", "done"}
    PROVE  /\ Named(Walked(began[j].dirs, files), began[j].files) \subseteq Text(j)
           /\ Text(j) \subseteq Named(Walked(dirs, began[j].files), files)
<1> DEFINE tree == nodes[j]
           b == began[j]
<1>1. /\ IsSite(b.dirs, b.files) /\ IsSite(dirs, files) /\ calls[j] = <<>>
      /\ WalkInv(tree, calls[j], b, dirs, files)
  BY DEF TreeInv, SiteInv, JobInv
<1>2. PICK place : Shape(tree, place) /\ Walk(tree, calls[j], place, b, dirs, files)
  BY <1>1 DEF WalkInv
<1>3. Len(calls[j]) = 0
  BY <1>1
<1> HIDE DEF tree, b
<1>4. /\ NamedBy(Reachable(b.dirs, files), b.files) \subseteq Entries(tree, place)
      /\ Entries(tree, place) \subseteq NamedBy(Reachable(dirs, b.files), files)
  BY <1>1, <1>2, <1>3, EntriesAreTree
<1>5. Text(j) = {<<"tests">> \o e : e \in Entries(tree, place)}
  BY <1>2, PathsAreEntries DEF Text, tree
<1>6. Named(Walked(b.dirs, files), b.files)
         = {<<"tests">> \o e : e \in NamedBy(Reachable(b.dirs, files), b.files)}
  <2>1. Reachable(b.dirs, files) \subseteq Seq(Name) /\ b.files \subseteq Seq(Name) \X Name
    BY <1>1 DEF Reachable, IsSite
  <2> QED BY <2>1, NamedIs, WalkedIs
<1>7. Named(Walked(dirs, b.files), files)
         = {<<"tests">> \o e : e \in NamedBy(Reachable(dirs, b.files), files)}
  <2>1. Reachable(dirs, b.files) \subseteq Seq(Name) /\ files \subseteq Seq(Name) \X Name
    BY <1>1 DEF Reachable, IsSite
  <2> QED BY <2>1, NamedIs, WalkedIs
<1> QED BY <1>4, <1>5, <1>6, <1>7 DEF b

\* The recursion of jsonize_dir, and that of mjson_print, lose no directory and no
\* file, put each in its place, and invent none, however deep the tree is, in
\* whatever order readdir gives it, and whatever is copied meanwhile.
THEOREM TextIsTheTree == Spec => []JsonIsTheTree
<1>1. TreeInv => JsonIsTheTree
  BY TextIsTree DEF JsonIsTheTree
<1> QED BY <1>1, InitTree, NextTree, PTL DEF Spec
-----------------------------------------------------------------------------
(* results.json *)

Current == Named(Walked(dirs, files), files)

\* Once run.sh has started jsonize_tree the site does not change, so that all jobs
\* print the same; what is not whole will be, by a job nobody has disturbed since
\* it began to print.
CurrentInv ==
    /\ pc[Night] \in {"jsonize", "walk", "print", "done"} => Copied
    /\ pc[Night] \in {"walk", "print", "done"} /\ alone =>
          /\ \A j \in Jobs : AtWork(j) => began[j] = Tree
          /\ json.paths \subseteq Current
          /\ \/ json = Whole(Current)
             \/ \E j \in Jobs : pc[j] = "walk" \/ (pc[j] = "print" /\ undisturbed[j])

LEMMA TextIsCurrent ==
    ASSUME TreeInv, NEW j \in Jobs, pc[j] \in {"print", "done"}, began[j] = Tree
    PROVE  Text(j) = Current
<1>1. began[j].dirs = dirs /\ began[j].files = files
  BY DEF Tree
<1> QED BY <1>1, TextIsTree DEF Current

LEMMA InitCurrent == ASSUME Init PROVE CurrentInv
BY JobsAssumption DEF Init, CurrentInv

LEMMA NextCurrent ==
    ASSUME TreeInv, CurrentInv, [Next]_vars
    PROVE  CurrentInv'
<1>1. Night \in Jobs /\ TypeInv
  BY JobsAssumption DEF TreeInv
<1>2. CASE UNCHANGED vars
  BY <1>2 DEF CurrentInv, vars, treeVars, Copied, Current, AtWork, Tree, Text
<1>3. CASE Build \/ RunTests \/ MakeDay
  <2>1. pc'[Night] \notin {"jsonize", "walk", "print", "done"}
    BY <1>1, <1>3 DEF Build, RunTests, MakeDay, Go, TypeInv
  <2> QED BY <2>1 DEF CurrentInv
<1>4. CASE Copy
  <2>1. pc'[Night] \notin {"jsonize", "walk", "print", "done"}
    BY <1>4 DEF Copy
  <2> QED BY <2>1 DEF CurrentInv
<1>5. CASE CopyDone
  <2>1. Copied' /\ pc'[Night] = "jsonize"
    BY <1>1, <1>5 DEF CopyDone, Copied, Go, TypeInv
  <2> QED BY <2>1 DEF CurrentInv
<1>6. CASE Finished
  BY <1>2, <1>6 DEF Finished
<1>7. ASSUME NEW j \in Jobs, RunJsonize(j) PROVE CurrentInv'
  <2>1. Jsonize(j) /\ UNCHANGED <<dirs, files, written>>
    BY <1>7 DEF RunJsonize, Jsonize, Start, TestLeaf, OpenDir, ReadLeaf, ReadDir, ReadFile,
                 Return, StartPrint, EndPrint
  <2>2. Copied' = Copied /\ Current' = Current /\ Tree' = Tree
    BY <2>1 DEF Copied, Current, Tree, Named, Walked
  <2>3. \A k \in Jobs : k # j => pc'[k] = pc[k] /\ began'[k] = began[k]
    BY <1>1, <2>1 DEF Jsonize, Start, TestLeaf, OpenDir, ReadLeaf, ReadDir, ReadFile,
                      Return, StartPrint, EndPrint, TypeInv, treeVars
  <2>4. pc'[Night] \in {"jsonize", "walk", "print", "done"} =>
           pc[Night] \in {"jsonize", "walk", "print", "done"}
    BY <1>1, <2>1, <2>3 DEF Jsonize, Start, TestLeaf, OpenDir, ReadLeaf, ReadDir, ReadFile,
                      Return, StartPrint, EndPrint, Walking, Reading, TypeInv, treeVars
  <2> SUFFICES ASSUME pc'[Night] \in {"walk", "print", "done"}, alone'
               PROVE  /\ \A k \in Jobs : AtWork(k)' => began'[k] = Tree
                      /\ json'.paths \subseteq Current
                      /\ \/ json' = Whole(Current)
                         \/ \E k \in Jobs :
                               pc'[k] = "walk" \/ (pc'[k] = "print" /\ undisturbed'[k])
    BY <2>2, <2>4 DEF CurrentInv, Whole
  <2>5. CASE Start(j)
    <3>1. /\ pc[j] = "jsonize" /\ pc'[j] = "walk" /\ began'[j] = Tree
          /\ json' = Empty
      BY <1>1, <2>5 DEF Start, TypeInv
    <3>2. json'.paths \subseteq Current
      BY <3>1 DEF Empty
    <3>3. ASSUME NEW k \in Jobs, AtWork(k)' PROVE began'[k] = Tree
      <4>1. CASE k = j
        BY <3>1, <4>1
      <4>2. CASE k # j
        <5>1. AtWork(k) /\ began'[k] = began[k]
          BY <2>3, <3>3, <4>2 DEF AtWork
        <5>2. CASE j = Night
          <6>1. ~\E i \in ByHand : AtWork(i)
            BY <1>7, <3>1, <5>2 DEF RunJsonize
          <6>2. k \in ByHand
            BY <4>2, <5>2, JobsAssumption
          <6> QED BY <5>1, <6>1, <6>2
        <5>3. CASE j # Night
          <6>1. alone /\ pc[Night] \in {"walk", "print", "done"}
            BY <1>1, <1>7, <2>3, <5>3 DEF RunJsonize
          <6> QED BY <5>1, <6>1 DEF CurrentInv
        <5> QED BY <5>2, <5>3
      <4> QED BY <4>1, <4>2
    <3> QED BY <3>1, <3>2, <3>3
  <2>6. CASE ~Start(j)
    <3>1. alone /\ pc[Night] \in {"walk", "print", "done"} /\ began' = began
      <4>1. pc[j] # "jsonize" /\ began' = began
        BY <2>1, <2>6 DEF Jsonize, TestLeaf, OpenDir, ReadLeaf, ReadDir, ReadFile,
                      Return, StartPrint, EndPrint, Walking, Reading, treeVars
      <4>2. alone
        BY <1>7, <4>1 DEF RunJsonize
      <4> QED BY <1>1, <2>3, <2>4, <4>1, <4>2
    <3>2. /\ \A k \in Jobs : AtWork(k) => began[k] = Tree
          /\ json.paths \subseteq Current
          /\ \/ json = Whole(Current)
             \/ \E k \in Jobs : pc[k] = "walk" \/ (pc[k] = "print" /\ undisturbed[k])
      BY <3>1 DEF CurrentInv
    <3>3. CASE TestLeaf(j) \/ OpenDir(j) \/ ReadLeaf(j) \/ ReadDir(j) \/ Return(j)
      <4>1. UNCHANGED <<pc, json, undisturbed, began>>
        BY <3>3 DEF TestLeaf, OpenDir, ReadLeaf, ReadDir, Return
      <4> QED BY <3>2, <4>1 DEF AtWork
    <3>4. CASE ReadFile(j)
      <4>1. pc[j] = "walk"
        BY <3>4 DEF ReadFile, Reading, Walking
      <4>2. began[j].files = files /\ WalkInv(nodes[j], calls[j], began[j], dirs, files)
        BY <3>2, <4>1 DEF AtWork, Tree, TreeInv, JobInv
      <4> QED BY <3>4, <4>2, NoFailure
    <3>5. CASE StartPrint(j)
      <4>1. /\ pc[j] = "walk" /\ pc'[j] = "print" /\ undisturbed'[j] = TRUE /\ json' = json
        BY <1>1, <3>5 DEF StartPrint, TypeInv
      <4>2. \A k \in Jobs : AtWork(k)' => began'[k] = Tree
        BY <2>3, <3>1, <3>2, <4>1 DEF AtWork
      <4> QED BY <3>2, <4>1, <4>2
    <3>6. CASE EndPrint(j)
      <4>1. /\ pc[j] = "print" /\ pc'[j] = "done"
            /\ \/ json' = Whole(Text(j))
               \/ /\ json # Whole(Text(j)) /\ ~(undisturbed[j] /\ json.paths \subseteq Text(j))
                  /\ json' = [paths |-> json.paths \union Text(j), whole |-> FALSE]
            /\ undisturbed' = [k \in Jobs |->
                   undisturbed[k] /\ (pc[k] = "print" => Text(k) = Text(j))]
        BY <1>1, <3>6 DEF EndPrint, TypeInv
      <4>2. ASSUME NEW k \in Jobs, pc[k] = "print" PROVE Text(k) = Current
        BY <3>2, <4>2, TextIsCurrent DEF AtWork
      <4>3. Text(j) = Current
        BY <4>1, <4>2
      <4>4. \A k \in Jobs : AtWork(k)' => began'[k] = Tree
        BY <2>3, <3>1, <3>2, <4>1 DEF AtWork
      <4>5. CASE json' = Whole(Text(j))
        BY <4>3, <4>4, <4>5 DEF Whole
      <4>6. CASE json' # Whole(Text(j))
        <5>1. /\ json # Whole(Current) /\ ~undisturbed[j]
              /\ json'.paths = json.paths \union Current
          BY <3>2, <4>1, <4>3, <4>6
        <5>2. PICK k \in Jobs : pc[k] = "walk" \/ (pc[k] = "print" /\ undisturbed[k])
          BY <3>2, <5>1
        <5>3. k # j
          BY <4>1, <5>1, <5>2
        <5>4. pc'[k] = "walk" \/ (pc'[k] = "print" /\ undisturbed'[k])
          BY <2>3, <4>1, <4>2, <4>3, <5>2, <5>3
        <5> QED BY <3>2, <4>4, <5>1, <5>4
      <4> QED BY <4>5, <4>6
    <3> QED BY <2>1, <2>6, <3>3, <3>4, <3>5, <3>6 DEF Jsonize
  <2> QED BY <2>5, <2>6
<1> QED BY <1>2, <1>3, <1>4, <1>5, <1>6, <1>7 DEF Next

\* After the night results.json is whole and has all the results of the site,
\* however many jobs have written to it in turn or at the same time, unless one that
\* began before run.sh came to its own still ran then.
THEOREM NightIsPublished == Spec => []ResultsAreCurrent
<1>1. TreeInv /\ CurrentInv => ResultsAreCurrent
  <2> SUFFICES ASSUME TreeInv, CurrentInv, pc[Night] = "done", alone,
                      ~\E j \in ByHand : AtWork(j)
               PROVE  written \subseteq files /\ json = Whole(Current)
    BY DEF ResultsAreCurrent, Current
  <2>1. Copied
    BY DEF CurrentInv
  <2>2. \A j \in Jobs : ~AtWork(j)
    BY JobsAssumption DEF AtWork
  <2> QED BY <2>1, <2>2 DEF CurrentInv, Copied, AtWork
<1> QED BY <1>1, InitTree, NextTree, InitCurrent, NextCurrent, PTL DEF Spec
=============================================================================
