----------------------------- MODULE JsonizeTree -----------------------------
(***************************************************************************)
(* utils/mjson/jsonize_tree.c and the nodes of utils/mjson/mjson.c: the    *)
(* directory of results becomes results.json.  A directory with a plain    *)
(* file in it is a leaf and becomes an array of its file names; any other  *)
(* becomes an object with a member for each directory in it.               *)
(*                                                                         *)
(* The recursion of jsonize_dir is the stack of calls.  readdir gives the  *)
(* entries in any order.  The tree may grow meanwhile, and another job may *)
(* run jsonize_tree for the same results.json.                             *)
(***************************************************************************)
EXTENDS Integers, FiniteSets, Sequences

CONSTANTS Jobs,  \* the scripts that run jsonize_tree, once each
          Name   \* the names of directories and files

VARIABLES dirs,   \* the directories there are: sequences of names below the target
          files,  \* the files there are: <<directory, name>>
          nodes,  \* the nodes of mjson, by their address, for each job
          calls,  \* the calls of jsonize_dir that have not returned, for each job
          pc,     \* where each job is; here "jsonize", "walk", "print", "failed", "done"
          began,  \* the tree each job found when it started jsonize_tree
          undisturbed,  \* has nobody cut or mixed what the job prints?
          json    \* results.json: the paths written to it, and whether it is whole

treeVars == <<nodes, calls, began, undisturbed, json>>

Tree == [dirs |-> dirs, files |-> files]

Names(d) == {f[2] : f \in {g \in files : g[1] = d}}
Parent(d) == SubSeq(d, 1, Len(d) - 1)
Subdirs(d) == {e \in dirs : e # <<>> /\ Parent(e) = d}
Label(d) == IF d = <<>> THEN "tests" ELSE d[Len(d)]

(* Nodes: an object has nodes for children, an array has names.  Their order is
   that of readdir, which may be any, so they are sets. *)

Node(type, label, max) == [type |-> type, label |-> label, max |-> max, children |-> {}]

\* Definitions named Bug... are faulty variants of the definition that follows.

\* > for >=.
BugFull(node) == Cardinality(node.children) > node.max

Full(node) == Cardinality(node.children) >= node.max

\* _expand_child_space
Expanded(node) ==
    IF node.max = 0 THEN [node EXCEPT !.max = 1] ELSE [node EXCEPT !.max = 2 * @]

\* _add_child
AddChild(node, child) ==
    LET roomy == IF Full(node) THEN Expanded(node) ELSE node
    IN  [roomy EXCEPT !.children = @ \union {child}]

\* mjson_add_labeled_object and mjson_add_labeled_array: the new node is the
\* last one.
AddLabeled(tree, parent, type, label, max) ==
    Append([tree EXCEPT ![parent] = AddChild(@, Len(tree) + 1)],
           Node(type, label, max))

(* The walk. *)

\* A call starts with the test of leaf_node.
Call(d, parent) == [dir |-> d, parent |-> parent, step |-> "test", node |-> 0,
                    listed |-> {}, seen |-> {}]

Walking(j) == pc[j] = "walk" /\ calls[j] # <<>>
Top(j) == calls[j][Len(calls[j])]
WithTop(j, c) == [calls[j] EXCEPT ![Len(calls[j])] = c]
Reading(j, step) == Walking(j) /\ Top(j).step = step /\ Top(j).node # 0
See(j, entry) == WithTop(j, [Top(j) EXCEPT !.seen = @ \union {entry}])

Empty == [paths |-> {}, whole |-> FALSE]
Whole(text) == [paths |-> text, whole |-> TRUE]

\* The redirection empties results.json before main looks at the directory.
Start(j) ==
    /\ pc[j] = "jsonize"
    /\ pc' = [pc EXCEPT ![j] = "walk"]
    /\ json' = Empty /\ undisturbed' = [k \in Jobs |-> k = j]
    /\ began' = [began EXCEPT ![j] = Tree]
    /\ nodes' = [nodes EXCEPT ![j] = <<Node("object", "", 1)>>]
    /\ calls' = [calls EXCEPT ![j] = <<Call(<<>>, 1)>>]
    /\ UNCHANGED <<dirs, files>>

\* The test opens the directory, looks for a plain file, and closes it again.
LeafNode(d) == Names(d) # {}

TestLeaf(j) ==
    /\ Walking(j) /\ Top(j).step = "test"
    /\ calls' = [calls EXCEPT ![j] = WithTop(j, [Top(j) EXCEPT
           !.step = IF LeafNode(Top(j).dir) THEN "leaf" ELSE "nonleaf"])]
    /\ UNCHANGED <<dirs, files, pc, nodes, began, undisturbed, json>>

\* The second opendir, and the node for the directory.
OpenDir(j) ==
    /\ Walking(j) /\ Top(j).step # "test" /\ Top(j).node = 0
    /\ LET d == Top(j).dir
           Add(type, max) == AddLabeled(nodes[j], Top(j).parent, type, Label(d), max)
       IN  /\ nodes' = [nodes EXCEPT ![j] = IF Top(j).step = "leaf"
                                            THEN Add("array", 4) ELSE Add("object", 1)]
           /\ calls' = [calls EXCEPT ![j] = WithTop(j, [Top(j) EXCEPT
                  !.node = Len(nodes[j]) + 1,
                  !.listed = Names(d) \union (IF Top(j).step = "leaf" THEN {} ELSE Subdirs(d))])]
    /\ UNCHANGED <<dirs, files, pc, began, undisturbed, json>>

\* readdir in a leaf: directories are left out, with a warning.
ReadLeaf(j) ==
    /\ Reading(j, "leaf")
    /\ \E n \in Names(Top(j).dir) \ Top(j).seen :
          /\ nodes' = [nodes EXCEPT ![j][Top(j).node] = AddChild(@, n)]
          /\ calls' = [calls EXCEPT ![j] = See(j, n)]
    /\ UNCHANGED <<dirs, files, pc, began, undisturbed, json>>

\* jsonize_dir ( parent_node, fullname )
BugReadDir(j) ==
    /\ Reading(j, "nonleaf")
    /\ \E d \in Subdirs(Top(j).dir) \ Top(j).seen :
          calls' = [calls EXCEPT ![j] = Append(See(j, d), Call(d, Top(j).parent))]
    /\ UNCHANGED <<dirs, files, pc, nodes, began, undisturbed, json>>

\* readdir elsewhere: jsonize_dir for a directory.
ReadDir(j) ==
    /\ Reading(j, "nonleaf")
    /\ \E d \in Subdirs(Top(j).dir) \ Top(j).seen :
          calls' = [calls EXCEPT ![j] = Append(See(j, d), Call(d, Top(j).node))]
    /\ UNCHANGED <<dirs, files, pc, nodes, began, undisturbed, json>>

\* "Mick promised this would never happen": a file that was not there for the
\* test ends the program, and nothing has been printed yet.
ReadFile(j) ==
    /\ Reading(j, "nonleaf") /\ Names(Top(j).dir) # {}
    /\ pc' = [pc EXCEPT ![j] = "failed"]
    /\ UNCHANGED <<dirs, files, treeVars>>

\* readdir gives what was there at opendir; what came later it may leave out.
Return(j) ==
    /\ \E step \in {"leaf", "nonleaf"} : Reading(j, step)
    /\ Top(j).listed \subseteq Top(j).seen
    /\ calls' = [calls EXCEPT ![j] = SubSeq(@, 1, Len(@) - 1)]
    /\ UNCHANGED <<dirs, files, pc, nodes, began, undisturbed, json>>

\* mjson_print: the paths from node n on.
Paths(tree, n) ==
    LET below[m \in 1..Len(tree)] ==
            IF tree[m].type = "array" THEN {<<c>> : c \in tree[m].children}
            ELSE UNION {{<<tree[c].label>> \o p : p \in below[c] \union {<<>>}} :
                        c \in tree[m].children}
    IN  below[n]

\* The text leaves the buffer of stdout piece by piece, from here ...
StartPrint(j) ==
    /\ pc[j] = "walk" /\ calls[j] = <<>>
    /\ pc' = [pc EXCEPT ![j] = "print"]
    /\ undisturbed' = [undisturbed EXCEPT ![j] = TRUE]
    /\ UNCHANGED <<dirs, files, nodes, calls, began, json>>

Text(j) == Paths(nodes[j], 1)

\* ... to here, each job at its own offset.  Another text that is written or cut
\* meanwhile is mixed with this one, and of a longer text the end stays behind;
\* the same text changes nothing.
EndPrint(j) ==
    /\ pc[j] = "print"
    /\ pc' = [pc EXCEPT ![j] = "done"]
    /\ \/ json' = Whole(Text(j))
       \/ /\ json # Whole(Text(j)) /\ ~(undisturbed[j] /\ json.paths \subseteq Text(j))
          /\ json' = [paths |-> json.paths \union Text(j), whole |-> FALSE]
    /\ undisturbed' = [k \in Jobs |->
           undisturbed[k] /\ (pc[k] = "print" => Text(k) = Text(j))]
    /\ UNCHANGED <<dirs, files, nodes, calls, began>>

Jsonize(j) ==
    \/ Start(j)
    \/ TestLeaf(j) \/ OpenDir(j) \/ ReadLeaf(j) \/ ReadDir(j) \/ ReadFile(j) \/ Return(j)
    \/ StartPrint(j) \/ EndPrint(j)
=============================================================================
