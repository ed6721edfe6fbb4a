------------------------------- MODULE Nightly -------------------------------
(***************************************************************************)
(* run.sh, started every night by cron_run.sh: build, run the tests, copy  *)
(* their results to the web site, and make results.json of all results     *)
(* there.  jsonize.sh, which does only the last step, is started by hand   *)
(* at any time.                                                            *)
(***************************************************************************)
EXTENDS JsonizeTree

CONSTANTS Night,     \* the job that runs run.sh
          ByHand,    \* the jobs that run jsonize.sh
          OldDirs, OldFiles,  \* what is on the site at first
          Day,       \* the directory of this night's results
          TestDirs,  \* the directories the tests make in it
          Results    \* the files the tests may write: <<directory, name>>

ASSUME JobsAssumption == Jobs = ByHand \union {Night} /\ Night \notin ByHand
ASSUME TreeAssumption ==
    /\ <<>> \in OldDirs /\ OldDirs \subseteq Seq(Name)
    /\ \A d \in OldDirs \ {<<>>} : Parent(d) \in OldDirs
    /\ Day \in Seq(Name) /\ TestDirs \subseteq Seq(Name)
    /\ \A d \in TestDirs : Parent(d) \in TestDirs \union {Day}
    /\ OldFiles \subseteq OldDirs \X Name /\ Results \subseteq TestDirs \X Name

VARIABLES written,  \* the results in the working directory of run.sh
          alone     \* was no older jsonize_tree at work when run.sh started its own?

vars == <<dirs, files, pc, treeVars, written, alone>>

(* The paths of a tree. *)

Above(d) == {SubSeq(d, 1, n) : n \in 0..(Len(d) - 1)}

\* The directories of a tree that can be reached without passing a leaf of it, or
\* of another tree.
Walked(ds, fs) == {d \in ds : \A a \in Above(d) : ~\E f \in fs : f[1] = a}

\* The paths of those directories, and of the files fs in them.
Named(ds, fs) ==
    {<<"tests">> \o d : d \in ds} \union
    {<<"tests">> \o f[1] \o <<f[2]>> : f \in {g \in fs : g[1] \in ds}}

Init ==
    /\ dirs = OldDirs /\ files = OldFiles
    /\ pc = [j \in Jobs |-> IF j = Night THEN "rebuild" ELSE "jsonize"]
    /\ nodes = [j \in Jobs |-> <<>>] /\ calls = [j \in Jobs |-> <<>>]
    /\ began = [j \in Jobs |-> Tree] /\ undisturbed = [j \in Jobs |-> TRUE]
    /\ json = Whole(Named(Walked(OldDirs, OldFiles), OldFiles))
    /\ written = {} /\ alone = FALSE

Go(step) == pc' = [pc EXCEPT ![Night] = step]

\* libs/rebuild.sh, and m in apps/C and apps/CPP: a build that fails ends the night.
Build ==
    /\ \/ pc[Night] = "rebuild" /\ Go("C")
       \/ pc[Night] = "C" /\ Go("CPP")
       \/ pc[Night] = "CPP" /\ Go("tests")
       \/ pc[Night] \in {"rebuild", "C", "CPP"} /\ Go("exit")
    /\ UNCHANGED <<dirs, files, treeVars, written, alone>>

\* Nobody looks at the status of a test, so each may leave any part of its results.
RunTests ==
    /\ pc[Night] = "tests" /\ Go("mkdir")
    /\ \E w \in SUBSET Results : written' = w
    /\ UNCHANGED <<dirs, files, treeVars, alone>>

\* mkdir -p ${FINAL_DESTINATION}
MakeDay ==
    /\ pc[Night] = "mkdir" /\ Go("cp")
    /\ dirs' = dirs \union {SubSeq(Day, 1, n) : n \in 1..Len(Day)}
    /\ UNCHANGED <<files, treeVars, written, alone>>

\* cp -pr: one directory, or one file in a directory that is there, at a time.
Copy ==
    /\ pc[Night] = "cp"
    /\ \/ \E d \in TestDirs \ dirs :
             Parent(d) \in dirs /\ dirs' = dirs \union {d} /\ UNCHANGED files
       \/ \E f \in written \ files :
             f[1] \in dirs /\ files' = files \union {f} /\ UNCHANGED dirs
    /\ UNCHANGED <<pc, treeVars, written, alone>>

\* cp in the background.
BugCopied == Day \in dirs

Copied == TestDirs \subseteq dirs /\ written \subseteq files

CopyDone ==
    /\ pc[Night] = "cp" /\ Copied /\ Go("jsonize")
    /\ UNCHANGED <<dirs, files, treeVars, written, alone>>

AtWork(j) == pc[j] \in {"walk", "print"}

RunJsonize(j) ==
    /\ Jsonize(j)
    /\ alone' = IF j = Night /\ pc[j] = "jsonize" THEN ~\E k \in ByHand : AtWork(k) ELSE alone
    /\ UNCHANGED written

Finished == (\A j \in Jobs : pc[j] \in {"exit", "failed", "done"}) /\ UNCHANGED vars

Next ==
    \/ Build \/ RunTests \/ MakeDay \/ Copy \/ CopyDone
    \/ \E j \in Jobs : RunJsonize(j)
    \/ Finished

Spec == Init /\ [][Next]_vars
-----------------------------------------------------------------------------
\* No node holds more children than it has room for.
RoomForChildren ==
    \A j \in Jobs : \A n \in 1..Len(nodes[j]) :
        Cardinality(nodes[j][n].children) <= nodes[j][n].max

\* What jsonize_tree prints names every directory down to the leaves and every
\* file in the leaves, in their place, and nothing else.  What is copied while it
\* runs may be named or not, and what that hides may be left out.
JsonIsTheTree ==
    \A j \in Jobs : pc[j] \in {"print", "done"} =>
        /\ Named(Walked(began[j].dirs, files), began[j].files) \subseteq Text(j)
        /\ Text(j) \subseteq Named(Walked(dirs, began[j].files), files)

\* Once run.sh is over and nobody runs jsonize_tree, results.json is whole and
\* names all the results there are, with those of the night, however often
\* jsonize.sh was run: before, during or after.  Only a jsonize.sh that began
\* before run.sh started jsonize_tree and still ran then can undo its work.
ResultsAreCurrent ==
    pc[Night] = "done" /\ alone /\ (~\E j \in ByHand : AtWork(j)) =>
        /\ written \subseteq files
        /\ json = Whole(Named(Walked(dirs, files), files))

\* A message in jsonize_nonleaf (jsonize_tree.c:129) says of a plain file next to
\* directories: "Mick promised this would never happen."
PromiseKept == \A j \in Jobs : pc[j] # "failed"
=============================================================================
