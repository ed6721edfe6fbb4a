------------------------------ MODULE MCNightly ------------------------------
(***************************************************************************)
(* Nightly on a small site: a day with five files, one more than the array *)
(* of a leaf has room for at first, and a directory beside them; and a     *)
(* night of one test.                                                      *)
(***************************************************************************)
EXTENDS Nightly

CONSTANTS f1, f2, f3, f4, f5

OldDay == <<"2015", "01">>
MCDay == <<"2015", "02">>
Soak == MCDay \o <<"soak">>

MCOldDirs == {<<>>, <<"2015">>, OldDay, OldDay \o <<"old">>}
MCOldFiles == {<<OldDay, f>> : f \in {f1, f2, f3, f4, f5}}
MCResults == {<<Soak, f>> : f \in {f1, f2}}
MCTestDirs == {Soak}

\* The names on this site.
MCName == {"2015", "01", "02", "soak", "old", f1, f2, f3, f4, f5}
=============================================================================
