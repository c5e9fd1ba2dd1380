------------------------------ MODULE SessionMC ------------------------------
(* Session with nested folders and documents in each of them.               *)
EXTENDS Session, TLC

Project == <<1>>
Package == <<1, 2>>

(* A folder inside another one, and one that is no file. *)
NestedFolders == {Project, Package, NotAFile}

(* A document of each folder. *)
NestedUrls == {<<1, 1>>, <<1, 2, 1>>}

(* And one that is no file. *)
UntitledUrls == NestedUrls \cup {NotAFile}

TextsAndTasks == Permutations(Texts) \cup Permutations(Tasks)
=============================================================================
