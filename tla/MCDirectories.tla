---------------------------- MODULE MCDirectories ---------------------------
(* Small directories for TLC.                                               *)
EXTENDS Directories

(* A file at the top, a folder and a file in it.                           *)
NestedPaths == {<< "a" >>, << "d" >>, << "d", "f" >>}
(* A folder with two files.                                                *)
ForkPaths == {<< "d" >>, << "d", "f" >>, << "d", "g" >>}
FlatPaths == {<< "a" >>}
(* A folder, a file in it, and the name of the log.                        *)
LogPaths == {<< "d" >>, << "d", "f" >>, << "log.txt" >>}

(* A name is always a folder or always a file.                             *)
FixedKinds ==
  [p \in Paths |-> IF p = << "d" >> THEN {"dir"} ELSE {"file"}]
AnyKinds == [p \in Paths |-> {"file", "dir"}]
=============================================================================
