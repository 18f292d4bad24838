----------------------------- MODULE Directories -----------------------------
(***************************************************************************)
(* The directories BibakBOX keeps the same: what is at each path, and the  *)
(* changes the programs and the users make to it.                          *)
(***************************************************************************)
EXTENDS Naturals, Sequences, SequencesExt

CONSTANTS
  Paths,       (* The relative paths that may exist: sequences of names.     *)
  Data,        (* The contents users write into files.                       *)
  Kinds        (* For each path, the kinds of node a user makes there.       *)

Hosts == {"server", "client"}
Peer(h) == IF h = "server" THEN "client" ELSE "server"

(* File contents: what users write, the empty file, the text of the marker *)
(* that stands for an empty file on the wire, and the server's own log.    *)
FileData == Data \cup {"", "EMPTY_FILE", "log"}
Node == {"none", "dir"} \cup FileData
Kind(n) == IF n \in FileData THEN "file" ELSE n
Kinded == {"none", "dir", "file"}

ASSUME PathsAssumption ==
  /\ Paths \subseteq Seq(STRING)
  /\ \A p \in Paths : p # << >> /\ (Len(p) > 1 => Front(p) \in Paths)

ASSUME DataAssumption ==
  /\ Data \subseteq STRING \ {"none", "dir", "EMPTY_FILE", "log"}
  /\ Kinds \in [Paths -> SUBSET {"file", "dir"}]

(* The folder of p exists; a tree of kinds or a directory will do.         *)
InFolder(dk, p) == IF Len(p) = 1 THEN TRUE ELSE dk[Front(p)] = "dir"
WellFormed(dk) == \A p \in Paths : dk[p] # "none" => InFolder(dk, p)

(* remove_directory and unlink: p and everything below it.                 *)
RemoveTree(dk, p) == [q \in Paths |-> IF IsPrefix(p, q) THEN "none" ELSE dk[q]]

(* createReceiveFile on a folder: mkdir unless something is in the way.    *)
MakeFolder(dk, p) ==
  IF dk[p] = "none" /\ InFolder(dk, p) THEN [dk EXCEPT ![p] = "dir"] ELSE dk

(* createReceiveFile on a file: open(O_CREAT | O_TRUNC) and write.         *)
CanWrite(dk, p) == dk[p] # "dir" /\ InFolder(dk, p)
MakeFile(dk, p, c) == IF CanWrite(dk, p) THEN [dk EXCEPT ![p] = c] ELSE dk

(* What one change by a user makes of a directory: a file is written, a    *)
(* folder made, or whatever is there deleted.                              *)
UserFile(dk, p) ==
  IF "file" \in Kinds[p] /\ CanWrite(dk, p)
  THEN {[dk EXCEPT ![p] = c] : c \in Data} ELSE {}
UserFolder(dk, p) ==
  IF "dir" \in Kinds[p] /\ dk[p] = "none" /\ InFolder(dk, p)
  THEN {[dk EXCEPT ![p] = "dir"]} ELSE {}
UserDelete(dk, p) == IF dk[p] # "none" THEN {RemoveTree(dk, p)} ELSE {}
=============================================================================
