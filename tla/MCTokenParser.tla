---------------------------- MODULE MCTokenParser ----------------------------
(* Small directories and all short contents for TLC.                        *)
EXTENDS TokenParser

P == << "/p" >>
D == << "/d" >>
DX == << "/d", "/x" >>
R == << "/r" >>
E == << "/e" >>
EY == << "/e", "/y" >>

KnownPaths == {P, D, DX}
NewPaths == {R, E, EY}
FolderPaths == {D, E}

(* All contents up to two symbols, and some that are longer, have a 0 or   *)
(* the text of a token.                                                    *)
UpTo(n) == UNION {[1 .. i -> {"a", Open, Close}] : i \in 0 .. n}
Special ==
  {<< "a", Open, "a" >>, << Nul >>, << "EMPTY_FILE" >>,
   << Open, "SYNC_DONE", Close, "a" >>, << "SYNC_FOLDER", Close >>,
   << "SYNC_DONE", Nul, Close >>,
   << "SYNC_DONE", Close, "SYNC_FILE", Close, "b", Close >>,
   << Open, "a", "a", "a", Close >>, << "a", Open, "a", "a" >>, << Open, "/r", Close >>}
SmallTexts == UpTo(2) \cup Special

OldDisk == Put(Put(Put([p \in {} |-> Folder], P, File(<< "a", "a", "a" >>)),
                   D, Folder), DX, File(<< "a" >>))

(* The receiver lacks a file and has made a folder where the sender has a  *)
(* new file, or has made new nodes like those of the sender.               *)
SmallDisks ==
  {Put(Without(OldDisk, P), R, Folder),
   Put(Put(Put(OldDisk, R, File(<< "a" >>)), E, Folder), << "b" >>, File(<< >>))}
=============================================================================
