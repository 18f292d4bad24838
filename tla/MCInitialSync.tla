---------------------------- MODULE MCInitialSync ---------------------------
(* Small directories for TLC. Blocks of 2 and 4 stand for 512 and 2048.     *)
EXTENDS InitialSync

Path(n) == << [name |-> n, times |-> << >>] >>
F == Path("f")
D == Path("d")
DF == D \o F
NoFiles == << >>
Of(h, n) == File([i \in 1 .. n |-> h])
AtOnly(p, n) == Put(NoFiles, p, n)

Both(a, b) == [p \in DOMAIN a \cup DOMAIN b |-> IF p \in DOMAIN a THEN a[p] ELSE b[p]]

(* The server has nothing, or a folder where the clients have a file, or a  *)
(* file of one block of the provider there and one where the first client   *)
(* has empty folders or a folder with a binary file. The first client's     *)
(* other file fills a block of the fetcher, ends in the text of the marker, *)
(* ends within a block, or ends early, with text or zeros after that. The   *)
(* second client has an empty file.                                         *)
ServerDirs == {NoFiles, AtOnly(F, Folder),
               Both(AtOnly(F, Of(Server, 4)), AtOnly(D, Of(Server, 1)))}
ClientDirs ==
  {AtOnly(F, Of("c1", 2)),
   Both(AtOnly(F, File(<< "c1", "c1", Marker >>)),
        Put(AtOnly(D, Folder), DF, Folder)),
   Both(AtOnly(F, Of("c1", 5)),
        Put(AtOnly(D, Folder), DF, File(<< Nul >>))),
   AtOnly(F, File(<< "c1", Nul, "c1" >>)),
   AtOnly(F, File(<< "c1", Nul, Nul >>))}

SmallDisks ==
  {[h \in Hosts |-> IF h = Server THEN s ELSE IF h = "c1" THEN a
                                             ELSE AtOnly(F, Of("c2", 0))] :
     << s, a >> \in {o \in ServerDirs \X ClientDirs : Exists(o[1], D) => Exists(o[2], D)}}
=============================================================================
