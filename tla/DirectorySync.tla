---------------------------- MODULE DirectorySync ----------------------------
(***************************************************************************)
(* What a synchronisation round of BibakBOX amounts to, without its        *)
(* messages: two copies of a directory that users edit, and a merge that   *)
(* makes them one again. SyncMerge shows that the rounds implement it when *)
(* users edit only between rounds.                                         *)
(***************************************************************************)
EXTENDS Directories

VARIABLES
  dir,     (* dir[h][p]: what is at p in h's copy.                           *)
  base,    (* What both copies held when they were last the same.            *)
  dirty,   (* The paths written in the server's copy since.                  *)
  phase    (* "open": users edit; "merging": a round runs; "broken": the     *)
           (* client has ended.                                              *)

dvars == << dir, base, dirty, phase >>

(* A side has deleted something both had.                                  *)
DeletedBy(h, p) == base[p] # "none" /\ dir[h][p] = "none"

(* The server's change at p is one the client hears of: a node that is new *)
(* or a file that was written.                                             *)
ServerChanged(p) ==
  \/ base[p] = "none" /\ dir["server"][p] # "none"
  \/ p \in dirty /\ dir["server"][p] \in FileData

(* A deletion on either side takes everything below it along, then the     *)
(* server's changes win, then the client's.                                *)
Merged ==
  [p \in Paths |->
     IF \E q \in Paths, h \in Hosts : IsPrefix(q, p) /\ DeletedBy(h, q)
     THEN "none"
     ELSE IF ServerChanged(p) THEN dir["server"][p] ELSE dir["client"][p]]

(* The server wrote a file that the client deleted. The client then tries  *)
(* to open the file, and exits.                                            *)
Conflict ==
  \E p \in Paths : /\ base[p] # "none" /\ ServerChanged(p)
                   /\ dir["client"][p] = "none"

DInit ==
  /\ base \in [Paths -> Node] /\ WellFormed(base)
  /\ dir = [h \in Hosts |-> base]
  /\ dirty = {}
  /\ phase = "open"

Written(h, p) == dirty' = IF h = "server" THEN dirty \cup {p} ELSE dirty

DEdit(h, p) ==
  /\ phase = "open"
  /\ \/ \E dk \in UserFile(dir[h], p) \cup UserFolder(dir[h], p) :
          dir' = [dir EXCEPT ![h] = dk] /\ Written(h, p)
     \/ \E dk \in UserDelete(dir[h], p) :
          dir' = [dir EXCEPT ![h] = dk] /\ UNCHANGED dirty
  /\ UNCHANGED << base, phase >>

DStart ==
  /\ phase = "open" /\ phase' = "merging"
  /\ UNCHANGED << dir, base, dirty >>

DMerge ==
  /\ phase = "merging" /\ ~Conflict
  /\ phase' = "open"
  /\ base' = Merged
  /\ dir' = [h \in Hosts |-> Merged]
  /\ dirty' = {}

DBreak ==
  /\ phase = "merging" /\ Conflict
  /\ phase' = "broken"
  /\ UNCHANGED << dir, base, dirty >>

DNext ==
  \/ \E h \in Hosts, p \in Paths : DEdit(h, p)
  \/ DStart \/ DMerge \/ DBreak

DSpec == DInit /\ [][DNext]_dvars
=============================================================================
