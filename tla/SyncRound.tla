------------------------------ MODULE SyncRound ------------------------------
(***************************************************************************)
(* The synchronisation rounds of BibakBOX: one client process and the      *)
(* server thread that serves it, after the initial synchronisation.        *)
(*                                                                         *)
(* A round: the server sleeps, walks its directory and sends what changed  *)
(* since the tree it remembers (updates, then deletions, then creations),  *)
(* the client applies it, walks its own directory the same way and sends   *)
(* its differences back, the server applies them and rebuilds its tree.    *)
(* Users edit both directories meanwhile.                                  *)
(*                                                                         *)
(* Both hosts run the same walk (the code has it twice, in                 *)
(* syncCheckSendServer.c and syncCheckSendCommon.c) and the same receiver  *)
(* (syncCheckReceive.c), so the actions take the host as a parameter.      *)
(***************************************************************************)
EXTENDS Directories

CONSTANTS
  LogName,     (* The name of the server's log file ("log.txt").             *)
  Fetched,     (* The paths the client may have just fetched, at the start.  *)
  Editors,     (* The hosts whose users edit.                                *)
  AnyTime,     (* TRUE: users edit at any time; FALSE: only in the 10 s nap. *)
  SameSecond,  (* TRUE: an edit may keep the mtime (one-second clock).       *)
  MaxEdits,    (* Bound: how many edits the users make.                      *)
  ChanCap      (* Bound: messages a socket holds before write() blocks.      *)

ASSUME ParameterAssumption ==
  /\ Fetched \subseteq Paths
  /\ Editors \subseteq Hosts
  /\ AnyTime \in BOOLEAN /\ SameSecond \in BOOLEAN
  /\ MaxEdits \in Nat /\ ChanCap \in Nat \ {0}

VARIABLES
  disk,   (* disk[h][p]: what is at p in h's directory.                      *)
  tree,   (* tree[h][p]: the node kinds in the FileNode tree h remembers.    *)
  new,    (* new[h][p]: the tree h's running walk is building (newRoot).     *)
  stale,  (* stale[h]: paths whose mtime differs from the remembered one.    *)
  todo,   (* todo[h]: paths the current walk has not come to.                *)
  chan,   (* chan[h]: the messages on their way to h.                        *)
  mode,   (* mode[h]: which receive loop of syncCheckReceive.c h is in.      *)
  pc,     (* pc[h]: where the process is in its round.                       *)
  edits   (* How many edits users have made.                                 *)

vars == << disk, tree, new, stale, todo, chan, mode, pc, edits >>

-----------------------------------------------------------------------------
(* Trees and disks.                                                        *)

NoTree == [p \in Paths |-> "none"]

(* The walks leave log.txt out, at any depth.                              *)
Hidden(p) == \E i \in DOMAIN p : p[i] = LogName

(* buildTree: the tree of what is on the disk.                             *)
TreeOf(dk) == [p \in Paths |-> IF Hidden(p) THEN "none" ELSE Kind(dk[p])]

(* Mutant: the token that ends an update is copied into the file with it.  *)
UpdateTextWithToken(c) == "{SYNC_DONE}"

(* readSocketWriteFile: what an update writes. The marker the sender puts  *)
(* on the wire for an empty file is copied into the file.                  *)
UpdateText(c) == IF c = "" THEN "EMPTY_FILE" ELSE c

-----------------------------------------------------------------------------
(* Messages: {SYNC_FILE}{path}content{SYNC_DONE} is one message, so are    *)
(* {SYNC_FOLDER}{path}{SYNC_DONE}, a {path} in a deletion list, and each   *)
(* bare {TOKEN}.                                                           *)

Tokens == {"SYNC_UPDATE_DONE", "SYNC_DELETE", "SYNC_DELETE_DONE",
           "SYNC_CREATE", "SYNC_CREATE_DONE", "DONE_CONTROL"}
NodeTypes == {"SYNC_FILE", "SYNC_FOLDER", "PATH"}
Message == [t : Tokens, p : {<< >>}, c : {""}]
             \cup [t : NodeTypes, p : Paths, c : FileData]

Token(t) == [t |-> t, p |-> << >>, c |-> ""]
FileMsg(p, c) == [t |-> "SYNC_FILE", p |-> p, c |-> c]
FolderMsg(p) == [t |-> "SYNC_FOLDER", p |-> p, c |-> ""]
PathMsg(p) == [t |-> "PATH", p |-> p, c |-> ""]

(* write() on the socket; it blocks while the socket is full.              *)
Send(h, m) ==
  /\ Len(chan[Peer(h)]) < ChanCap
  /\ chan' = [chan EXCEPT ![Peer(h)] = Append(@, m)]

Goto(h, l) == pc' = [pc EXCEPT ![h] = l]

Sending == {"scan", "startDelete", "delete", "startCreate", "create",
            "finish", "again"}
Labels == Sending \cup {"recv", "rebuild", "wait", "sleep", "spin", "exited"}

-----------------------------------------------------------------------------
(* The walk. Directories come before what they hold; the order of readdir  *)
(* is arbitrary.                                                           *)

InWalk(h, p) == p \in todo[h] /\ Front(p) \notin todo[h]
Walked(h, p) == todo' = [todo EXCEPT ![h] = @ \ {p}]

(* readdir returned p and stat succeeded.                                  *)
Seen(h, p) ==
  /\ disk[h][p] # "none"
  /\ InFolder(new[h], p)
  /\ ~(h = "server" /\ Hidden(p))

(* Mutant: a new file counts as a modified one.                            *)
ChangedOrNew(h, p) == p \in stale[h] /\ Kind(disk[h][p]) = "file"

(* The old tree has p with another mtime and p is a file now.              *)
Changed(h, p) ==
  tree[h][p] # "none" /\ p \in stale[h] /\ Kind(disk[h][p]) = "file"

(* buildTreeForCheckAndSendUpdates, one directory entry. p enters the new  *)
(* tree with its mtime of now.                                             *)
Record(h, p) ==
  /\ new' = [new EXCEPT ![h][p] = Kind(disk[h][p])]
  /\ stale' = [stale EXCEPT ![h] = @ \ {p}]
  /\ Walked(h, p)

Visit(h, p) ==
  /\ pc[h] = "scan" /\ InWalk(h, p)
  /\ Seen(h, p) /\ ~Changed(h, p)
  /\ Record(h, p)
  /\ UNCHANGED << disk, tree, chan, mode, pc, edits >>

(* updateNode: p was modified, send its content.                           *)
SendUpdate(h, p) ==
  /\ pc[h] = "scan" /\ InWalk(h, p)
  /\ Seen(h, p) /\ Changed(h, p)
  /\ Record(h, p)
  /\ Send(h, FileMsg(p, disk[h][p]))
  /\ UNCHANGED << disk, tree, mode, pc, edits >>

(* readdir does not return p: it is not there when its folder is read.     *)
Miss(h, p) ==
  /\ pc[h] = "scan" /\ InWalk(h, p)
  /\ ~Seen(h, p)
  /\ Walked(h, p)
  /\ UNCHANGED << disk, tree, new, stale, chan, mode, pc, edits >>

(* Mutant: the nodes below the top of the tree are not looked at.          *)
DeletedAtTop(h) ==
  {p \in Paths : Len(p) = 1 /\ tree[h][p] # "none" /\ new[h][p] = "none"}

(* Nodes of the old tree the walk did not flag, and new nodes with no old  *)
(* one of that name.                                                       *)
Deleted(h) == {p \in Paths : tree[h][p] # "none" /\ new[h][p] = "none"}
Created(h) == {p \in Paths : tree[h][p] = "none" /\ new[h][p] # "none"}

(* Mutant: {DONE_CONTROL} is sent too early.                               *)
UpdatesDoneEarly(h) ==
  /\ pc[h] = "scan" /\ todo[h] = {}
  /\ Send(h, Token("DONE_CONTROL"))
  /\ Goto(h, "startDelete")
  /\ UNCHANGED << disk, tree, new, stale, todo, mode, edits >>

(* The walk is over: {SYNC_UPDATE_DONE}.                                   *)
UpdatesDone(h) ==
  /\ pc[h] = "scan" /\ todo[h] = {}
  /\ Send(h, Token("SYNC_UPDATE_DONE"))
  /\ Goto(h, "startDelete")
  /\ UNCHANGED << disk, tree, new, stale, todo, mode, edits >>

StartDeletes(h) ==
  /\ pc[h] = "startDelete"
  /\ Send(h, Token("SYNC_DELETE"))
  /\ todo' = [todo EXCEPT ![h] = Deleted(h)]
  /\ Goto(h, "delete")
  /\ UNCHANGED << disk, tree, new, stale, mode, edits >>

(* sendDeletedFilesAndFree: one node whose flag is 0.                      *)
SendDelete(h, p) ==
  /\ pc[h] = "delete" /\ InWalk(h, p)
  /\ Send(h, PathMsg(p))
  /\ Walked(h, p)
  /\ UNCHANGED << disk, tree, new, stale, mode, pc, edits >>

DeletesDone(h) ==
  /\ pc[h] = "delete" /\ todo[h] = {}
  /\ Send(h, Token("SYNC_DELETE_DONE"))
  /\ Goto(h, "startCreate")
  /\ UNCHANGED << disk, tree, new, stale, todo, mode, edits >>

StartCreates(h) ==
  /\ pc[h] = "startCreate"
  /\ Send(h, Token("SYNC_CREATE"))
  /\ todo' = [todo EXCEPT ![h] = Created(h)]
  /\ Goto(h, "create")
  /\ UNCHANGED << disk, tree, new, stale, mode, edits >>

(* What updateNode sends for a node that was a file when it was scanned:   *)
(* its content now; nothing between the tokens when it cannot be opened.   *)
ContentNow(h, p) == IF disk[h][p] \in FileData THEN disk[h][p] ELSE ""

(* sendCreateFiles: one node whose flag is 1.                              *)
SendCreate(h, p) ==
  /\ pc[h] = "create" /\ InWalk(h, p)
  /\ Send(h, IF new[h][p] = "dir" THEN FolderMsg(p)
                                  ELSE FileMsg(p, ContentNow(h, p)))
  /\ Walked(h, p)
  /\ UNCHANGED << disk, tree, new, stale, mode, pc, edits >>

(* {SYNC_CREATE_DONE}, and the new tree becomes the remembered one.        *)
CreatesDone(h) ==
  /\ pc[h] = "create" /\ todo[h] = {}
  /\ Send(h, Token("SYNC_CREATE_DONE"))
  /\ tree' = [tree EXCEPT ![h] = new[h]]
  /\ new' = [new EXCEPT ![h] = NoTree]
  /\ Goto(h, "finish")
  /\ UNCHANGED << disk, stale, todo, mode, edits >>

(* Mutant: the client does not ask for the next round.                     *)
FinishSilently(h) ==
  /\ pc[h] = "finish"
  /\ Send(h, Token("DONE_CONTROL"))
  /\ Goto(h, "recv")
  /\ UNCHANGED << disk, tree, new, stale, todo, mode, edits >>

(* {DONE_CONTROL} ends the peer's receive loop; the client's second one    *)
(* asks the server for the next round.                                     *)
Finish(h) ==
  /\ pc[h] = "finish"
  /\ Send(h, Token("DONE_CONTROL"))
  /\ Goto(h, IF h = "server" THEN "recv" ELSE "again")
  /\ UNCHANGED << disk, tree, new, stale, todo, mode, edits >>

AskAgain(h) ==
  /\ pc[h] = "again"
  /\ Send(h, Token("DONE_CONTROL"))
  /\ Goto(h, "recv")
  /\ UNCHANGED << disk, tree, new, stale, todo, mode, edits >>

-----------------------------------------------------------------------------
(* The receiver: syncCheckReceive and the loops it calls.                  *)

Incoming(h) == pc[h] = "recv" /\ chan[h] # << >>
Msg(h) == Head(chan[h])
Consume(h) == chan' = [chan EXCEPT ![h] = Tail(@)]

(* Mutant: one of the tokens is not known.                                 *)
TopModeForgets(m, t) ==
  CASE m = "jammed" -> "jammed"
    [] t = "SYNC_DELETE" -> "delete"
    [] t = "SYNC_CREATE" -> "create"
    [] t \in {"SYNC_DELETE_DONE", "SYNC_CREATE_DONE"} -> "top"
    [] OTHER -> "jammed"

(* What a bare token does to syncCheckReceive. A token it does not know    *)
(* leaves its text in the buffer, and nothing matches any more.            *)
TopMode(m, t) ==
  CASE m = "jammed" -> "jammed"
    [] t = "SYNC_DELETE" -> "delete"
    [] t = "SYNC_CREATE" -> "create"
    [] t \in {"SYNC_UPDATE_DONE", "SYNC_DELETE_DONE", "SYNC_CREATE_DONE"} -> "top"
    [] OTHER -> "jammed"

TopCase(h, t) == Incoming(h) /\ mode[h] = "top" /\ Msg(h).t = t

(* syncReceiveFile: open, truncate, copy until {SYNC_DONE}.                *)
RecvUpdate(h) ==
  /\ TopCase(h, "SYNC_FILE")
  /\ disk[h][Msg(h).p] \in FileData
  /\ disk' = [disk EXCEPT ![h][Msg(h).p] = UpdateText(Msg(h).c)]
  /\ stale' = [stale EXCEPT ![h] = @ \cup {Msg(h).p}]
  /\ Consume(h)
  /\ UNCHANGED << tree, new, todo, mode, pc, edits >>

(* syncReceiveFile: open(O_RDWR) fails, exit(EXIT_FAILURE).                *)
RecvUpdateFails(h) ==
  /\ TopCase(h, "SYNC_FILE")
  /\ disk[h][Msg(h).p] \notin FileData
  /\ Goto(h, "exited")
  /\ Consume(h)
  /\ UNCHANGED << disk, tree, new, stale, todo, mode, edits >>

RecvToken(h) ==
  /\ Incoming(h) /\ mode[h] \in {"top", "jammed"}
  /\ ~TopCase(h, "SYNC_FILE") /\ ~TopCase(h, "DONE_CONTROL")
  /\ mode' = [mode EXCEPT ![h] = TopMode(@, Msg(h).t)]
  /\ Consume(h)
  /\ UNCHANGED << disk, tree, new, stale, todo, pc, edits >>

(* deleteReceiveFile: whatever is at the path goes; no such path, nothing. *)
RecvDelete(h) ==
  /\ Incoming(h) /\ mode[h] = "delete" /\ Msg(h).t # "SYNC_DELETE_DONE"
  /\ disk' = [disk EXCEPT ![h] =
                IF Msg(h).p \in Paths THEN RemoveTree(@, Msg(h).p) ELSE @]
  /\ Consume(h)
  /\ UNCHANGED << tree, new, stale, todo, mode, pc, edits >>

(* createReceiveFile: folders are made, files created or overwritten.      *)
RecvCreate(h) ==
  /\ Incoming(h) /\ mode[h] = "create" /\ Msg(h).t # "SYNC_CREATE_DONE"
  /\ LET p == Msg(h).p
         dk == disk[h]
     IN  /\ disk' = [disk EXCEPT ![h] =
                       CASE Msg(h).t = "SYNC_FOLDER" -> MakeFolder(dk, p)
                         [] Msg(h).t = "SYNC_FILE" -> MakeFile(dk, p, Msg(h).c)
                         [] OTHER -> dk]
         /\ stale' = [stale EXCEPT ![h] =
                       IF Msg(h).t = "SYNC_FILE" /\ CanWrite(dk, p)
                       THEN @ \cup {p} ELSE @]
  /\ Consume(h)
  /\ UNCHANGED << tree, new, todo, mode, pc, edits >>

(* The token that ends a deletion or creation list.                        *)
RecvListEnd(h) ==
  /\ Incoming(h)
  /\ << mode[h], Msg(h).t >> \in {<< "delete", "SYNC_DELETE_DONE" >>,
                                  << "create", "SYNC_CREATE_DONE" >>}
  /\ mode' = [mode EXCEPT ![h] = "top"]
  /\ Consume(h)
  /\ UNCHANGED << disk, tree, new, stale, todo, pc, edits >>

(* The receive loop is over: the server rebuilds its tree, the client      *)
(* walks its directory (against the tree it copied before receiving).      *)
AfterReceive(h) ==
  /\ Goto(h, IF h = "server" THEN "rebuild" ELSE "scan")
  /\ todo' = [todo EXCEPT ![h] = IF h = "server" THEN @ ELSE Paths]

RecvDone(h) ==
  /\ TopCase(h, "DONE_CONTROL")
  /\ AfterReceive(h)
  /\ Consume(h)
  /\ UNCHANGED << disk, tree, new, stale, mode, edits >>

(* read() returns 0 or an error: every loop ends as if it were done.       *)
RecvEOF(h) ==
  /\ pc[h] = "recv" /\ chan[h] = << >> /\ pc[Peer(h)] = "exited"
  /\ AfterReceive(h)
  /\ mode' = [mode EXCEPT ![h] = "top"]
  /\ UNCHANGED << disk, tree, new, stale, chan, edits >>

(* No handler for SIGPIPE: writing to a peer that is gone ends the process.*)
BrokenPipe(h) ==
  /\ pc[h] \in Sending /\ pc[Peer(h)] = "exited"
  /\ Goto(h, "exited")
  /\ UNCHANGED << disk, tree, new, stale, todo, chan, mode, edits >>

-----------------------------------------------------------------------------
(* The server thread between rounds.                                       *)

(* Mutant: the tree of the walk is kept, without what the client sent.     *)
RebuildNothing ==
  /\ pc["server"] = "rebuild"
  /\ stale' = [stale EXCEPT !["server"] = {}]
  /\ Goto("server", "wait")
  /\ UNCHANGED << disk, tree, new, todo, chan, mode, edits >>

(* handleCase, after the receive: buildTree replaces the tree.             *)
Rebuild ==
  /\ pc["server"] = "rebuild"
  /\ tree' = [tree EXCEPT !["server"] = TreeOf(disk["server"])]
  /\ stale' = [stale EXCEPT !["server"] = {}]
  /\ Goto("server", "wait")
  /\ UNCHANGED << disk, new, todo, chan, mode, edits >>

(* handleRequest: {DONE_CONTROL} starts a round, handleCase ignores what   *)
(* it does not know.                                                       *)
HandleRequest ==
  /\ pc["server"] = "wait" /\ chan["server"] # << >>
  /\ Goto("server", IF Msg("server").t = "DONE_CONTROL" THEN "sleep" ELSE "wait")
  /\ Consume("server")
  /\ UNCHANGED << disk, tree, new, stale, todo, mode, edits >>

(* handleRequest at end of file: read() returns 0, the last character is   *)
(* looked at again, for ever.                                              *)
SpinAtEOF ==
  /\ pc["server"] = "wait" /\ chan["server"] = << >> /\ pc["client"] = "exited"
  /\ Goto("server", "spin")
  /\ UNCHANGED << disk, tree, new, stale, todo, chan, mode, edits >>

(* sleep(10) is over: syncCheckServer starts.                              *)
Wake ==
  /\ pc["server"] = "sleep"
  /\ Goto("server", "scan")
  /\ todo' = [todo EXCEPT !["server"] = Paths]
  /\ UNCHANGED << disk, tree, new, stale, chan, mode, edits >>

-----------------------------------------------------------------------------
(* Users: write a file, make a folder, delete whatever is there.           *)

MayEdit(h, p) ==
  /\ h \in Editors /\ edits < MaxEdits
  /\ pc[h] # "exited"
  /\ AnyTime \/ pc["server"] = "sleep"
  /\ ~(h = "server" /\ Hidden(p))

(* An edit changes the mtime, unless the clock of the remembered one has   *)
(* not ticked yet.                                                         *)
Touch(h, p) ==
  \E kept \in {FALSE, SameSecond} :
    stale' = [stale EXCEPT ![h] = IF kept THEN @ ELSE @ \cup {p}]

EditFile(h, p) ==
  /\ MayEdit(h, p)
  /\ \E dk \in UserFile(disk[h], p) : disk' = [disk EXCEPT ![h] = dk]
  /\ Touch(h, p)
  /\ edits' = edits + 1
  /\ UNCHANGED << tree, new, todo, chan, mode, pc >>

EditFolder(h, p) ==
  /\ MayEdit(h, p)
  /\ \E dk \in UserFolder(disk[h], p) : disk' = [disk EXCEPT ![h] = dk]
  /\ Touch(h, p)
  /\ edits' = edits + 1
  /\ UNCHANGED << tree, new, todo, chan, mode, pc >>

EditDelete(h, p) ==
  /\ MayEdit(h, p)
  /\ \E dk \in UserDelete(disk[h], p) : disk' = [disk EXCEPT ![h] = dk]
  /\ edits' = edits + 1
  /\ UNCHANGED << tree, new, stale, todo, chan, mode, pc >>

-----------------------------------------------------------------------------
(* After the initial synchronisation both directories hold the same and    *)
(* the client has sent the first {DONE_CONTROL}. The server remembers all  *)
(* of it, the client only what it had before it fetched the server's files *)
(* (its tree is built before the exchange and not rebuilt).                *)
Init ==
  /\ \E dk \in [Paths -> {"none", "dir"} \cup Data] :
       /\ WellFormed(dk)
       /\ \A p \in Paths : IF Hidden(p) THEN dk[p] = "none"
                           ELSE dk[p] = "none" \/ Kind(dk[p]) \in Kinds[p]
       /\ disk = [server |-> [p \in Paths |-> IF p = << LogName >> THEN "log"
                                                                   ELSE dk[p]],
                  client |-> dk]
       /\ \E had \in SUBSET {p \in Paths : dk[p] # "none"} :
            /\ \A p \in Paths \ Fetched : dk[p] # "none" => p \in had
            /\ \A p \in had : IF Len(p) = 1 THEN TRUE ELSE Front(p) \in had
            /\ tree = [server |-> TreeOf(dk),
                       client |-> [p \in Paths |-> IF p \in had THEN Kind(dk[p])
                                                                ELSE "none"]]
  /\ new = [h \in Hosts |-> NoTree]
  /\ stale = [h \in Hosts |-> {}]
  /\ todo = [h \in Hosts |-> {}]
  /\ chan = [server |-> << Token("DONE_CONTROL") >>, client |-> << >>]
  /\ mode = [h \in Hosts |-> "top"]
  /\ pc = [server |-> "wait", client |-> "recv"]
  /\ edits = 0

Walk(h) ==
  \/ \E p \in Paths : \/ Visit(h, p) \/ SendUpdate(h, p) \/ Miss(h, p)
                      \/ SendDelete(h, p) \/ SendCreate(h, p)
  \/ UpdatesDone(h) \/ StartDeletes(h) \/ DeletesDone(h)
  \/ StartCreates(h) \/ CreatesDone(h) \/ Finish(h) \/ AskAgain(h)
  \/ BrokenPipe(h)

Receive(h) ==
  \/ RecvUpdate(h) \/ RecvUpdateFails(h) \/ RecvToken(h) \/ RecvDelete(h)
  \/ RecvCreate(h) \/ RecvListEnd(h) \/ RecvDone(h) \/ RecvEOF(h)

ServerLoop == Rebuild \/ HandleRequest \/ SpinAtEOF \/ Wake

Edit == \E h \in Hosts, p \in Paths :
          EditFile(h, p) \/ EditFolder(h, p) \/ EditDelete(h, p)

(* Both programs have come to an end, or the server thread spins.          *)
Over ==
  /\ pc["server"] \in {"spin", "exited"} /\ pc["client"] = "exited"
  /\ UNCHANGED vars

Next ==
  \/ \E h \in Hosts : Walk(h) \/ Receive(h)
  \/ ServerLoop
  \/ Edit
  \/ Over

Spec == Init /\ [][Next]_vars

(* Each side is one running thread: it goes on when it can. Nothing makes  *)
(* a user edit.                                                            *)
Fairness ==
  /\ WF_vars(Walk("server") \/ Receive("server") \/ ServerLoop)
  /\ WF_vars(Walk("client") \/ Receive("client"))

FairSpec == Spec /\ Fairness

-----------------------------------------------------------------------------
(* Type invariant: every variable has its type.                            *)
TypeOK ==
  /\ disk \in [Hosts -> [Paths -> Node]]
  /\ tree \in [Hosts -> [Paths -> Kinded]]
  /\ new \in [Hosts -> [Paths -> Kinded]]
  /\ stale \in [Hosts -> SUBSET Paths]
  /\ todo \in [Hosts -> SUBSET Paths]
  /\ chan \in [Hosts -> Seq(Message)]
  /\ mode \in [Hosts -> {"top", "delete", "create", "jammed"}]
  /\ pc \in [Hosts -> Labels]
  /\ edits \in Nat

Down == \E h \in Hosts : pc[h] = "exited"

(* The messages each receive loop understands.                             *)
Understood(m) ==
  CASE m = "top" -> Tokens \cup {"SYNC_FILE"}
    [] m = "delete" -> {"PATH", "SYNC_DELETE_DONE"}
    [] m = "create" -> {"SYNC_FILE", "SYNC_FOLDER", "SYNC_CREATE_DONE"}
    [] OTHER -> {}

(* The parsers stay in step with the writers: whatever a receive loop      *)
(* reads next is something that loop understands, and handleRequest reads  *)
(* nothing but the request for a round, in every round and whatever users  *)
(* or the other process do. syncCheckReceive.c has no way back from a      *)
(* token read in the wrong loop.                                           *)
Aligned ==
  /\ \A h \in Hosts : Incoming(h) => Msg(h).t \in Understood(mode[h])
  /\ pc["server"] = "wait" /\ chan["server"] # << >>
       => Msg("server").t = "DONE_CONTROL"

(* One side writes at a time: while a host walks and sends its changes,    *)
(* the other is in its receive loop (or gone) and nothing is on its way to *)
(* the walking host. The code relies on it: a host that walks does not     *)
(* read its socket, so two hosts that walk at once would fill both.        *)
TurnTaking ==
  \A h \in Hosts : pc[h] \in Sending \ {"again"} =>
    \/ pc[Peer(h)] = "recv" /\ chan[h] = << >>
    \/ pc[Peer(h)] = "exited"

(* Both directories hold the same, the server's log left aside.            *)
Same == \A p \in Paths : Hidden(p) \/ disk["server"][p] = disk["client"][p]

(* At the end of every round both directories hold the same, when users    *)
(* edit only while the server sleeps, conflicting edits included: the      *)
(* round handleCase and the client's main loop run together is a merge.    *)
RoundConverges == pc["server"] = "wait" /\ ~Down => Same

(* The server process is not brought down by what a client does.           *)
ServerSurvives == pc["server"] # "exited"

(* No round hangs: the server always comes back to its nap, unless a       *)
(* process has ended.                                                      *)
RoundsComplete == []<>(pc["server"] = "sleep" \/ Down)

(* What users do ends up on both sides: the directories are the same again *)
(* and again once the edits stop, unless a process has ended.              *)
Converges == []<>(Same \/ Down)
=============================================================================
