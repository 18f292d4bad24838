----------------------------- MODULE InitialSync -----------------------------
(***************************************************************************)
(* The initial synchronisation: the clients of one folder connect one      *)
(* after the other; each sends the list of what it has, the server fetches *)
(* all of it, sends the list of what it then has itself, and the client    *)
(* fetches what it lacks (BibakBOXClient.c, syncFileServer.c,              *)
(* commonSyncFile.c, fileOperations.c).                                    *)
(*                                                                         *)
(* In both halves one host fetches and the other provides: the code is     *)
(* shared, and the actions are those of "the fetcher" and "the provider".  *)
(* A file crosses the socket in blocks and without a length. Users remove  *)
(* files, reads return less than was sent, and processes are killed.       *)
(***************************************************************************)
EXTENDS Naturals, Sequences, SequencesExt

CONSTANTS
  Clients,      (* The clients that use the folder.                          *)
  Names,        (* The names of files and folders, without timestamps.       *)
  ReadBlock,    (* BUFFER_SIZE of the fetcher (512).                         *)
  WriteBlock,   (* RECEIVE_BUFFER_SIZE of the provider (2048).               *)
  InitDisks,    (* The directories at the start, one of each host.           *)
  MaxSessions,  (* Bound: how often clients connect.                         *)
  MaxFaults     (* Bound: how often a user removes something, a read returns *)
                (* less than was sent, or a process is killed.               *)

Server == "server"
Hosts == {Server} \cup Clients
Nobody == "nobody"

(* A byte is the name of the host it comes from, the byte 0, or the marker *)
(* "{EMPTY_FILE}", which is shorter than a block and counts as one byte.   *)
Nul == "NUL"
Marker == "EMPTY"
Bytes == Hosts \cup {Nul, Marker}

(* A directory is a function from the paths in it; a path is a sequence of *)
(* names, each with the timestamps it was renamed with.                    *)
Labels == [name : Names, times : Seq(Nat)]
Paths == Seq(Labels) \ {<< >>}
Kinds == {"dir", "file"}
Nodes == [kind : Kinds, data : Seq(Bytes)]
Folder == [kind |-> "dir", data |-> << >>]
File(d) == [kind |-> "file", data |-> d]

Exists(dk, p) == p \in DOMAIN dk
IsFolder(dk, p) == Exists(dk, p) /\ dk[p].kind = "dir"
IsFile(dk, p) == Exists(dk, p) /\ dk[p].kind = "file"
InFolder(dk, p) == Len(p) = 1 \/ IsFolder(dk, Front(p))
Put(dk, p, n) == [q \in DOMAIN dk \cup {p} |-> IF q = p THEN n ELSE dk[q]]
Below(dk, p) == {q \in DOMAIN dk : IsPrefix(p, q)}
Without(dk, p) == [q \in DOMAIN dk \ Below(dk, p) |-> dk[q]]

(* All that leads to a path are folders.                                   *)
IsDirectory(dk) ==
  /\ DOMAIN dk \subseteq Paths
  /\ \A p \in DOMAIN dk :
       /\ dk[p] \in Nodes /\ (dk[p].kind = "dir" => dk[p] = Folder)
       /\ \A i \in 1 .. Len(p) - 1 : IsFolder(dk, SubSeq(p, 1, i))

ASSUME SessionAssumption ==
  /\ Clients \subseteq STRING \ {Server, Nobody, Nul, Marker}
  /\ Names \subseteq STRING
  /\ ReadBlock \in Nat \ {0, 1} /\ WriteBlock \in Nat \ {0}
  /\ WriteBlock % ReadBlock = 0
  /\ MaxSessions \in Nat /\ MaxFaults \in Nat

ASSUME DiskAssumption ==
  \A d \in InitDisks :
    DOMAIN d = Hosts /\ \A h \in Hosts :
      IsDirectory(d[h]) /\ \A p \in DOMAIN d[h] : \A i \in DOMAIN p : p[i].times = << >>

VARIABLES
  disk,      (* disk[h]: the directory of host h.                            *)
  tree,      (* tree[c]: the kinds of the nodes client c remembers.          *)
  conn,      (* conn[c]: "out", "waiting" for the folder's lock, or "in".    *)
  cur,       (* The client whose session holds the folder's lock.            *)
  fetcher,   (* The host that fetches.                                       *)
  list,      (* The entries of the list it was sent the fetcher is not at yet.*)
  file,      (* The file the fetcher has asked for.                          *)
  fpc,       (* Where the fetcher is: "sync" an entry, "read", "over".       *)
  asked,     (* The requests on their way to the provider.                   *)
  ppc,       (* Where the provider is: "wait" for a request, or "send".      *)
  left,      (* What the provider has not sent of the file it has open.      *)
  wire,      (* The bytes on their way from the provider to the fetcher.     *)
  up,        (* Which of the session's two processes run.                    *)
  now,       (* The time, in seconds: that of the session's renames.         *)
  before,    (* History: the time of the session before this one.            *)
  clean,     (* History: the clients in whose session nothing went wrong.    *)
  sessions,  (* How often clients have connected.                            *)
  faults     (* How many faults there were.                                  *)

transfer == << list, file, fpc, asked, ppc, left, wire >>
session == << tree, conn, cur, fetcher, now, before, sessions >>
luck == << clean, faults >>
vars == << disk, transfer, session, up, luck >>

Provider == IF fetcher = Server THEN cur ELSE Server
Running == cur # Nobody /\ fetcher \in up /\ fpc # "over"
Connected == Provider \in up

-----------------------------------------------------------------------------
(* The list of nodes: buildTree, sent by sendSyncFile. A folder comes      *)
(* before what is in it; the order is otherwise that of readdir.           *)

TreeOf(dk) == [p \in DOMAIN dk |-> dk[p].kind]
Entries(t) == {[p |-> p, kind |-> t[p]] : p \in DOMAIN t}

(* Mutant: what is in a folder may come before it.                         *)
AnyOf(l) == l
Heads(l) == {e \in l : \A o \in l : ~IsStrictPrefix(o.p, e.p)}

(* renameFileWithUnique: p gets the time as a suffix. rename replaces a    *)
(* file by a file and an empty folder by a folder, and otherwise fails.    *)
Stamped(p) == Append(Front(p), [Last(p) EXCEPT !.times = Append(@, now)])
Movable(dk, p, q) ==
  ~Exists(dk, q) \/ (dk[p].kind = dk[q].kind /\ Below(dk, q) = {q})
Moved(dk, p, q) ==
  [r \in (DOMAIN dk \ Below(dk, p))
           \cup {q \o SubSeq(s, Len(p) + 1, Len(s)) : s \in Below(dk, p)} |->
     IF IsPrefix(q, r) THEN dk[p \o SubSeq(r, Len(q) + 1, Len(r))] ELSE dk[r]]

(* Mutant: what is in the way is removed.                                  *)
RenamedAway(dk, p) == Without(dk, p)
Renamed(dk, p) ==
  IF Exists(dk, p) /\ Movable(dk, p, Stamped(p))
  THEN Moved(dk, p, Stamped(p)) ELSE dk

(* Mutant: the folder is not looked for.                                   *)
CanCreateAnywhere(dk, p) == ~Exists(dk, p)

(* open(O_CREAT | O_EXCL).                                                 *)
CanCreate(dk, p) == ~Exists(dk, p) /\ InFolder(dk, p)

(* What a write of a block puts in the file: strlen stops at a byte 0.     *)
Text(chunk) ==
  IF Contains(chunk, Nul)
  THEN SubSeq(chunk, 1, SelectInSeq(chunk, LAMBDA b : b = Nul) - 1)
  ELSE chunk

-----------------------------------------------------------------------------
Init ==
  /\ disk \in InitDisks
  /\ tree = [c \in Clients |-> << >>]
  /\ conn = [c \in Clients |-> "out"]
  /\ cur = Nobody /\ fetcher = Server /\ now = 0 /\ before = 0
  /\ list = {} /\ file = << >> /\ fpc = "over"
  /\ asked = << >> /\ ppc = "wait" /\ left = << >> /\ wire = << >>
  /\ up = {Server} \cup Clients
  /\ clean = {} /\ sessions = 0 /\ faults = 0

(* syncPartOfClient: the client builds its tree and sends it.              *)
Connect(c) ==
  /\ conn[c] = "out" /\ up = Hosts /\ sessions < MaxSessions
  /\ tree' = [tree EXCEPT ![c] = TreeOf(disk[c])]
  /\ conn' = [conn EXCEPT ![c] = "waiting"]
  /\ clean' = clean \cup {c}
  /\ sessions' = sessions + 1
  /\ UNCHANGED << disk, transfer, cur, fetcher, now, before, up, faults >>

(* handleCase: the lock of the folder; receiveSyncFiles. A session that    *)
(* waited for the lock begins in the second in which the one before ends.  *)
Begin(c) ==
  /\ conn[c] = "waiting" /\ cur = Nobody /\ up = Hosts
  /\ conn' = [conn EXCEPT ![c] = "in"]
  /\ cur' = c /\ fetcher' = Server
  /\ now' \in {now, now + 1} \ {0} /\ before' = now
  /\ list' = Entries(tree[c])
  /\ fpc' = "sync"
  /\ UNCHANGED << disk, tree, sessions, file, asked, ppc, left, wire, up,
                  luck >>

-----------------------------------------------------------------------------
(* The fetcher: syncServerWithfd calls syncFile for every entry.           *)

Syncing == Running /\ fpc = "sync"
Entry(e, kind) == Syncing /\ e \in Heads(list) /\ e.kind = kind

(* A folder: mkdir, unless it is there; a file in the way is only reported.*)
SyncFolder(e) ==
  /\ Entry(e, "dir") /\ list' = list \ {e}
  /\ disk' = IF CanCreate(disk[fetcher], e.p)
             THEN [disk EXCEPT ![fetcher] = Put(@, e.p, Folder)] ELSE disk
  /\ UNCHANGED << file, fpc, asked, ppc, left, wire, session, up, luck >>

(* Mutant: the client renames and fetches like the server.                 *)
KeepsNothing(p) == FALSE

(* The client keeps what it has, whatever it is.                           *)
Keeps(p) == fetcher # Server /\ Exists(disk[fetcher], p)
KeepOwn(e) ==
  /\ Entry(e, "file") /\ Keeps(e.p) /\ list' = list \ {e}
  /\ UNCHANGED << disk, file, fpc, asked, ppc, left, wire, session, up, luck >>

(* The server renames what is in the way and creates the file.             *)
Fetches(e) == Entry(e, "file") /\ ~Keeps(e.p) /\ list' = list \ {e}
Creates(p) ==
  /\ CanCreate(Renamed(disk[fetcher], p), p)
  /\ disk' = [disk EXCEPT ![fetcher] = Put(Renamed(@, p), p, File(<< >>))]

AskFile(e) ==
  /\ Fetches(e) /\ Connected /\ Creates(e.p)
  /\ file' = e.p
  /\ fpc' = "read" /\ asked' = Append(asked, e.p)
  /\ UNCHANGED << ppc, left, wire, session, up, luck >>

(* The other process is gone: the request may still be written once, and   *)
(* nothing comes; or the write ends the process.                           *)
AskGone(e) ==
  /\ Fetches(e) /\ ~Connected /\ Creates(e.p)
  /\ up' \in {up, up \ {fetcher}}
  /\ UNCHANGED << file, fpc, asked, ppc, left, wire, session, luck >>

(* "Failed to create file": the process exits.                             *)
CannotCreate(e) ==
  /\ Fetches(e) /\ ~CanCreate(Renamed(disk[fetcher], e.p), e.p)
  /\ disk' = [disk EXCEPT ![fetcher] = Renamed(@, e.p)]
  /\ up' = up \ {fetcher}
  /\ UNCHANGED << file, fpc, asked, ppc, left, wire, session, luck >>

(* readAndWriteFileFromFd, one read: n bytes.                              *)
WriteOut(chunk) ==
  IF IsFile(disk[fetcher], file)
  THEN [disk EXCEPT ![fetcher][file].data = @ \o Text(chunk)] ELSE disk
(* Mutant: only the first block is read.                                   *)
LastBlockAlways(chunk) == TRUE
LastBlock(chunk) == Len(chunk) # ReadBlock \/ Last(chunk) = Nul
ReadBytes(n) ==
  LET chunk == SubSeq(wire, 1, n) IN
  /\ Running /\ fpc = "read" /\ n \in 1 .. Len(wire)
  /\ wire' = SubSeq(wire, n + 1, Len(wire))
  /\ IF Text(chunk) = << Marker >>
     THEN fpc' = "sync" /\ UNCHANGED disk
     ELSE /\ disk' = WriteOut(chunk)
          /\ fpc' = IF LastBlock(chunk) THEN "sync" ELSE "read"
  /\ UNCHANGED << list, file, asked, ppc, left, session, up >>

Whole == IF Len(wire) < ReadBlock THEN Len(wire) ELSE ReadBlock
Read == ReadBytes(Whole) /\ UNCHANGED luck

(* Something goes wrong in the sessions of these clients.                  *)
Fault(cs) == faults < MaxFaults /\ faults' = faults + 1 /\ clean' = clean \ cs

(* Less has arrived than was sent.                                         *)
ReadSplit ==
  /\ \E n \in 1 .. Whole - 1 : ReadBytes(n)
  /\ Fault({cur})

(* Mutant: read is tried again.                                            *)
ReadEOFAgain ==
  Running /\ fpc = "read" /\ wire = << >> /\ ~Connected /\ UNCHANGED vars

(* The provider is gone: read returns 0, the file stays as it is.          *)
ReadEOF ==
  /\ Running /\ fpc = "read" /\ wire = << >> /\ ~Connected
  /\ fpc' = "sync"
  /\ UNCHANGED << disk, list, file, asked, ppc, left, wire, session, up, luck >>

-----------------------------------------------------------------------------
(* The provider: handleSyncGetRequests.                                    *)

Serving(l) == cur # Nobody /\ up = Hosts /\ ppc = l
Opens(p) == Serving("wait") /\ asked # << >> /\ p = Head(asked)

OpenFile(p) ==
  /\ Opens(p) /\ IsFile(disk[Provider], p)
  /\ left' = disk[Provider][p].data
  /\ asked' = Tail(asked)
  /\ ppc' = "send"
  /\ UNCHANGED << disk, list, file, fpc, wire, session, up, luck >>

(* The file has gone since the list was sent, or is a folder: exit.        *)
CannotOpen(p) ==
  /\ Opens(p) /\ ~IsFile(disk[Provider], p)
  /\ up' = up \ {Provider}
  /\ UNCHANGED << disk, transfer, session, luck >>

(* One block; a short one is the last, an empty one is sent as the marker. *)
Block == IF Len(left) < WriteBlock THEN left ELSE SubSeq(left, 1, WriteBlock)

(* Mutant: the end of a file that fills its last block is not marked.      *)
OnWireUnmarked == Block
OnWire == IF Block = << >> THEN << Marker >> ELSE Block
SendBlock ==
  /\ Serving("send")
  /\ wire' = wire \o OnWire
  /\ left' = SubSeq(left, Len(Block) + 1, Len(left))
  /\ ppc' = IF Len(Block) < WriteBlock THEN "wait" ELSE "send"
  /\ UNCHANGED << disk, list, file, fpc, asked, session, up, luck >>

-----------------------------------------------------------------------------
(* The fetcher has all entries: {SYNC_WRITE_DONE}.                         *)
Quiet == asked = << >> /\ ppc = "wait"
AllSynced(h) == Syncing /\ fetcher = h /\ list = {}

(* What the client sent and the server did not read comes before the       *)
(* client's first request. handleSyncGetRequests skips bytes 0 and opening *)
(* braces, which the bytes of a text may be, and takes others for a path.  *)
MaySkip == ~Contains(wire, Marker)
MayGarble == \E i \in DOMAIN wire : wire[i] # Nul

(* syncServer goes on: buildTree, its own list, and it provides. The       *)
(* client has answered every request when it gets there.                   *)
Turned ==
  /\ AllSynced(Server) /\ Connected /\ Quiet
  /\ fetcher' = cur
  /\ list' = Entries(TreeOf(disk[Server]))
  /\ wire' = << >>
  /\ UNCHANGED << disk, file, fpc, asked, ppc, left, tree, conn, cur, now,
                  before, sessions, luck >>
Turn == MaySkip /\ Turned /\ UNCHANGED up

(* What it does not skip is the beginning of the path the client asks for: *)
(* it is not that of a file, and the server exits. (Bytes that complete it *)
(* to the path of another file are left out.)                              *)
TurnGarbled == MayGarble /\ Turned /\ up' = up \ {Server}

(* receiveSyncFilesWrapper reads less than the six bytes of {SYNC} and     *)
(* returns no list: the client crashes on it.                              *)
TurnSplit ==
  /\ AllSynced(Server) /\ Connected /\ Fault({cur})
  /\ up' = up \ {cur}
  /\ UNCHANGED << disk, transfer, session >>

(* The server builds its tree again and unlocks; rounds begin.             *)
Finish ==
  /\ cur # Nobody /\ AllSynced(cur) /\ Connected /\ Quiet
  /\ fpc' = "over"
  /\ UNCHANGED << disk, list, file, asked, ppc, left, wire, session, up, luck >>

(* The client leaves later, and may come back.                             *)
Leave ==
  /\ cur # Nobody /\ fpc = "over"
  /\ conn' = [conn EXCEPT ![cur] = "out"]
  /\ cur' = Nobody
  /\ wire' = << >>
  /\ UNCHANGED << disk, list, file, fpc, asked, ppc, left, tree, fetcher, now,
                  before, sessions, up, luck >>

-----------------------------------------------------------------------------
(* Faults.                                                                 *)

(* A user, or the session of another client, removes something while a     *)
(* client is there; before that it is only another directory to begin with.*)
RemoveNode(h, p) ==
  /\ \E c \in Clients : conn[c] # "out"
  /\ Exists(disk[h], p) /\ Fault(Clients)
  /\ disk' = [disk EXCEPT ![h] = Without(@, p)]
  /\ UNCHANGED << transfer, session, up >>

(* A process of the session is killed.                                     *)
Crash(h) ==
  /\ cur # Nobody /\ fpc # "over" /\ h \in {Server, cur} /\ up = Hosts
  /\ Fault({cur})
  /\ up' = up \ {h}
  /\ UNCHANGED << disk, transfer, session >>

(* The survivor exits: the provider at the end of its input, the fetcher   *)
(* when it writes {SYNC_WRITE_DONE}.                                       *)
SurvivorExits ==
  /\ cur # Nobody /\ fpc # "over"
  /\ \/ fetcher \notin up /\ Provider \in up /\ up' = up \ {Provider}
     \/ AllSynced(fetcher) /\ ~Connected /\ up' = up \ {fetcher}
  /\ UNCHANGED << disk, transfer, session, luck >>

(* Both have ended, and the server is started again.                       *)
Restart ==
  /\ cur # Nobody /\ up \cap {Server, cur} = {}
  /\ up' = Hosts
  /\ conn' = [c \in Clients |-> "out"]
  /\ cur' = Nobody /\ fetcher' = Server
  /\ list' = {} /\ file' = << >> /\ fpc' = "over"
  /\ asked' = << >> /\ ppc' = "wait" /\ left' = << >> /\ wire' = << >>
  /\ UNCHANGED << disk, tree, now, before, sessions, luck >>

-----------------------------------------------------------------------------
SyncFile(e) == SyncFolder(e) \/ KeepOwn(e) \/ AskFile(e) \/ AskGone(e)
               \/ CannotCreate(e)
Fetch == Read \/ ReadEOF \/ Turn \/ TurnGarbled \/ Finish
         \/ \E e \in list : SyncFile(e)
Provide == SendBlock \/ \E p \in ToSet(asked) : OpenFile(p) \/ CannotOpen(p)
Removal == \E h \in Hosts : \E p \in DOMAIN disk[h] : RemoveNode(h, p)
Unlucky == ReadSplit \/ TurnSplit \/ Removal \/ \E h \in Hosts : Crash(h)

Next ==
  \/ \E c \in Clients : Connect(c) \/ Begin(c)
  \/ Fetch \/ Provide \/ Leave \/ SurvivorExits \/ Restart
  \/ Unlucky

Spec == Init /\ [][Next]_vars

(* Both processes of a session run when they can.                          *)
FairSpec == Spec /\ WF_vars(Fetch) /\ WF_vars(Provide) /\ WF_vars(SurvivorExits)

-----------------------------------------------------------------------------
(* Type invariant.                                                         *)
TypeOK ==
  /\ DOMAIN disk = Hosts /\ \A h \in Hosts : IsDirectory(disk[h])
  /\ DOMAIN tree = Clients
  /\ \A c \in Clients : \A p \in DOMAIN tree[c] : p \in Paths /\ tree[c][p] \in Kinds
  /\ conn \in [Clients -> {"out", "waiting", "in"}]
  /\ cur \in Clients \cup {Nobody} /\ fetcher \in Hosts
  /\ IF cur = Nobody THEN fpc = "over" /\ wire = << >> ELSE fetcher \in {Server, cur}
  /\ fpc = "over" => Quiet
  /\ list \subseteq [p : Paths, kind : Kinds] /\ file \in Paths \cup {<< >>}
  /\ fpc \in {"sync", "read", "over"} /\ ppc \in {"wait", "send"}
  /\ asked \in Seq(Paths) /\ left \in Seq(Bytes) /\ wire \in Seq(Bytes)
  /\ up \subseteq Hosts /\ now \in Nat /\ before \in 0 .. now
  /\ clean \subseteq Clients
  /\ sessions \in 0 .. MaxSessions /\ faults \in 0 .. MaxFaults

(* A size the two block sizes disagree about: the fetcher waits for more   *)
(* and the provider for the next request. (A multiple of 512, not of 2048.)*)
Odd(d) == Len(d) % ReadBlock = 0 /\ Len(d) % WriteBlock # 0
(* Text crosses the socket as it is, but for a marker that is read alone.  *)
Plain(d) ==
  ~Contains(d, Nul) /\ ~(Len(d) % ReadBlock = 1 /\ Last(d) = Marker)

(* A block-sized read of such a file ends it before its end: the block     *)
(* ends in a byte 0, or reads as the marker. What follows is taken for the *)
(* answer to the next request.                                             *)
Early(d) ==
  \E i \in 0 .. Len(d) :
    LET block == SubSeq(d, i + 1, i + ReadBlock) IN
    /\ i % ReadBlock = 0 /\ i + ReadBlock <= Len(d)
    /\ Text(block) = << Marker >> \/ Last(block) = Nul
HasEarly(h) == \E p \in DOMAIN disk[h] : Early(disk[h][p].data)

(* A folder that a client has where the server has a file; such a folder   *)
(* and what is in it does not get to the server.                           *)
BlockedFolder(c, p) == IsFolder(disk[c], p) /\ IsFile(disk[Server], p)
Blocked(c, p) == \E q \in DOMAIN disk[c] : IsPrefix(q, p) /\ BlockedFolder(c, q)

(* A session in the second of the one before it gives names that the one   *)
(* before may have given. A path that it gives one of, and the names given *)
(* in this second:                                                         *)
Hurried == before = now
GivenNow(p) == p # << >> /\ Last(p).times # << >> /\ Last(Last(p).times) = now

(* When a session in which nothing went wrong is over, client and server   *)
(* have the same directory and nothing is left in the socket; a file that  *)
(* the client has is the client's, also where an earlier session was       *)
(* killed in the middle of a file. The exceptions are binary files, which  *)
(* lose bytes, a folder of the client's that meets a file, with the        *)
(* folders in it, directories with a file that ends early on the way, and, *)
(* when two sessions fall in one second, files with names they gave.       *)
Synchronised ==
  cur # Nobody /\ fpc = "over" /\ cur \in clean
  /\ ~HasEarly(cur) /\ ~HasEarly(Server) =>
    /\ wire = << >>
    /\ DOMAIN disk[Server] \subseteq DOMAIN disk[cur]
    /\ \A p \in DOMAIN disk[cur] :
         \/ Blocked(cur, p)
         \/ /\ Exists(disk[Server], p) /\ disk[Server][p].kind = disk[cur][p].kind
            /\ \/ disk[cur][p] = disk[Server][p]
               \/ ~Plain(disk[cur][p].data) \/ ~Plain(disk[Server][p].data)
               \/ Hurried /\ GivenNow(p)

(* Whatever goes wrong, no step of the programs takes away content: what a *)
(* file holds stays in some file of that host, under its name or renamed.  *)
(* There is one exception: when two sessions fall in one second, the file  *)
(* to which the first gave a name is replaced by the file to which the     *)
(* second gives that name.                                                 *)
Replaced(p) ==
  /\ Hurried /\ IsFile(disk[Server], p)
  /\ \E e \in list : Fetches(e) /\ Stamped(e.p) = p
NothingLost ==
  [][~Removal =>
       \A h \in Hosts : \A p \in DOMAIN disk[h] :
         \/ \E q \in DOMAIN disk'[h] :
              /\ disk'[h][q].kind = disk[h][p].kind
              /\ IsPrefix(disk[h][p].data, disk'[h][q].data)
         \/ h = Server /\ Replaced(p)]_vars

(* What a client has keeps its place and content, whatever the server has  *)
(* at the same paths; only the file being fetched grows.                   *)
ClientKeeps ==
  [][~Removal =>
       \A c \in Clients : \A p \in DOMAIN disk[c] :
         ~(fpc = "read" /\ fetcher = c /\ file = p) =>
           Exists(disk'[c], p) /\ disk'[c][p] = disk[c][p]]_vars

(* The server's process ends only if one of the two was killed, something  *)
(* was removed or cut in two on the way, a client's folder met a file, a   *)
(* client's file ended early, or, when two sessions fall in one second,    *)
(* what was to be renamed met what the other renamed: of the two one is a  *)
(* folder with something in it, or one is a folder and one a file.         *)
Clash(p) ==
  /\ Exists(disk[Server], p) /\ Exists(disk[Server], Stamped(p))
  /\ ~Movable(disk[Server], p, Stamped(p))
ServerEnds ==
  Server \notin up =>
    \/ faults > 0
    \/ \E p \in DOMAIN disk[Server] : BlockedFolder(cur, p)
    \/ HasEarly(cur)
    \/ Hurried /\ \E p \in DOMAIN tree[cur] : tree[cur][p] = "file" /\ Clash(p)

(* Fetcher and provider wait for each other only over a file of a size the *)
(* two block sizes disagree about, or after a file that ended early.       *)
Hung == Running /\ Connected /\ fpc = "read" /\ Quiet /\ wire = << >>
OnlyOddHangs ==
  Hung /\ cur \in clean => Odd(disk[Provider][file].data) \/ HasEarly(Provider)

(* A session that has begun comes to its end, or hangs like that.          *)
SessionEnds ==
  \A c \in Clients : cur = c ~> Hung \/ fpc = "over" \/ up \cap {Server, c} = {}
=============================================================================
