# BibakBOX in TLA+

BibakBOX keeps a directory of each client the same as a directory on a server.
One server process serves many clients with a fixed pool of threads; every
client is a process of its own, and the two talk over a TCP connection. This
directory holds TLA+ modules for the program, TLC runs over small instances of
them, and proofs checked by TLAPS. `PROJECT.json` lists the runs, says for each
definition which lines of the source it models, and lists the hazards the
properties are aimed at.

    tlc -config SyncRound_fetched.cfg MCSyncRound.tla
    tlapm SyncRoundProofs.tla

## 1. The system

All sources are in `src/src/`; the repository has no tests. Its documentation
is `src/README.md` and the comments.

| Component | Source | State | Operations |
|---|---|---|---|
| Synchronisation rounds | `syncCheckSend{Server,Client,Common}.c`, `syncCheckReceive.c`, `fileTree.c`, loops in `serverThread.c` and `BibakBOXClient.c` | on each side: the directory, a tree of `FileNode`s with the mtime of each, the tree of the running walk, the receive loop it is in | walk and send updates, deletions, creations; receive each; rebuild the tree; start the next round |
| Path locks | `lockManager.c` | a growing array of (path, mutex), `pathListMutex` | `takeLock`, `unlockLock`, `addItem` |
| Thread pool and shutdown | `BibakBOXServer.c`, `serverThread.c` | `thread_m`, `busyThreads`, `serverWait`, `isSIGINT`, per thread `isBusy`, `fd`, `fileName` | accept, wait for a thread, assign; serve; end a session; the SIGINT handler |
| Initial synchronisation | `commonSyncFile.c`, `syncFileServer.c`, `fileOperations.c` | the file lists of both sides | exchange lists, rename conflicting server files, send files in blocks |
| Token parsers | `syncCheckReceive.c` | the buffer and flags of five receive loops | read characters up to a `}`, split contents from tokens |
| Sessions of several clients | `serverThread.c`, `syncCheckSendServer.c` | the locks each session holds, one directory for all | take a lock for each part of a session, leave it, share a folder |
| Client main program | `BibakBOXClient.c` | socket, tree | connect, initial synchronisation, rounds |
| Server main program | `BibakBOXServer.c` | socket, pool | arguments, listen, accept |
| Log file | all of the above | `log.txt` in each server directory | append lines |
| Utilities | `common.c` | none | printing, signal masks, growing buffers |

How they interact. The main thread hands a connection to a pool thread through
`isBusy`, `fd` and a condition variable. The thread reads requests: `{SYNC}`
runs the initial synchronisation, `{DONE_CONTROL}` a round. In a round the
thread sleeps ten seconds, walks its directory under path locks, sends
`{SYNC_FILE}` for every modified file, then lists of deleted and of created
nodes, then `{DONE_CONTROL}`; it then receives the same from the client under
the lock of the whole directory and rebuilds its tree from the disk. The client
receives, walks its directory against the tree it had before receiving, sends,
and sends a second `{DONE_CONTROL}` that asks for the next round. Users edit
both directories meanwhile, and other threads may serve other clients from the
same directory.

What is hard in it (each point is one or more hazards of `PROJECT.json`):

- The token stream has no framing: which token means what depends on the loop
  the reader is in, and `syncCheckReceive` has no way back from one it does not
  expect. Writer and reader have to agree on the order for ever.
- A host that walks writes and does not read. If both walked at once, both
  sockets would fill and both hosts stop.
- Each side decides what changed from a remembered tree and mtimes in seconds,
  and the client applies the server's changes before it walks against a tree
  that does not hold them: it echoes every change back.
- Users edit between `readdir`, `stat`, `open` and the two lists.
- Mutexes live in an array that `realloc` moves, and are locked outside the
  mutex that guards the array.
- `thread_m` is unlocked by threads that do not hold it, on first entry to the
  wait and at the end after SIGINT, so that two threads may count down at once;
  signals are sent to conditions nobody may be waiting on yet.
- A process ends on an error in the middle of a round, and a write to a socket
  whose reader has gone ends the process (nothing handles SIGPIPE).
- File contents are sent between tokens as they are. One with braces looks like
  tokens to the five receive loops, each of which treats braces differently,
  and one of which copies what is between two into a buffer of a fixed size.
- Times are whole seconds: a second write in one second is no change, and two
  sessions in one second give the same new names.
- The initial synchronisation sends files without a length, in blocks whose size
  the two sides disagree about, over a socket that may deliver less than was
  sent; users remove files meanwhile, and processes are killed and come back.
- The parts of a session take locks with different names for the same folder,
  and one of them waits for its client under the lock of the whole directory.

What makes each component correct: the rounds must stay in step (`Aligned`,
`TurnTaking`, `RoundsComplete`), make the directories the same without losing or
undoing edits (`RoundConverges`, `Converges`, `ImplementsMerge`) and not bring
the server down (`ServerSurvives`); the locks must be a mutex per path
(`OneMutexPerPath`, `InBounds`, `MutualExclusion`, `Progress`,
`ImplementsPathMutex`); sessions must keep out of each other's way and not wait
for ever (`LocksMatch`, `Excludes`, `HalfExplained`, `EditsKept`, `AskedIsGot`,
`EveryoneServed`, `Settles`, `OwnEditStays`); the initial synchronisation must
make both sides the same and lose nothing (`Synchronised`, `NothingLost`,
`ClientKeeps`) and come to an end (`SessionEnds`, `OnlyOddHangs`, `ServerEnds`);
the parsers must not lose their place and write what was sent (`InStep`,
`UpdateWhole`, `FileWhole`, `RestsAfter`, `TurnEnds`); the pool must count
right, lose no connection and shut down in order (`BusyCount`, `HandOver`,
`AssignedServed`, `NoSessionFreed`, `ShutdownCompletes`).

## 2. The modules

| Module | What it is |
|---|---|
| `Directories` | paths, what is at a path, and what the file system operations of both programs and the users make of a directory |
| `SyncRound` | the rounds: one client, the thread that serves it, the two sockets, the users |
| `DirectorySync` | the abstract specification of a round: two copies and a merge |
| `SyncMerge` | `SyncRound` with history variables, and the mapping to `DirectorySync` |
| `PathMutex` | the abstract specification of the lock manager: one mutex per path |
| `LockManager` | `lockManager.c`, with its array, the addresses of its mutexes and `realloc`, and the mapping to `PathMutex` |
| `ServerPool` | the main thread, the pool threads as the pool sees them, SIGINT and its handler |
| `Sessions` | the sessions of several clients, the locks their parts take, and one folder's file |
| `InitialSync` | the initial synchronisation of one client after the other, file blocks and faults included |
| `TokenParser` | one turn of a round on the wire, symbol by symbol |
| `SyncRoundProofs` | types of `SyncRound`, `Aligned` and `TurnTaking` |
| `SyncMergeProofs` | `RoundConverges`, and that the rounds implement `DirectorySync` |
| `SyncRoundSurvival` | `ServerSurvives` |
| `LockManagerProofs` | the invariants of `LockManager` and its refinement |
| `SessionsProofs` | types, locks and lone clients of `Sessions` |
| `ServerPoolProofs` | types, the count, the handing over and the end of `ServerPool` |
| `InitialSyncProofs` | types of `InitialSync`, what a client keeps, that no content is lost, and what a session comes to: `Synchronised`, `ServerEnds`, `OnlyOddHangs` |
| `TokenParserProofs` | types of `TokenParser`, that plain contents keep the receiver in step, and what becomes of the others: `UpdateWhole`, `FileWhole`, `RestsAfter` |
| `MCDirectories`, `MCSyncRound`, `MCSyncMerge`, `MCSessions`, `MCInitialSync`, `MCTokenParser` | small sets of paths, contents and directories, and symmetry, for TLC |

### SyncRound

The state is one function per idea over the two hosts: `disk[h]` is the
directory; `tree[h]` the remembered `FileNode` tree, as the kind of node at each
path; `new[h]` the tree the running walk builds (`newRoot`); `stale[h]` the
paths whose mtime differs from the remembered one, which is all the code ever
asks of mtimes; `todo[h]` what the walk has not come to; `chan[h]` the socket to
`h`; `mode[h]` the receive loop `h` is in; `pc[h]` its place in the round. The
code has the walk twice, once for the server and once for the client, with the
same control; the actions take the host as a parameter and the two differences
(the server leaves `log.txt` out when it walks, the client sends a second
`{DONE_CONTROL}`) are conditions on it.

One action is one entry of a walk (`Visit`, `SendUpdate`, `Miss`), one message
sent (`UpdatesDone`, `StartDeletes`, `SendDelete`, `DeletesDone`,
`StartCreates`, `SendCreate`, `CreatesDone`, `Finish`, `AskAgain`), one message
received (`RecvUpdate`, `RecvUpdateFails`, `RecvToken`, `RecvDelete`,
`RecvCreate`, `RecvListEnd`, `RecvDone`), or one step of the loops around them
(`Rebuild`, `HandleRequest`, `Wake`). `RecvEOF`, `BrokenPipe` and `SpinAtEOF`
are what happens after the other side has gone. Users' edits interleave with
all of these, so a file can vanish between the walk and the list it is sent in,
as it can in the program.

Decisions about the abstraction:

- A message is a whole `{SYNC_FILE}{path}content{SYNC_DONE}`, a whole
  `{SYNC_FOLDER}{path}{SYNC_DONE}`, one `{path}` of a deletion list or a bare
  token. What contents with braces or of full blocks do to this is the question
  of `TokenParser`. Paths over 254 characters are left out: the loops of updates
  and of deletions refuse them, and keep them in the buffer.
- `SendUpdate` takes the mtime and the content in one step; the code calls
  `stat` and `open` right after each other. A creation, which is sent long
  after its scan, reads the content when it is sent (`ContentNow`).
- The contents are what users write, the empty file, the text `EMPTY_FILE`
  (the marker for an empty file, which an update copies into the file and a
  creation does not) and the server's log. What is written to the log is left
  out; a client's file of that name does overwrite it, and the model shows that.
- `BrokenPipe` may happen at any point at which the process could write; a
  write that fails without a signal ends the same way.
- Allocation failures and read errors other than the end of the stream are left
  out. The second client of a directory is in `Sessions`.

### LockManager

`path` and `mutex` are the two fields of the array's items, `block` the memory
block it lives in. `takeLock` is the actions `TakeLock`, `LockList`, then
`Found`, `Address`, `Lock` or `Grow`, `AppendItem`; `unlockLock` is `UnlockLock`
and `Unlock`. At each growth `realloc` extends the array in place or moves it,
with the mutexes in it. One that is locked is as good in the new block: the
thread at work under it takes a new address to unlock. But an address is read
without `pathListMutex`; if the array moves between that and its use the
behaviour is undefined, and `LockStale` and `Unlock` give what the build can do:
the old block reads as a free mutex, or as a locked one nobody will unlock, and
unlocking there changes nothing. The history variable `caught` has the threads
that a move has met there, and the properties of the locks hold until it has
one. `takeLock` finds the first item with the path; `Found` takes any, and
`OneMutexPerPath` says there is one.

### ServerPool

`thread_m` is its holder, and an unlock frees it whoever that is: it is a
default mutex, for which the Linux implementation does exactly this. `pc[w]` is
the place of thread `w` in `socketThread`, `main` that of the main thread, and
`handler` that of the SIGINT handler, which runs on the main thread and stops
it for good. A session is reduced to what the pool sees: requests, the
initial synchronisation, naps and rounds, which may end it. `Top` frees
`fileName` a second time after every session; the allocator may abort the process
or not notice. Spurious wakeups, and errors of `accept` and `read` that exit,
are left out.

- Threads start while clients connect: in `Init` they have not come to their
  first wait, and nothing makes them come there before a connection does.
- `thread_m` does not protect what is done under it, as it may be unlocked by
  another thread. So the statements there are steps of their own: the mark
  `isBusy = 1` (`Find`), `busyThreads++` (`ReadMain`, `WriteMain`), the
  descriptor with the signal (`Assign`); and at the end of a session the test of
  SIGINT, `busyThreads--` (`ReadBusy`, `WriteBusy`), `isBusy = 0` (`ClearBusy`).
  A change of the counter is a read and a write, and `seen[t]` is what `t` read,
  so that a count can be lost. Between the test of a wait and the wait the
  handler can lose the mutex too (`SessionsLeft`, `HandlerWait`).
- Three history variables are for the properties: `stolen`, an unlock has taken
  `thread_m` from another thread that held it; `early`, a connection came before
  the threads all waited for the first time; `missed`, the connections given to a
  thread that did not wait, whose signal is lost. Each property says which of
  them it needs not to have happened, and none is assumed away.

### Sessions

Composes several sessions with the locks of the lock manager, which here are
what `PathMutex` says they are (`LockManager` shows it until a move has caught a
thread). A session is its place `pc[c]`; the parts under a lock are the
initial synchronisation (`list`, `fetch`, `serve`, under `dir//name`), the walk
with its updates and then the creations (`walk`, `walked`, `create`, under
`dir/name`) and the receive with the rebuild (`receive`, `write`, `rebuild`,
under `dir/`). `left` holds the locks that were never given back
(`syncCheckSendServer.c:97-100`). A folder is one file with the number of its
last edit as content, 0 for none and `Half` while a session writes it, between
`ftruncate` or `open` and the last `write`; `differs[c]` and `edited[c]` say
that its mtime is not the one in the session's tree and in the client's.

- mtimes are compared in whole seconds (`syncCheckSendCommon.c:221`). A tree that
  is built after a write may remember an mtime of the present second; `late` are
  the sessions and `fresh` the clients with such a tree. Until `sleep(10)` ends
  that second (`Wake`), a write of another session (`Store`) or of the user
  (`Edit`) may leave `differs` or `edited` as it was. `missed` remembers the
  clients whose last edit was of this kind.
- The steps of the client that the server cannot see are two: it applies what
  has come (`ClientReceive`) and walks and answers (`ClientWalk`).
- `Falter` makes a client silent (a laptop that sleeps: its socket stays open)
  or gone. What a write to a client that has gone does is a choice: nothing yet,
  SIGPIPE, or, where SIGPIPE was ignored before the server was started, an
  error, which is the case in which a walk leaves its lock behind.
- A folder with one file has no creations or deletions of its own; their places
  are there for the locks. A client connects once; `InitialSync` has clients
  that come back.

### InitialSync

The code for the two halves is shared between the programs, so there is one
fetcher and one provider, and the host they run on is a parameter: `fetcher` is
the server first, then the client. `list` is what is left of the list of
entries, a folder always before what is in it (`Heads`, the order in which
`sendSyncFile` recurses) and otherwise in any order, as `readdir` has it. `wire`
is the provider's bytes on their way.

- A path is a sequence of labels, each a name with the timestamps it was renamed
  with: `renameFileWithUnique` appends the time in seconds, so a name tells when
  it was given. A session that waited for the lock may begin in the second in
  which the one before ends (`Begin`), so two sessions can give one name; `rename`
  then replaces a file by a file and fails between a file and a folder. `before`
  is the time of the session before (`Hurried`, `GivenNow`).
- A byte is the name of the host that wrote it, the byte 0, or the marker
  `{EMPTY_FILE}` as a whole. Blocks of 2 and 4 stand for those of 512 and 2048:
  sizes below, at and between multiples of both exist.
- Three operators say what the transfer of files comes to. A file is `Early` if
  a block-sized read of it ends the transfer before its end, since the block
  ends in a byte 0 or reads as the marker (`fileOperations.c:100`, `109`); what
  follows is then taken for the next file. A content is `Plain` if it has no
  byte 0 and its last read is not exactly the marker. `Blocked` are a client's
  folder where the server has a file, and what is in that folder.
- Lists arrive whole, as their reader goes on until `{SYNC_DONE}`. That a
  request is cut in two does not matter to its reader either. That the six
  bytes of `{SYNC}` are, does: `TurnSplit`.
- Bytes left on the wire when the server has fetched all are read by
  `handleSyncGetRequests`. It skips bytes 0 and opening braces, which bytes of a
  text may be (`MaySkip`), and takes the others for the beginning of a name:
  `TurnGarbled` lets the server exit on them, as it then tries to open a name that
  is no file. (Bytes that happen to spell one are left out.)
- Faults, each at any moment: a user removes a file or a folder, a read returns
  less than has been sent, a process is killed; `Restart` starts them again.
  `clean` remembers in whose session nothing of this happened.
- `log.txt`, paths over 254 characters, which this code refuses
  (`commonSyncFile.c:68`), and users who add files in the middle are left out:
  an added file is one more of the initial directories.

### TokenParser

Symbols are tokens' names, names in paths, braces, the byte 0 and letters. The
sender is that of both programs (they write the same text); its walk chooses
any updates, deletions and creations a walk can come to, in the walk's order.
The receiver is `syncCheckReceive` and the loops it calls: `loop` says which one
reads, `buf`, `path`, `flag`, `fileFlag`, `folderFlag` and `count` are its
variables. `ideal` is the directory the messages ask for, and `old` the one the
receiver has when a message is sent. The sender waits until all it sent is read:
the receiver reads one symbol after the other and cannot tell when it was sent.
`Payload` has the block of the sender (2048) as `Block`.

`createReceiveFile` copies what is between two braces into `pathBuffer`, which
has 256 bytes, without looking at its length (`syncCheckReceive.c:511`).
`PathSize` is what surely fits. What is longer runs over the heap, and the
outcomes are those the build can produce: the path is as sent, or cut where the
loop then writes a 0 into its buffer (`Copies`), or the process ends
(`CreateCrash`). The other loops refuse a path of more than 254 characters and
keep it in their buffers; that, and the log, is left out.

Which contents cost the receiver its place is said by what is between their
braces. A part of an update that reads as the token of its end ends it
(`EndsEarly`, zeros and all that follows one being ignored). In a new file an
opening brace with no closing brace after it is followed by the rest of the
content, the two together being read as one token (`Settled`), a token
alone before a closing brace sets or clears a flag (`Misread`), and what is
between two braces may not fit in `pathBuffer` (`Fits`). `KeepsPlace` is
that none of this is in a content. After one of these a content with tokens in
it may lead the receiver into any of its loops, and even back to its place, so
`RestsAfter` speaks of `Wordless` contents that fit where it says that the place
is lost.

## 3. The runs

Ten runs pass. Each has its question; the properties that share a run need
the same interleavings.

| Run | Instance | Shows |
|---|---|---|
| `SyncRound_anything` | a folder, a file in it, `log.txt`; any path may be file or folder; empty files; all of it just fetched; both users, 2 edits, at any time, also within a second | `Aligned`, `TurnTaking`, `RoundsComplete`, `TypeOK` |
| `SyncRound_client_edits` | a file, a folder, a file in it; the client's user, 2 edits at any time | `ServerSurvives`, `Converges` |
| `SyncRound_fetched` | the same paths, fetched in any combination; the server's user, 2 edits during naps | `RoundConverges` |
| `SyncMerge_rounds` | a folder with two files, both users, 4 edits during naps | `ImplementsMerge`: a round is one merge |
| `LockManager_shared` | 3 threads, 2 paths; the array grows twice and may move each time | `MutualExclusion`, `OneMutexPerPath`, `InBounds`, `Progress`, `ImplementsPathMutex`, `TypeOK` |
| `ServerPool_ready` | 2 threads that start while 3 clients connect, SIGINT at any moment | `BusyCount`, `HandOver`, `NoSessionFreed`, `AssignedServed`, `TypeOK` |
| `InitialSync_faults` | 2 clients of one folder and their files, folders that meet files, sizes around the blocks; sessions in one second or two; one removal, short read or kill | `Synchronised`, `NothingLost`, `ClientKeeps`, `ServerEnds`, `OnlyOddHangs`, `SessionEnds`, `TypeOK` |
| `TokenParser_contents` | 3 old and 3 new paths, all contents of up to two symbols and 10 others, with zeros, tokens and parts too long for `pathBuffer`, in up to two files | `InStep`, `UpdateWhole`, `FileWhole`, `RestsAfter`, `TurnEnds`, `TypeOK` |
| `Sessions_faults` | 2 clients with a folder each or one between them, one edit, one client falls silent or leaves | `LocksMatch`, `HalfExplained`, `AskedIsGot`, `EveryoneServed`, `TypeOK` |
| `Sessions_alone` | 2 clients with a folder each, 2 edits, in the second a tree remembers too, one client falls silent or leaves | `EditsKept`, `Settles` |

What the last four come to. After an initial synchronisation in which nothing
went wrong both hosts have the same directory, even where the session before was
killed in the middle of a file, with four exceptions: binary files, which lose
bytes; a folder that meets a file, with what is in it; directories with a
file that ends early, which garbles those after it; and, when two sessions fall in
one second, the files with names they gave. Nothing is lost, as the server renames
and does not replace, except that in this last case a renamed file can replace
another. The server ends without a fault over a folder that meets a file, a file
that ends early, or two renames in one second of a folder and a file to one name.
The only ways the two wait for each other are a file whose size is a multiple of
512 and not of 2048, and one that ended early.

On the wire of a round, the updates that arrive unchanged are exactly
`PlainUpdate`, and the new files exactly `PlainFile`, but that one with tokens in
it may not be made at all and an older one of its text stay. Those after which the
receiver is ready for the next message are `KeepsPlace`. After one outside of it
that has no other tokens in it and fits in `pathBuffer` the receiver is not: if it
is the last new file both programs wait for ever, and if another follows the
receiver may find its place again there.

The locks hold apart what `Excludes` says and no more; a session that waits for
one waits for a silent client or for a walk that failed. A client that has its
folder for itself has none of the troubles of those that share one; it comes to
agree with the server unless its user's last edit was made in the second that its
tree remembers (`missed`), which is never sent.

Two runs show the program doing something its documentation denies:

| Run | What happens |
|---|---|
| `Sessions_shared` (`OwnEditStays`) | Two clients, a and b, share a folder and only a's user edits. b fetches the file in its initial synchronisation; its tree does not hold it, so b sends it back as new. While b's session has the file half written, under the lock `dir/` (`serverThread.c:265`), a's own session walks, under `dir/name`, finds another mtime and sends half the file to a, which writes it over the edit. |
| `ServerPool_sigint_two` (`ShutdownCompletes`) | Two sessions end after SIGINT. The first unlocks `thread_m` twice (`serverThread.c:441`), so the handler loses the mutex between its test of `busyThreads` and its wait; the second session's signal falls in between, and the server never exits. The threads have waited before the first client comes. |

### Bounds, and why they are enough

- `Paths`: three. A folder and a file in it are needed for deletions that take
  something along, a second file for changes that do not touch each other, the
  name of the log for its special case. Deeper folders run the same recursion.
- `Data`: two contents, or one and the empty file: a change must be visible.
- `MaxEdits`: two edits make every conflict of two changes, in every order and
  at every point of a round; `SyncMerge_rounds` has four, so that each user can
  change a folder and a file in it in one nap, and a second round starts from
  what the first left. Rounds themselves are not bounded: the models are cyclic.
- `ChanCap`: two messages fill a socket, so writers block; `SyncRound_anything`
  has eight, which is more than a turn's tokens, so that a writer can be far
  ahead of its reader as well.
- `Threads`, `Keys`: three threads so that two wait while one holds; two paths,
  each of which makes the array double when it is added, so that it can move
  under a thread at every place and once more after that.
- `MaxConns`: three clients for two threads, so that the main thread has to
  wait for one; a thread that serves a second client is among the behaviours,
  and so are a first client that comes before any thread waits, and one that
  comes after all do.
- `CHECK_DEADLOCK FALSE` is set for `ServerPool`, which stops when the process has
  exited or no more clients come, for `LockManager`, where a thread that a move
  has caught may hang for ever with all others behind it, for `InitialSync` and
  `Sessions`, where sessions are over or hang (which `OnlyOddHangs` and
  `AskedIsGot` are about), and for `TokenParser`, where a turn ends. In
  `SyncRound` deadlock is checked; `Over` is the one state in which both programs
  have ended.
- `Clients`: two, as a third meets each of the two as they meet each other.
  `MaxEdits` of `Sessions`: two for the edits of a client (`Sessions_alone`,
  `Sessions_shared`), so that an old text and a new one are on their way at once;
  one where the question is who waits for whom. `MaxFaults`: one fault at every
  point of every session.
- `InitDisks` of `InitialSync`: files of 0 to 5 bytes with blocks of 2 and 4
  have every relation of a size to the two blocks; one is a single 0, one ends in
  the marker, one ends early. Files of the server and of both clients at one path,
  a folder of the server where a client has a file, and a file of the server where
  a client has a folder with a folder or a file in it are the ways directories
  disagree there.
  `MaxSessions`: two, so that the second meets what the first left; it begins in
  the second of the first or in the next.
- `Texts` of `TokenParser`: an open and a closing brace with a letter before,
  between or after, a 0, and the token that ends the loop the content is read
  in: each test in the five loops goes both ways. The longer ones go on after
  that token with those that enter another loop, which makes nodes or deletes
  them there. Two files: one that makes the receiver lose its place, and one it
  then misreads. A directory has a node beside the folder, where a path without
  a leading `/` leads. `PathSize` is two, the length of the longest path, so that
  three symbols between braces are too many.

What the passing runs assume, and why: the runs for `RoundConverges`,
`Converges` and `ImplementsMerge` leave out the cases in which the code does not
bring the directories together, each of which is listed in section 5. These are
server edits during a round, the conflict that ends the client
(`ImplementsMerge` has it as the step `DBreak`), a second write within a second
(`SameSecond`), the deletion of a file just fetched (`Fetched` together with a
client that edits), empty files and nodes that change their kind.
`SyncRound_anything` has all of them at once, and the properties of the protocol
hold there. The other passing runs leave no case out in this way: where a second
of the clock, a move of the array, a connection that comes early or an unlock by
another thread makes a difference, the property names it as its exception.
`ServerPool_sigint_two` has SIGINT come while the main thread is in `accept`, so
that its violation is not that of a handler that waits for its own thread.

### Fairness

Weak fairness of each thread or process as a whole, never of single actions:
each is one running thread and goes on when it can; a mutex or a socket that is
not available disables it. Nothing is assumed of users, of clients that may
connect, or of SIGINT. For locks this is weaker than a fair mutex: `Progress`
says that somebody gets the lock, not that each thread does. `FairSpec` of
`LockManager` includes that work under a lock ends, which a silent client can
prevent: that question belongs to `Sessions`, where a thread is not expected to
go on while its client is silent, as its writes may fill the socket. There a
session that asks for a lock gets it if it is free again and again
(`SF_vars(TakeLock(c))`): after every part the session that had it sleeps ten
seconds or waits for its client, and the Linux mutex wakes a waiter. In
`InitialSync` fetcher, provider and the survivor of a kill go on; nothing is
assumed of users, kills, short reads, restarts or of clients that connect.

### Mutants

Each property of a passing run is also run against a changed definition, marked
"Mutant" in the modules: a token that is forgotten, a deletion of what lies
below a folder that is missed, a new file taken for a modified one, a missing
rebuild, a lock that is not taken, an off-by-one in the array, a counter that
is not counted, a wait that is skipped, a file that is removed and not renamed,
a last block that is not marked, a buffer that is not cleared, a flag that is
set without a test, a lock that is not given back. TLC finds each.

## 4. The proofs

All theorems are proved from the assumptions on the constants alone:
`PathsAssumption` (paths are non-empty sequences of names, closed under taking the
folder), `DataAssumption`, `ParameterAssumption`, `ClientAssumption`,
`PoolAssumption`, `SessionAssumption` (a block of the provider is a whole number
of blocks of the fetcher, which hold more than a byte), `TurnAssumption` (what
paths and contents are made of, and that paths fit in `pathBuffer`), and
`DiskAssumption`, which both `InitialSync` and `TokenParser` have (in the one what
leads to a path are folders, and no name has a timestamp at the start; in the
other a directory is one of paths and contents). Threads, keys, paths, contents,
socket and block sizes, clients, directories, who shares a folder with whom, and
the number of edits, sessions and faults are arbitrary. What can happen in the
code and breaks a property is in the models, and the property names it: no theorem
assumes that the array stays where it is, that the pool is ready, that two
sessions fall in different seconds or that contents are of some kind. Only the
theorems about directories at the end of a round have a hypothesis on what users
do (`Calm`, `ClientOnly`).

`SyncRoundProofs`: `TypeCorrect`, `Spec => []TypeOK`, one lemma for each group
of actions; `ParsersAligned` (`Spec => []Aligned`) and `OneWriter`
(`Spec => []TurnTaking`). Neither of these two is inductive: what the next message
may be depends on all that are behind it and on where the writer is. The
invariant `ProtoInv` says that a turn is a script of eight stages, that there is
one writer, that the reader is at some stage of the script and that the messages
in between take it from its stage to the writer's (`Script`, a labelling of the
messages with stages). When a process has exited the same holds of what is left
in the socket (`Gone`). The proof has three facts about scripts: one may be
extended by what the writer says next (`ScriptAppend`), shortened by what the
reader takes (`ScriptTail`), and its stages never go back (`ScriptOrder`); then
`WriterStep`, `ReaderStep` and `ExitStep` cover nearly all actions, and the
places where the turn passes (`ClientTurn`, and `Wake` in `ServerLoopProto`)
use that stage 6 or 7 leaves the socket empty. The second `{DONE_CONTROL}` is
why the script has a stage 7 for the client only: it is read by `handleRequest`
and not by the receive loop.

`SyncMergeProofs`: `RoundsMerge` (`Calm => (Spec => []RoundConverges)`) and
`RoundsImplementMerge` (`Calm => (MSpec => ImplementsMerge)`). `Calm` is what the
runs of these two properties have in common, for any paths, contents and sockets:
edits only in the nap and in different seconds, no empty files, no path that the
server hides, a name that is always a folder's or always a file's, and a client
that has fetched nothing or whose user does not edit. Each condition leaves out a
case of section 5 in which the directories do differ. Both users edit as they
like otherwise, the same paths too.

The merge (`Merge`) is a function of three things: the directory `ag` both had
when the last round ended, the two directories `be` at the end of the nap, and
the files `to` written at the server. The invariant `RoundInv(ag, be, to)` says:

- Between rounds (`Open`) the server's tree is `ag`, the client's too unless it
  has just fetched files, and a file that differs from `ag` has a new mtime.
- While the server writes (`ServerHalf`) its directory is `be["server"]`, and at
  the client each path is as in the merge, or as it was and the change is owed
  (`Owed`): the walk has yet to come to it, or it is in a message on its way, at
  the stage of the script that `ProtoInv`'s labelling gives it. Each message on
  its way is true (`True`): what it says is so at the writer and in the merge, or
  the receiver's disk cannot take it, since the client has deleted the file or
  something above it. Folders come before what is in them (`Sorted`).
- While the client writes (`ClientHalf`) the client's directory is the merge
  already, and the same is owed to the server. So `Half` has the writer, its
  directory, the goal and the reader's start as parameters and is proved for both
  (`WalkHalf`, `ReceiveHalf`).

At the turn (`TurnStep`) nothing is owed any more, because no label is left
below stage 5; that what the server lacks will be owed by the client is where the
tree it had before receiving matters (`ServerLacks`). The lemmas on `Merge` are
about sets: it is a directory again (`MergeProper`), what the client lacks of it
the server's walk finds (`ClientLacks`), and what the server tells is so in it or
has been deleted (`ServerTells`). `Ancestors`, that folders lead to a node, is an
induction over paths done with a shortest path.

For the refinement `Recorded` ties `ag`, `be` and `to` to the history variables.
Edits map to `DEdit`, `Wake` to `DStart`, `Rebuild` to `DMerge` and the client's
exit to `DBreak`; every other step changes nothing `DirectorySync` speaks of
(`MergeStep`). `ConflictExit` shows that the exit happens only over a file the
server wrote and the client deleted, and never at the server. After it `Broken`
holds: nothing is left for the server to read, so no nap begins.

`SyncRoundSurvival`: `ServerOutlives` (`ClientOnly => (Spec => []ServerSurvives)`).
`Calm` is not assumed: the client's user edits at any moment, also between
`readdir` and the list a node is sent in, within a second too, and may have just
fetched anything. `ClientOnly` has what the code needs. Nobody edits at the
server meanwhile (section 5 has what happens otherwise); a name is a folder's or
a file's, since a client that puts a file in the place of a folder sends an
update the server cannot open; and the name of the log is a file's, as a client's
folder of that name is never made at the server and an update of a file in it
ends it.

The server exits on an update of a file it does not have, and on a write to a
client that has exited. An update is sent for a file in the tree the client
remembers. So the invariant `Survives` is about that tree and the server's disk:

- Between rounds and while the server tells (`Known`, `ServerTelling`) every node
  of the client's tree is on the server's disk. The server remembers its own disk
  (`NothingNew`), so it has no update to send and the client does not exit.
- While the client tells (`ClientTelling`) there are the tree o its walk started
  from and the tree n the walk makes, wherever the walk is (`Walking`). Until the
  server has read the last update it still has all of o. What is in n is there
  or is `Coming`: new in n, and in the list of creations, to be written or on its
  way. Each message on its way agrees with o and n, by its stage in the script
  (`Agrees`): an update is of a file of o, a deletion of a node n does not have, a
  creation of one it has. What the disk of the client holds by then is not in the
  invariant: a user may have changed it since the walk.
- `KindsKept`: on the disks, in the trees and in the messages a path has the kind
  of its name, so what the server has at a path is what the client means by it.

With `ServerWalks`, `ClientHears`, `ClientWalks` and `ServerHears` each side's
part is one lemma; `AllCame` is the end of the round, where no label below stage
6 is left and n becomes what is known. The labels and `Sorted` are those of the
merge, and `Told` and `Taken` sum up what a writer and a reader do.

`LockManagerProofs`: all theorems are about an array that may move at each
growth. The invariant `IInv` adds to the types that one thread at a time is in the
list (`ListInv`), that what it searches for is not in the array when it appends
(`ArrayInv`) and that a thread past its search has the slot of its path
(`SlotInv`). From it follow `TypeCorrect`, `DistinctPaths` (`OneMutexPerPath`) and
`WritesInBounds` (`InBounds`), moves or not. `LocksExclude` (`MutualExclusion`)
and `Refinement` (`ImplementsPathMutex`) rest on `HeldInv`: until a move has
caught a thread between reading an address and using it (`caught`), every address
in use is current, a thread inside has its mutex locked, and no two have one slot.
A move that finds nobody there keeps it, as it takes the locked mutexes along.

`SessionsProofs`: `TypeCorrect`, which needs that a session in the middle of a
file has an answer to write (`Answered`). `LocksFollowParts` (`LocksMatch`) is
inductive together with `LeftHeld`: a lock that was left still has a holder, so
that nobody takes it; one lemma each for a lock that is taken, given back, left
or kept. `PartsExclude` (`Excludes`) follows from it alone: two sessions in
parts with the same key would both hold it. `HalvesExplained` (`HalfExplained`)
and `OwnEditsKept` (`EditsKept`) rest on `LoneInv`: of a client that has its
folder for itself, the mtime only ever differs from its session's tree while
that session itself is writing, so nothing is sent back to it. That a write in the
remembered second leaves the mtime as it was does not matter to it: the writes
concerned are those of others, and there are none.

`ServerPoolProofs`: nothing is assumed of who unlocks `thread_m`, so the
invariants say until when it excludes. `TypeCorrect` needs `Signalled`, that a
thread between its signal and the end of its session is marked busy. `Owned` says
that, as long as no unlock has taken `thread_m` from another thread (`~stolen`),
who is between a lock and an unlock holds it; and `Counted` that the counter is
then the number of the threads to count (`ToCount`), and that what somebody has
read of it is still so. This is `CountCorrect` (`BusyCount`).

After the second unlock of an ending thread two threads may count down at once, so
`SessionsOutlive` (`NoSessionFreed`) cannot use it. `Covered` says that then a
count can be lost but none is made twice: the counter, and each value read of it,
is at least the number of the threads to count. It starts from `Counted`, as
before SIGINT nothing has been stolen (`Guarded`; `Fresh` is the time before all
threads have waited, in which unlocks take `thread_m` from nobody). By `Ending` no
thread then has a session when the handler has seen zero, and none gets one, since
the main thread stands still under the handler. `ConnectionsHandedOver`
(`HandOver`) adds `FreeLeft`, that a main thread which was woken finds the free
thread still there. These two speak of `~early`: a connection that comes before
the threads have all waited meets a `thread_m` that is unlocked under its holder.

`InitialSyncProofs`: `TypeCorrect`, where the work is that a rename keeps a
directory a directory, what was below the old name being below the new one
(`MovedDirectory`; `SwapParts` has what exchanging the beginning of a path does).
`ClientsContentKept` (`ClientKeeps`) is a step property and needs the types only.
`NoContentLost` (`NothingLost`) needs an invariant: a rename replaces a file that
has the new name, so it must be that none has. `FreshInv` adds to the types
`Stamps` (no name carries a time in the future) and `Fresh` (unless the session
before was in this second, what a client listed was named earlier, and the new name
of an entry still on the list does not exist), and `Locked`, that processes end in
the session with the folder only. In two sessions of one second (`Hurried`) the
new name may exist; `Replaced` is what the property then excepts: the file to which
the first session gave the name that the second gives now.

One inductive invariant is for three more theorems,
`SessionsSynchronise` (`Synchronised`), `ServerEndsForAReason` (`ServerEnds`) and
`HangsOnlyOverOddSizes` (`OnlyOddHangs`). They speak of the end of a session, so
`Invariant` says what has been done in the middle of one, as far as nothing went
wrong in it (`Live`). It is `FreshInv` and:

- `Lifecycle` and `Remembered`: a session is over only after the client's half;
  what a client remembers of its directory is so until it fetches, as only the
  session under the lock writes.
- `Ended`: a process that has ended was the server, over a folder that met a file,
  a file that ended early, or two renames to one name (`Excused`). For this
  `Shape` has `Requested` (what is asked for is there, and a file).
- `Shape`: while the server fetches, each node of the client is still on the list
  or is on both sides (`Offered`); while the client fetches, each of the server's
  is, and all of the client's are on both sides (`Returned`). `Agreed` has the
  exception for blocked folders. That a folder comes before what is in it, so
  that the folder a file is created in exists, is where the order of the list is
  needed (`HeadFront`).
- `Streams`: where the transfer of a file of content d is. The provider has not
  opened it, has sent m bytes of it, a multiple of its block, or has sent
  `Stream(d)`, which is d with the marker if d fills the last block; the fetcher
  has read n, a multiple of its own; and the socket holds what is between. A read
  in the middle of d takes a block, and one at its end takes the rest, which is
  shorter or, for an odd size, is not recognised as the last (`ReadStep`). That no
  read is short is what it means that nothing went wrong.
- `Contents`: a file that both have is on the list, being read, or the same,
  unless its name is one that two sessions gave in one second (`SameData`).

Files that end early are excluded from `Streams` and `Contents` and not from the
rest. `EarlyStays` says that such a file stays one, as files only grow, so where
there is none at the end of a session there was none in it.

`TokenParserProofs`: `TypeCorrect`, where the text that is written to a file has
to be a text (`CStringParts`), and a file be there to write to. `PlainInStep`
(`Spec => []InStep`) says that the five loops and the two senders agree on the
wire as long as the contents are plain, for any number of files of any length and
any block. `InStep` speaks of the moments between two messages only, so its
inductive invariant `StepInv` names the place the receiver is at while it reads
one (`InPlace`). Since the receiver takes one symbol at a time, a place is not a
position but a split: `Rest(w, x, r)` says that the text w is in the buffer up to
somewhere, that the rest of it is on its way, then the brace x and r. `At(w, r)` is
a text between two braces. Two lemmas then do the work for every loop: a symbol
moves the split, and the brace comes when the buffer is the whole text
(`RestStep`, `AtStep`). A message is a few such places one after the other:

- `UpdatePlace`, `DeletePlace`, `FolderPlace` and `FilePlace` have the flags of
  each loop, and say at which brace the directory becomes what was asked for.
  `FileStep` is where a file of full blocks is seen to be harmless: the token
  after it is read as a path, and the brace after that makes no file of it.
- `Writing` is the content of an update, where a brace may be part of the text:
  what is written, the brace that is not written yet, the buffer and what is on
  its way make up the content. An opening brace is remembered only if the buffer
  is not empty: that the content neither begins with one nor has two in a row is
  needed just here (`WritingStep`).
- `TurnPlace` has the tokens between two phases.

`PlaceWire` ends the argument: when nothing is on its way, the receiver can only
be at rest. Nothing here is an induction over a content, as the invariant holds
at each symbol of one.

`UpdatesWhole` (`Spec => []UpdateWhole`), `FilesWhole` (`Spec => []FileWhole`) and
`PlaceKept` (`Spec => []RestsAfter`) are about contents of any kind, with braces,
zeros and tokens anywhere. What is written then need not be what was sent, and no
split of the content says where the receiver is. Their invariant `FollowInv` says
that, as long as the messages before the last let the receiver keep its place, it
is reading the last (`Going`), has read it (`Done`, with what the properties say
of it), or has lost its place (`Lost`):

- `UpdateGoing`: the content consists of what is read, the buffer and what is on
  its way (`Copying`). What is read and what is written of it are compared by
  `Kept`: all of it is written but for a brace, or too little is, and the content
  is not plain. Too little stays too little, because the rest of the content adds
  at most what it has: this is the one place where lengths are counted
  (`CopyText` to `CopyEnd`).
- `FileGoing`: a new file is made at the first opening brace. What is read from
  there to a closing brace becomes a path, and the next opening brace makes a file
  of it. `Gathered` says what the buffer can be; `Unopened`, `Opened` and
  `Reopened` are before that first brace, before such a path is read, and after.
  `FirstOpen` is the first opening brace that no closing brace has come after:
  what `Settled` says of the whole content is followed there, symbol by symbol. It
  also bounds what the buffer holds by what has come since that brace, so that a
  content that fits (`Fits`) never overruns `pathBuffer`.
- `StuckTop` and `StuckFile`: after a content without other tokens the receiver
  never leaves the loop it is in: the next token is glued to what is before it, or
  the flag of a file stays set, which only `SYNC_DONE` clears. Of a content
  that does not fit nothing is claimed there: the process may have ended.
- `Braceless`: nothing the receiver writes ever has a closing brace in it. This is
  why `UpdateWhole` needs no hypothesis on contents: an update that ends early has
  one, so what is at its path later, even if the tokens in it make the receiver
  write there, is not what was sent.

`FileWhole` asks whether the file can be made in the directory the receiver has
when the message is sent (`CanWrite(old, ..)`), not in the one the messages ask for:
a piece of an earlier content between braces may have been a path of the tree, and
a file made there stand in the way of a folder sent later. What earlier messages
did to the tree is therefore no hypothesis of the theorem.

Only model-checked: every liveness property (`RoundsComplete`, `Converges`,
`Progress`, `AssignedServed`, `SessionEnds`, `TurnEnds`, `AskedIsGot`,
`EveryoneServed`, `Settles`), since the prover does not do fairness. Every
invariant and every action property of a passing run is proved. The provers have
no induction over data: the library's induction theorems cannot be instantiated,
and where a smallest element was needed (the shortest path on a list, the first
byte 0) it comes from the library's theorem that a well-founded set has one.

## 5. Seen in the code

With a run: the two of section 3. Two more are seen when a passing run is given
other constants, named here:

- Server edits during a round are lost (`Converges` with
  `SyncRound_client_edits.cfg` and `Editors = {"server"}`): a write after the
  walk has passed the file and before `handleCase` rebuilds the tree from the
  disk (`serverThread.c:271`) is remembered without having been sent.
- A client that has gone takes the server with it (`ServerSurvives` with both
  hosts in `Editors`): the server writes a file, the client deletes it, the
  client exits on the update (`syncCheckReceive.c:151`) and the server's next
  write raises SIGPIPE.

Described by a passing property, most as its exception:

- Locks get lost when `realloc` moves the array (`caught` in `MutualExclusion`,
  `Progress` and `ImplementsPathMutex`): `lockManager.c:21` uses an address it
  read before, so the lock or the unlock goes to the old block.
- An early client is never served (`early` and `missed` in `AssignedServed`): the
  signal is sent before the thread waits (`BibakBOXServer.c:159`). A thread's
  first wait also unlocks `thread_m`, whoever has it.
- Two threads that end after SIGINT can both be at `busyThreads--`, and one count
  is lost (`stolen` in `BusyCount`; `serverThread.c:326`, `441`). The handler
  then waits for ever; it ends too soon only after an early client (`NoSessionFreed`).
- A new or updated file with certain braces, or a file of a multiple of 2048
  bytes (zero included), arrives changed (`UpdateWhole`, `FileWhole`): an update
  then ends with the text `EMPTY_FILE`. A created file with an opening brace
  glues its rest to the next token (`syncCheckReceive.c:431`). If it is the last
  new file `SYNC_CREATE_DONE` is then not understood and both programs wait for
  ever; if another follows, the receiver finds its place again in that one.
  A piece between braces may become a path, and a file appear beside the folder.
  A token between braces is taken for one: an update that has `SYNC_DONE` there
  ends (`syncCheckReceive.c:239`), and what follows is read as the next tokens;
  a new file that has it there, or `SYNC_FILE` or `SYNC_FOLDER`, changes the flags
  (`syncCheckReceive.c:482`, `RestsAfter`).
- More than 255 characters between two braces of a new file overrun `pathBuffer`
  (`syncCheckReceive.c:427`, `511`; `Fits` in `RestsAfter`).
- A file whose size is a multiple of 512 and not of 2048 stops the initial
  synchronisation for ever, and with it the lock of its folder
  (`fileOperations.c:109`, `OnlyOddHangs`).
- Files with a byte 0 are cut at it, block by block. If it is the last of a full
  block, or a block reads as the marker, the transfer ends there and the rest is
  taken for the next file, or ends the server (`fileOperations.c:100`, `109`,
  `HasEarly` in `Synchronised`, `ServerEnds` and `OnlyOddHangs`).
- A client that leaves during the initial synchronisation, a file removed during
  it, and a client's folder where the server has a file each end the server
  (`commonSyncFile.c:124`, `commonSyncFile.c:72`, `fileOperations.c:57`).
- Two sessions that rename within one second give the same names
  (`fileOperations.c:147`): a renamed file replaces the one of the session before
  (`Replaced` in `NothingLost`), which the first client may have under that name
  (`GivenNow` in `Synchronised`). The rename of a file to the name of a folder, or
  of a folder to that of a file or of a folder with something in it, fails; where
  the client has a file, `open` fails next and the server ends (`Clash` in
  `ServerEnds`).
- A session receives under the lock of the whole directory
  (`serverThread.c:266`): a silent client stops all sessions (`AskedIsGot`).
- Two clients that share a folder send each other's updates back without end,
  and a rebuild between the other's write and this session's walk swallows a
  change: `Settles` and `EditsKept` hold for clients that share with nobody.
- A second write in the second that a tree remembers leaves the mtime as it is and
  is not sent (`syncCheckSendCommon.c:221`; `missed` in `Settles`).

Without a property:

- What the client fetched at the start is not in its tree
  (`BibakBOXClient.c:161-164`): when its user deletes a fetched file in the
  first nap, the deletion is never sent and the server keeps the file.
- A client's file named `log.txt` overwrites the server's log.
- A file that becomes a folder between two walks is not sent at all; a folder
  that becomes a file is sent as an update, on which the receiver exits, since
  it cannot open its folder for writing.
- `fileName` is freed twice at the end of every session (`serverThread.c:165` and
  `67-69`).
- The SIGINT handler locks `thread_m` (`BibakBOXServer.c:177`), which the main
  thread it interrupts may hold.
- After SIGINT the next request of any session exits the process, in the middle
  of the transfers of the others (`serverThread.c:180-184`).
- At end of file `handleRequest` loops for ever on the last character.
- The client never sends `{EXIT}`: the line that does is behind an endless loop.
- Accepted descriptors are duplicated and never closed.
- A full block is followed by a write one byte past its buffer
  (`fileOperations.c:99`, `commonSyncFile.c:85`, `syncCheckSendCommon.c:292`).
- The log is opened without `O_APPEND` (`serverThread.c:145`): sessions write
  over each other's lines.

## 6. Not modelled, and what could follow

- Two sessions in the middle of one tree: `Sessions` has one file per folder and
  `SyncRound` one session. The rounds of two sessions on whole directories are
  the product of the two.
- What tokens in a content do after it has cost the receiver its place:
  `RestsAfter` says nothing of these but that they are among the contents outside
  of `KeepsPlace`.
- Paths over 254 characters. The loops of updates and deletions and
  `handleSyncGetRequests` refuse them and keep them in their buffers, so that the
  next token is appended to them; `createReceiveFile` does not look at the length.

Not planned: arguments, socket set-up, printing and `common.c`, which keep no
state of their own; the text of the log; allocation failures, all of which
exit; `destroyArray`, which runs after the threads have ended.
