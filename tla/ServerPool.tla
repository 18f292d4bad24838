----------------------------- MODULE ServerPool -----------------------------
(***************************************************************************)
(* The server process: the main thread accepts connections and hands each  *)
(* to a free thread of a fixed pool, the threads serve them, and SIGINT    *)
(* runs a handler, on top of whatever the main thread was doing, that      *)
(* waits for the sessions, ends the threads and exits (BibakBOXServer.c,   *)
(* serverThread.c).                                                        *)
(*                                                                         *)
(* thread_m guards the pool. It is a normal pthread mutex: an unlock frees *)
(* it whoever holds it, and the code unlocks it in two places without      *)
(* holding it. pthread_cond_signal wakes the waiter or is lost. A change   *)
(* of busyThreads is a read and a write, as two threads can be at it once. *)
(***************************************************************************)
EXTENDS Integers, FiniteSets

CONSTANTS
  threadPoolSize,   (* The number of threads in the pool.                    *)
  MaxConns,         (* Bound: how many clients connect.                      *)
  SigintAnywhere    (* TRUE: SIGINT may come while the main thread holds     *)
                    (* thread_m; FALSE: it comes while main is in accept.    *)

ASSUME PoolAssumption ==
  /\ threadPoolSize \in Nat \ {0} /\ MaxConns \in Nat
  /\ SigintAnywhere \in BOOLEAN

Workers == 1 .. threadPoolSize
Conns == 1 .. MaxConns
Nobody == 0
MainThread == threadPoolSize + 1
Threads == Workers \cup {MainThread}

VARIABLES
  thread_m,      (* Who holds it: nobody, a worker, or main (or its handler). *)
  busyThreads,   (* The threads that have a client, as counted.              *)
  seen,          (* seen[t]: busyThreads as t read it, to write it changed.  *)
  serverWait,    (* The main thread waits for a thread.                      *)
  isSIGINT,      (* SIGINT has come.                                         *)
  isBusy,        (* isBusy[w]: w has been given a client.                    *)
  fd,            (* fd[w]: the last connection given to w, 0 for none.       *)
  fileName,      (* fileName[w]: "null", "set" or "freed" (dangling).        *)
  accepted,      (* How many connections have been accepted.                 *)
  served,        (* The connections whose session a thread has started.      *)
  main,          (* Where the main thread is.                                *)
  slot,          (* The thread it has found for the connection.              *)
  handler,       (* Where sigIntHandlerMain is; "none" before SIGINT.        *)
  victim,        (* The thread the handler is ending.                        *)
  cancelled,     (* The threads it has cancelled.                            *)
  pc,            (* pc[w]: where worker w is.                                *)
  process,       (* "up", "exited" or "aborted".                             *)
  (* History, which no step depends on:                                      *)
  early,         (* A connection came before the threads all waited.         *)
  missed,        (* The connections given to a thread that did not wait.     *)
  stolen         (* An unlock has taken thread_m from another that held it.  *)

poolVars == << thread_m, busyThreads, seen, serverWait, isBusy, fd, fileName >>
mainVars == << accepted, main, slot >>
endVars == << handler, victim, cancelled, isSIGINT >>
history == << early, missed, stolen >>
vars == << poolVars, mainVars, endVars, served, pc, process, history >>

(* The handler never returns: the main thread is frozen under it.          *)
MainRuns == process = "up" /\ handler = "none"
HandlerRuns == process = "up"
At(w, l) == process = "up" /\ pc[w] = l
Goto(w, l) == pc' = [pc EXCEPT ![w] = l]

(* thread_m is locked when nobody holds it, and unlocked in any case.      *)
Lock(t) == thread_m = Nobody /\ thread_m' = t
Unlock(t) ==
  /\ thread_m' = Nobody
  /\ stolen' = IF thread_m \in {Nobody, t} THEN stolen ELSE TRUE

(* The two halves of busyThreads++ and busyThreads--.                      *)
Read(t) ==
  /\ seen' = [seen EXCEPT ![t] = busyThreads]
  /\ UNCHANGED busyThreads
Write(t, n) ==
  /\ busyThreads' = seen[t] + n
  /\ seen' = [seen EXCEPT ![t] = 0]

-----------------------------------------------------------------------------
(* createThreadList has made the threads, which run or are about to; the   *)
(* socket listens already.                                                 *)
Init ==
  /\ thread_m = Nobody
  /\ busyThreads = 0 /\ serverWait = FALSE /\ isSIGINT = FALSE
  /\ seen = [t \in Threads |-> 0]
  /\ isBusy = [w \in Workers |-> FALSE]
  /\ fd = [w \in Workers |-> 0]
  /\ fileName = [w \in Workers |-> "null"]
  /\ accepted = 0 /\ served = {}
  /\ main = "accept" /\ slot = 1
  /\ handler = "none" /\ victim = 1 /\ cancelled = {}
  /\ pc = [w \in Workers |-> "top"]
  /\ process = "up"
  /\ early = FALSE /\ missed = {} /\ stolen = FALSE

-----------------------------------------------------------------------------
(* The main thread.                                                        *)

Accept ==
  /\ MainRuns /\ main = "accept" /\ accepted < MaxConns
  /\ accepted' = accepted + 1
  /\ main' = "lock"
  /\ UNCHANGED << poolVars, endVars, slot, served, pc, process, history >>

LockMain ==
  /\ MainRuns /\ main = "lock" /\ Lock(MainThread)
  /\ main' = "check"
  /\ early' = (early \/ \E w \in Workers : pc[w] \in {"top", "enter"})
  /\ UNCHANGED << busyThreads, seen, serverWait, isBusy, fd, fileName,
                  accepted, slot, endVars, served, pc, process, missed,
                  stolen >>

(* waitAwailableThreadIfNecessary: all threads are busy, wait once.        *)
WaitThread ==
  /\ MainRuns /\ main = "check" /\ busyThreads = threadPoolSize
  /\ serverWait' = TRUE
  /\ Unlock(MainThread)
  /\ main' = "wait"
  /\ UNCHANGED << busyThreads, seen, isBusy, fd, fileName, accepted, slot,
                  endVars, served, pc, process, early, missed >>

ThreadAvailable ==
  /\ MainRuns /\ main = "woken" /\ Lock(MainThread)
  /\ serverWait' = FALSE
  /\ main' = "find"
  /\ UNCHANGED << busyThreads, seen, isBusy, fd, fileName, accepted, slot,
                  endVars, served, pc, process, history >>

NoWait ==
  /\ MainRuns /\ main = "check" /\ busyThreads # threadPoolSize
  /\ main' = "find"
  /\ UNCHANGED << poolVars, accepted, slot, endVars, served, pc, process,
                  history >>

(* findAvailableThreadAndAssign: the first free thread is marked busy and  *)
(* counted, gets the connection and is signalled.                          *)
FirstFree(w) == ~isBusy[w] /\ \A v \in 1 .. w - 1 : isBusy[v]

Find(w) ==
  /\ MainRuns /\ main = "find" /\ FirstFree(w)
  /\ isBusy' = [isBusy EXCEPT ![w] = TRUE]
  /\ slot' = w
  /\ main' = "read"
  /\ UNCHANGED << thread_m, busyThreads, seen, serverWait, fd, fileName,
                  accepted, endVars, served, pc, process, history >>

(* No thread is free: the loop ends and the connection is forgotten.       *)
FindNone ==
  /\ MainRuns /\ main = "find" /\ \A w \in Workers : isBusy[w]
  /\ main' = "unlock"
  /\ UNCHANGED << poolVars, accepted, slot, endVars, served, pc, process,
                  history >>

ReadMain ==
  /\ MainRuns /\ main = "read"
  /\ Read(MainThread)
  /\ main' = "write"
  /\ UNCHANGED << thread_m, serverWait, isBusy, fd, fileName, accepted, slot,
                  endVars, served, pc, process, history >>

(* Mutant: the thread that was found is not counted.                       *)
WriteMainUncounted ==
  /\ MainRuns /\ main = "write"
  /\ Write(MainThread, 0)
  /\ main' = "assign"
  /\ UNCHANGED << thread_m, serverWait, isBusy, fd, fileName, accepted, slot,
                  endVars, served, pc, process, history >>

WriteMain ==
  /\ MainRuns /\ main = "write"
  /\ Write(MainThread, 1)
  /\ main' = "assign"
  /\ UNCHANGED << thread_m, serverWait, isBusy, fd, fileName, accepted, slot,
                  endVars, served, pc, process, history >>

Assign ==
  /\ MainRuns /\ main = "assign"
  /\ fd' = [fd EXCEPT ![slot] = accepted]
  /\ IF pc[slot] = "wait"
     THEN Goto(slot, "woken") /\ UNCHANGED missed
     ELSE missed' = missed \cup {accepted} /\ UNCHANGED pc
  /\ main' = "unlock"
  /\ UNCHANGED << thread_m, busyThreads, seen, serverWait, isBusy, fileName,
                  accepted, slot, endVars, served, process, early, stolen >>

UnlockMain ==
  /\ MainRuns /\ main = "unlock" /\ Unlock(MainThread)
  /\ main' = "accept"
  /\ UNCHANGED << busyThreads, seen, serverWait, isBusy, fd, fileName,
                  accepted, slot, endVars, served, pc, process, early, missed >>

-----------------------------------------------------------------------------
(* A worker: socketThread.                                                 *)

(* The top of the loop frees fileName once more: the allocator aborts, or  *)
(* does not notice.                                                        *)
Top(w) ==
  /\ At(w, "top")
  /\ fileName' = [fileName EXCEPT ![w] = "null"]
  /\ Goto(w, "enter")
  /\ process' \in IF fileName[w] = "freed" THEN {"up", "aborted"} ELSE {"up"}
  /\ UNCHANGED << thread_m, busyThreads, seen, serverWait, isBusy, fd,
                  mainVars, endVars, served, history >>

(* pthread_cond_wait on the thread's condition frees thread_m: the first   *)
(* time the thread does not hold it.                                       *)
EnterWait(w) ==
  /\ At(w, "enter") /\ Unlock(w)
  /\ Goto(w, "wait")
  /\ UNCHANGED << busyThreads, seen, serverWait, isBusy, fd, fileName,
                  mainVars, endVars, served, process, early, missed >>

(* Woken: it has thread_m for a moment, and goes to read the folder's name.*)
StartSession(w) ==
  /\ At(w, "woken") /\ thread_m = Nobody
  /\ served' = served \cup {fd[w]}
  /\ Goto(w, "name")
  /\ UNCHANGED << poolVars, mainVars, endVars, process, history >>

SetFileName(w) ==
  /\ At(w, "name")
  /\ fileName' = [fileName EXCEPT ![w] = "set"]
  /\ Goto(w, "request")
  /\ UNCHANGED << thread_m, busyThreads, seen, serverWait, isBusy, fd,
                  mainVars, endVars, served, process, history >>

(* handleRequest: {SYNC}, {DONE_CONTROL} or {EXIT}.                        *)
Request(w) ==
  /\ At(w, "request") /\ ~isSIGINT
  /\ \E l \in {"sync", "nap", "done"} : Goto(w, l)
  /\ UNCHANGED << poolVars, mainVars, endVars, served, process, history >>

(* handleRequest after SIGINT: exit, the whole process with it.            *)
RequestExits(w) ==
  /\ At(w, "request") /\ isSIGINT
  /\ process' = "exited"
  /\ UNCHANGED << poolVars, mainVars, endVars, served, pc, history >>

(* handleCase: the initial synchronisation, the nap, the round, which ends *)
(* the session when {DONE_CONTROL} cannot be written.                      *)
SyncDone(w) ==
  /\ At(w, "sync")
  /\ Goto(w, "request")
  /\ UNCHANGED << poolVars, mainVars, endVars, served, process, history >>

NapOver(w) ==
  /\ At(w, "nap")
  /\ Goto(w, IF isSIGINT THEN "done" ELSE "round")
  /\ UNCHANGED << poolVars, mainVars, endVars, served, process, history >>

RoundDone(w) ==
  /\ At(w, "round")
  /\ Goto(w, "request") \/ Goto(w, "done")
  /\ UNCHANGED << poolVars, mainVars, endVars, served, process, history >>

LockEnd(w) ==
  /\ At(w, "done") /\ Lock(w)
  /\ Goto(w, "end")
  /\ UNCHANGED << busyThreads, seen, serverWait, isBusy, fd, fileName,
                  mainVars, endVars, served, process, history >>

(* handleSIGINTIfSignalArrived finds no SIGINT, and                        *)
(* sendSignalIfMainThreadWaiting wakes the main thread if it waits.        *)
EndSession(w) ==
  /\ At(w, "end") /\ ~isSIGINT
  /\ main' = IF serverWait /\ main = "wait" THEN "woken" ELSE main
  /\ Goto(w, "read")
  /\ UNCHANGED << poolVars, accepted, slot, endVars, served, process, history >>

(* handleSIGINTIfSignalArrived finds it: the thread will end.              *)
EndOnSigint(w) ==
  /\ At(w, "end") /\ isSIGINT
  /\ Goto(w, "leaveRead")
  /\ UNCHANGED << poolVars, mainVars, endVars, served, process, history >>

(* busyThreads--, in either case, ...                                      *)
ReadBusy(w) ==
  /\ \/ At(w, "read") /\ Goto(w, "write")
     \/ At(w, "leaveRead") /\ Goto(w, "leaveWrite")
  /\ Read(w)
  /\ UNCHANGED << thread_m, serverWait, isBusy, fd, fileName, mainVars,
                  endVars, served, process, history >>

WriteBusy(w) ==
  /\ \/ At(w, "write") /\ Goto(w, "clear")
     \/ At(w, "leaveWrite") /\ Goto(w, "leaveClear")
  /\ Write(w, -1)
  /\ UNCHANGED << thread_m, serverWait, isBusy, fd, fileName, mainVars,
                  endVars, served, process, history >>

(* ... then isBusy = 0.                                                    *)
ClearBusy(w) ==
  /\ \/ At(w, "clear") /\ Goto(w, "free")
     \/ At(w, "leaveClear") /\ Goto(w, "tell")
  /\ isBusy' = [isBusy EXCEPT ![w] = FALSE]
  /\ UNCHANGED << thread_m, busyThreads, seen, serverWait, fd, fileName,
                  mainVars, endVars, served, process, history >>

(* Mutant: thread_m is unlocked before the thread waits again.             *)
FreeNameUnlocked(w) ==
  /\ At(w, "free") /\ Unlock(w)
  /\ fileName' = [fileName EXCEPT ![w] = "freed"]
  /\ Goto(w, "top")
  /\ UNCHANGED << busyThreads, seen, serverWait, isBusy, fd, mainVars,
                  endVars, served, process, early, missed >>

(* Back to the top, with thread_m.                                         *)
FreeName(w) ==
  /\ At(w, "free")
  /\ fileName' = [fileName EXCEPT ![w] = "freed"]
  /\ Goto(w, "top")
  /\ UNCHANGED << thread_m, busyThreads, seen, serverWait, isBusy, fd,
                  mainVars, endVars, served, process, history >>

(* After SIGINT: tell the handler, unlock, pthread_exit ...                *)
TellHandler(w) ==
  /\ At(w, "tell")
  /\ handler' = IF handler = "wait" THEN "relock" ELSE handler
  /\ Goto(w, "unlock")
  /\ UNCHANGED << poolVars, mainVars, victim, cancelled, isSIGINT, served,
                  process, history >>

UnlockEnd(w) ==
  /\ At(w, "unlock") /\ Unlock(w)
  /\ Goto(w, "cleanup")
  /\ UNCHANGED << busyThreads, seen, serverWait, isBusy, fd, fileName,
                  mainVars, endVars, served, process, early, missed >>

(* ... and cleanupHandlerThreads unlocks thread_m once more.               *)
Cleanup(w) ==
  /\ At(w, "cleanup") /\ Unlock(w)
  /\ Goto(w, "gone")
  /\ UNCHANGED << busyThreads, seen, serverWait, isBusy, fd, fileName,
                  mainVars, endVars, served, process, early, missed >>

(* A cancelled thread leaves its wait with thread_m, which the cleanup     *)
(* handler unlocks.                                                        *)
CancelWait(w) ==
  /\ At(w, "wait") /\ w \in cancelled /\ thread_m = Nobody
  /\ Goto(w, "gone")
  /\ UNCHANGED << poolVars, mainVars, endVars, served, process, history >>

-----------------------------------------------------------------------------
(* SIGINT, and sigIntHandlerMain.                                          *)

Sigint ==
  /\ MainRuns
  /\ SigintAnywhere \/ main = "accept"
  /\ isSIGINT' = TRUE
  /\ handler' = "lock"
  /\ UNCHANGED << poolVars, mainVars, victim, cancelled, served, pc, process,
                  history >>

HandlerLock ==
  /\ HandlerRuns /\ handler \in {"lock", "relock"} /\ Lock(MainThread)
  /\ handler' = "check"
  /\ UNCHANGED << busyThreads, seen, serverWait, isBusy, fd, fileName,
                  mainVars, victim, cancelled, isSIGINT, served, pc, process,
                  history >>

(* A session is still running: the decision to wait ...                    *)
SessionsLeft ==
  /\ HandlerRuns /\ handler = "check" /\ busyThreads # 0
  /\ handler' = "enter"
  /\ UNCHANGED << poolVars, mainVars, victim, cancelled, isSIGINT, served, pc,
                  process, history >>

(* ... and the wait itself, which unlocks thread_m.                        *)
HandlerWait ==
  /\ HandlerRuns /\ handler = "enter" /\ Unlock(MainThread)
  /\ handler' = "wait"
  /\ UNCHANGED << busyThreads, seen, serverWait, isBusy, fd, fileName,
                  mainVars, victim, cancelled, isSIGINT, served, pc, process,
                  early, missed >>

(* Mutant: the threads are ended without waiting for their sessions.       *)
AllEndedAnyway ==
  /\ HandlerRuns /\ handler = "check"
  /\ handler' = "cancel"
  /\ UNCHANGED << poolVars, mainVars, victim, cancelled, isSIGINT, served, pc,
                  process, history >>

AllEnded ==
  /\ HandlerRuns /\ handler = "check" /\ busyThreads = 0
  /\ handler' = "cancel"
  /\ UNCHANGED << poolVars, mainVars, victim, cancelled, isSIGINT, served, pc,
                  process, history >>

(* For every thread: cancel, unlock, join, free what it had, lock again.   *)
Cancel ==
  /\ HandlerRuns /\ handler = "cancel" /\ Unlock(MainThread)
  /\ cancelled' = cancelled \cup {victim}
  /\ handler' = "join"
  /\ UNCHANGED << busyThreads, seen, serverWait, isBusy, fd, fileName,
                  mainVars, victim, isSIGINT, served, pc, process, early,
                  missed >>

(* Mutant: the loop over the threads goes one too far.                     *)
JoinTooFar ==
  /\ HandlerRuns /\ handler = "join" /\ pc[victim] = "gone"
  /\ Lock(MainThread)
  /\ IF victim > threadPoolSize
     THEN process' = "exited" /\ UNCHANGED << victim, handler >>
     ELSE victim' = victim + 1 /\ handler' = "cancel" /\ UNCHANGED process
  /\ UNCHANGED << busyThreads, seen, serverWait, isBusy, fd, fileName,
                  mainVars, cancelled, isSIGINT, served, pc, history >>

(* The thread has gone; after the last one the process exits.              *)
Join ==
  /\ HandlerRuns /\ handler = "join" /\ pc[victim] = "gone"
  /\ Lock(MainThread)
  /\ IF victim = threadPoolSize
     THEN process' = "exited" /\ UNCHANGED << victim, handler >>
     ELSE victim' = victim + 1 /\ handler' = "cancel" /\ UNCHANGED process
  /\ UNCHANGED << busyThreads, seen, serverWait, isBusy, fd, fileName,
                  mainVars, cancelled, isSIGINT, served, pc, history >>

-----------------------------------------------------------------------------
Main ==
  \/ LockMain \/ WaitThread \/ ThreadAvailable \/ NoWait \/ FindNone
  \/ ReadMain \/ WriteMain \/ Assign \/ UnlockMain
  \/ \E w \in Workers : Find(w)

Worker(w) ==
  \/ Top(w) \/ EnterWait(w) \/ StartSession(w) \/ SetFileName(w)
  \/ Request(w) \/ RequestExits(w) \/ SyncDone(w) \/ NapOver(w) \/ RoundDone(w)
  \/ LockEnd(w) \/ EndSession(w) \/ EndOnSigint(w) \/ ReadBusy(w)
  \/ WriteBusy(w) \/ ClearBusy(w) \/ FreeName(w) \/ TellHandler(w)
  \/ UnlockEnd(w) \/ Cleanup(w) \/ CancelWait(w)

Handler == HandlerLock \/ SessionsLeft \/ HandlerWait \/ AllEnded \/ Cancel \/ Join

Next == Accept \/ Sigint \/ Main \/ Handler \/ \E w \in Workers : Worker(w)

Spec == Init /\ [][Next]_vars

(* Every thread runs when it can, and a client goes on with its session.   *)
(* Nothing makes a client connect, or SIGINT come.                         *)
FairSpec ==
  /\ Spec
  /\ WF_vars(Main) /\ WF_vars(Handler)
  /\ \A w \in Workers : WF_vars(Worker(w))

-----------------------------------------------------------------------------
(* Type invariant: every variable has its type.                            *)
Flags ==
  /\ serverWait \in BOOLEAN /\ isSIGINT \in BOOLEAN
  /\ early \in BOOLEAN /\ stolen \in BOOLEAN

TypeOK ==
  /\ Flags
  /\ thread_m \in {Nobody} \cup Threads
  /\ busyThreads \in Int /\ seen \in [Threads -> Int]
  /\ isBusy \in [Workers -> BOOLEAN]
  /\ fd \in [Workers -> {0} \cup Conns]
  /\ fileName \in [Workers -> {"null", "set", "freed"}]
  /\ accepted \in 0 .. MaxConns /\ served \subseteq Conns
  /\ main \in {"accept", "lock", "check", "wait", "woken", "find", "read",
               "write", "assign", "unlock"}
  /\ slot \in Workers
  /\ handler \in {"none", "lock", "relock", "check", "enter", "wait", "cancel",
                 "join"}
  /\ victim \in Workers /\ cancelled \subseteq Workers
  /\ pc \in [Workers -> {"top", "enter", "wait", "woken", "name", "request",
                         "sync", "nap", "round", "done", "end", "read",
                         "write", "clear", "free", "leaveRead", "leaveWrite",
                         "leaveClear", "tell", "unlock", "cleanup", "gone"}]
  /\ process \in {"up", "exited", "aborted"}
  /\ missed \subseteq Conns

InSession(w) == pc[w] \in {"name", "request", "sync", "nap", "round", "done"}
Free == {w \in Workers : ~isBusy[w]}

(* From its signal on until it has counted itself down.                    *)
Counting(w) ==
  InSession(w) \/ pc[w] \in {"woken", "end", "read", "write", "leaveRead",
                             "leaveWrite"}
Marked == Workers \ Free

(* The threads between a mark and its count: marked by main and not yet    *)
(* counted up, or counted down and still marked.                           *)
Uncounted ==
  {w \in Workers : \/ main \in {"read", "write"} /\ slot = w
                   \/ pc[w] \in {"clear", "leaveClear"}}

(* The counter that main and the SIGINT handler decide by and the marks    *)
(* agree, up to the threads that are between the two statements, through   *)
(* all ends of sessions and SIGINT, for as long as no unlock has taken     *)
(* thread_m from a thread that held it (the second unlock of an ending     *)
(* thread does, and a first wait beside a connection that came early):     *)
(* neither of the two ends of a session counts twice or not at all.        *)
BusyCount == ~stolen => busyThreads = Cardinality(Marked \ Uncounted)

(* When the main thread comes to hand out a connection there is a free     *)
(* thread, though it waits for one at most once, and every free thread is  *)
(* waiting for its signal: no connection is forgotten, none is handed to a *)
(* thread that does not look - until a connection has come before the      *)
(* threads all waited for the first time.                                  *)
HandOver ==
  MainRuns /\ main = "find" /\ ~early =>
    Free # {} /\ \A w \in Free : pc[w] = "wait"

(* The handler cancels no thread that has a session to begin, to serve or  *)
(* to count down, also when the second unlock of thread_m has let two      *)
(* ending threads count down at once and one of the two counts is lost -   *)
(* until a connection has come before the threads all waited for the first *)
(* time.                                                                   *)
NoSessionFreed == ~early => \A w \in cancelled : ~Counting(w)

(* A connection that is handed to a thread gets its session (SIGINT and    *)
(* the end of the process excepted). The one signal that is lost is that   *)
(* to a thread which did not wait yet, once a connection has come before   *)
(* the threads all waited for the first time.                              *)
AssignedServed ==
  \A w \in Workers, c \in Conns :
    fd[w] = c ~> \/ c \in served \/ (early /\ c \in missed)
                \/ isSIGINT \/ process # "up"

(* After SIGINT the process comes to an end, where the threads all waited  *)
(* before the first connection came.                                       *)
ShutdownCompletes == isSIGINT /\ ~early ~> process # "up"
=============================================================================
