------------------------------ MODULE Sessions ------------------------------
(***************************************************************************)
(* The sessions of several clients, as the locks and the directory see     *)
(* them. Every session is a thread that goes through the initial           *)
(* synchronisation and then through rounds, and takes the lock of a path   *)
(* around each part (serverThread.c, syncCheckSendServer.c). Clients may   *)
(* share a folder, and may fall silent or leave at any time.               *)
(*                                                                         *)
(* A folder is one file, with the text some client's user gave it. What a  *)
(* round makes of a whole directory is SyncRound's question, and how a     *)
(* lock works LockManager's; here a lock is as PathMutex says.             *)
(***************************************************************************)
EXTENDS Naturals, FiniteSets

CONSTANTS
  Clients,      (* Each has a thread of the pool for its session.            *)
  InitFolders,  (* Which folder each client has: functions from Clients.     *)
  Editors,      (* The clients whose users edit.                             *)
  MaxEdits,     (* Bound: how often they do.                                 *)
  MaxFaults,    (* Bound: how many clients fall silent or leave.             *)
  WriteFails    (* What a write to a client that has left may do, other than *)
                (* succeed: "signal", since nothing handles SIGPIPE, and     *)
                (* "error", where SIGPIPE was ignored when the server began. *)

Nobody == "nobody"

ASSUME ClientAssumption ==
  /\ Editors \subseteq Clients /\ Nobody \notin Clients
  /\ \A f \in InitFolders : DOMAIN f = Clients
  /\ MaxEdits \in Nat /\ MaxFaults \in Nat
  /\ WriteFails \subseteq {"signal", "error"}

VARIABLES
  folder,   (* folder[c]: never changes.                                     *)
  pc,       (* pc[c]: where the session is.                                  *)
  holder,   (* holder[k]: the session that holds the lock k, or Nobody.      *)
  left,     (* The locks whose holder has returned without unlockLock.       *)
  client,   (* client[c]: "up", "silent" (neither reads nor writes) or       *)
            (* "gone" (its socket is closed).                                *)
  turn,     (* turn[c]: who is to send: "server", "client", or "sent" when   *)
            (* all the client has sent is on its way.                        *)
  file,     (* file[f]: the text of the server's file in folder f.           *)
  differs,  (* differs[c]: its mtime is not the one in the session's tree.   *)
  copy,     (* copy[c]: the text of the client's file.                       *)
  edited,   (* edited[c]: its mtime is not the one in the client's tree.     *)
  fresh,    (* The clients and,                                              *)
  late,     (* the sessions whose tree has an mtime that may be of the       *)
            (* present second: mtimes are compared in whole seconds, and a   *)
            (* write of that second is no change to them.                    *)
  missed,   (* History: the clients whose last edit was made so.             *)
  update,   (* update[c]: the text on its way to the client.                 *)
  answer,   (* answer[c]: the text on its way from the client.               *)
  edits,    (* How often users have edited; the last text.                   *)
  faults,   (* How many clients have fallen silent or left.                  *)
  process   (* "up", or "down": the server has ended.                        *)

locks == << holder, left >>
server == << file, differs, late >>
clients == << client, turn, copy, edited, update, answer, fresh, missed >>
bounds == << edits, faults >>
vars == << folder, pc, locks, server, clients, bounds, process >>

NoFile == 0
Half == MaxEdits + 1       (* A file that is being written.                 *)
Nothing == MaxEdits + 2    (* No message.                                   *)
Texts == 0 .. MaxEdits + 1

(* The paths the session locks: its folder's, written with two slashes for *)
(* the initial synchronisation and with one for the walk, and that of the  *)
(* server's directory to receive.                                          *)
SyncKey(c) == << "dir//", folder[c] >>
WalkKey(c) == << "dir/", folder[c] >>
ReceiveKey(c) == << "dir/", "" >>

Keys == {SyncKey(c) : c \in Clients} \cup {WalkKey(c) : c \in Clients}
          \cup {ReceiveKey(c) : c \in Clients}

Asks == {"askSync", "askWalk", "askCreate", "askReceive"}
KeyAsked(c) == CASE pc[c] = "askSync" -> SyncKey(c)
                 [] pc[c] \in {"askWalk", "askCreate"} -> WalkKey(c)
                 [] pc[c] = "askReceive" -> ReceiveKey(c)

Init ==
  /\ folder \in InitFolders
  /\ pc = [c \in Clients |-> "new"]
  /\ holder = [k \in Keys |-> Nobody] /\ left = {}
  /\ client = [c \in Clients |-> "up"] /\ turn = [c \in Clients |-> "server"]
  /\ file = [f \in {folder[c] : c \in Clients} |-> NoFile]
  /\ differs = [c \in Clients |-> FALSE]
  /\ copy = [c \in Clients |-> NoFile] /\ edited = [c \in Clients |-> FALSE]
  /\ update = [c \in Clients |-> Nothing]
  /\ answer = [c \in Clients |-> Nothing]
  /\ fresh = {} /\ late = {} /\ missed = {}
  /\ edits = 0 /\ faults = 0 /\ process = "up"

At(c, l) == process = "up" /\ pc[c] = l
Goto(c, l) == pc' = [pc EXCEPT ![c] = l]
Lock(k, c) == holder' = [holder EXCEPT ![k] = c] /\ UNCHANGED left
Unlock(k) == holder' = [holder EXCEPT ![k] = Nobody] /\ UNCHANGED left

(* Somebody writes the file of c's folder: a session of the folder finds   *)
(* another mtime than in its tree, if that is not of this second. (c's own *)
(* builds its tree before it compares again.)                              *)
Store(c, t) ==
  /\ file' = [file EXCEPT ![folder[c]] = t]
  /\ \E blind \in SUBSET (late \ {c}) :
       differs' = [d \in Clients |->
                     differs[d] \/ (folder[d] = folder[c] /\ d \notin blind)]
  /\ UNCHANGED late

(* A session's tree takes the mtime from the disk, or a client's does: that *)
(* of a file written since the last tree may be of this second.            *)
Remember(c) ==
  /\ late' = IF differs[c] THEN late \cup {c} ELSE late
  /\ differs' = [differs EXCEPT ![c] = FALSE]
ClientRemembers(c) ==
  /\ fresh' = IF edited[c] THEN fresh \cup {c} ELSE fresh
  /\ edited' = [edited EXCEPT ![c] = FALSE]

-----------------------------------------------------------------------------
(* takeLock: the next part begins when nobody holds the path's lock.       *)
Part == [askSync |-> "list", askWalk |-> "walk", askCreate |-> "create",
         askReceive |-> "receive"]

TakeLock(c) ==
  /\ process = "up" /\ pc[c] \in Asks
  /\ holder[KeyAsked(c)] = Nobody
  /\ Lock(KeyAsked(c), c)
  /\ Goto(c, Part[pc[c]])
  /\ UNCHANGED << folder, server, clients, bounds, process >>

(* A client connects and builds its tree; its thread reads {SYNC}.         *)
Connect(c) ==
  /\ At(c, "new") /\ client[c] = "up"
  /\ ClientRemembers(c)
  /\ Goto(c, "askSync")
  /\ UNCHANGED << folder, locks, server, client, turn, copy, update, answer,
                  missed, bounds, process >>

(* The initial synchronisation: the server fetches the client's file, if   *)
(* there is one; its own, if there was one, gets another name.             *)
List(c) ==
  /\ At(c, "list") /\ client[c] = "up"
  /\ IF copy[c] = NoFile
     THEN Goto(c, "serve") /\ UNCHANGED server
     ELSE Goto(c, "fetch") /\ Store(c, Half)
  /\ UNCHANGED << folder, locks, clients, bounds, process >>

Fetch(c) ==
  /\ At(c, "fetch") /\ client[c] = "up"
  /\ Store(c, copy[c])
  /\ Goto(c, "serve")
  /\ UNCHANGED << folder, locks, clients, bounds, process >>

(* The client fetches the file if it has none; its tree does not hold it.  *)
(* The session's tree is built.                                            *)
Serve(c) ==
  /\ At(c, "serve") /\ client[c] = "up"
  /\ IF copy[c] = NoFile /\ file[folder[c]] # NoFile
     THEN /\ copy' = [copy EXCEPT ![c] = file[folder[c]]]
          /\ edited' = [edited EXCEPT ![c] = TRUE]
     ELSE UNCHANGED << copy, edited >>
  /\ Remember(c)
  /\ Unlock(SyncKey(c))
  /\ Goto(c, "request")
  /\ UNCHANGED << folder, file, client, turn, update, answer, fresh, missed,
                  bounds, process >>

(* End of file in the initial synchronisation ends the server.             *)
SyncEOF(c) ==
  /\ process = "up" /\ pc[c] \in {"list", "fetch", "serve"}
  /\ client[c] = "gone"
  /\ process' = "down"
  /\ UNCHANGED << folder, pc, locks, server, clients, bounds >>

-----------------------------------------------------------------------------
(* A round. handleRequest reads {DONE_CONTROL}; at end of file it looks at *)
(* the last character for ever.                                            *)
Request(c) ==
  /\ At(c, "request") /\ client[c] # "silent"
  /\ Goto(c, IF client[c] = "up" THEN "nap" ELSE "spinning")
  /\ UNCHANGED << folder, locks, server, clients, bounds, process >>

(* sleep(10): the second of both trees is over.                            *)
Wake(c) ==
  /\ At(c, "nap")
  /\ late' = late \ {c} /\ fresh' = fresh \ {c}
  /\ Goto(c, "askWalk")
  /\ UNCHANGED << folder, locks, file, differs, client, turn, copy, edited,
                  update, answer, missed, bounds, process >>

(* The walk comes to the file and sends it if its mtime has changed.       *)
Walk(c) ==
  /\ At(c, "walk")
  /\ update' = [update EXCEPT ![c] = IF differs[c] THEN file[folder[c]]
                                                  ELSE Nothing]
  /\ Remember(c)
  /\ Goto(c, "walked")
  /\ UNCHANGED << folder, locks, file, client, turn, copy, edited, answer,
                  fresh, missed, bounds, process >>

(* Mutant: the deletions are sent under the lock of the walk.              *)
UpdatesDoneLocked(c) ==
  /\ At(c, "walked")
  /\ Goto(c, "delete")
  /\ UNCHANGED << folder, locks, server, clients, bounds, process >>

(* {SYNC_UPDATE_DONE} is written and the lock given back; the deletions    *)
(* are sent without a lock, the creations under it.                        *)
UpdatesDone(c) ==
  /\ At(c, "walked")
  /\ Unlock(WalkKey(c))
  /\ Goto(c, "delete")
  /\ UNCHANGED << folder, server, clients, bounds, process >>

Deletes(c) ==
  /\ At(c, "delete")
  /\ Goto(c, "askCreate")
  /\ UNCHANGED << folder, locks, server, clients, bounds, process >>

(* Mutant: the lock is not given back after the creations.                 *)
CreatesLocked(c) ==
  /\ At(c, "create")
  /\ Goto(c, "done")
  /\ UNCHANGED << folder, locks, server, clients, bounds, process >>

Creates(c) ==
  /\ At(c, "create")
  /\ Unlock(WalkKey(c))
  /\ Goto(c, "done")
  /\ UNCHANGED << folder, server, clients, bounds, process >>

(* {DONE_CONTROL} is written.                                              *)
Done(c) ==
  /\ At(c, "done")
  /\ turn' = [turn EXCEPT ![c] = "client"]
  /\ Goto(c, "askReceive")
  /\ UNCHANGED << folder, locks, server, client, copy, edited, update, answer,
                  fresh, missed, bounds, process >>

Writing == {"walk", "walked", "delete", "create", "done"}

(* A write to a client that has left raises SIGPIPE.                       *)
BrokenPipe(c) ==
  /\ process = "up" /\ pc[c] \in Writing /\ client[c] = "gone"
  /\ "signal" \in WriteFails
  /\ process' = "down"
  /\ UNCHANGED << folder, pc, locks, server, clients, bounds >>

(* Or it fails. The walk then ends with its lock held, and with it, since  *)
(* {DONE_CONTROL} cannot be written either, the session.                   *)
WalkFails(c) ==
  /\ At(c, "walked") /\ client[c] = "gone" /\ "error" \in WriteFails
  /\ left' = left \cup {WalkKey(c)}
  /\ Goto(c, "ended")
  /\ UNCHANGED << folder, holder, server, clients, bounds, process >>

DoneFails(c) ==
  /\ At(c, "done") /\ client[c] = "gone" /\ "error" \in WriteFails
  /\ Goto(c, "ended")
  /\ UNCHANGED << folder, locks, server, clients, bounds, process >>

(* The deletions and the creations exit.                                   *)
ListFails(c) ==
  /\ process = "up" /\ pc[c] \in {"delete", "create"} /\ client[c] = "gone"
  /\ "error" \in WriteFails
  /\ process' = "down"
  /\ UNCHANGED << folder, pc, locks, server, clients, bounds >>

(* Mutant: the receive returns from the middle of a file.                  *)
ReceiveReturns(c) ==
  /\ At(c, "receive") /\ turn[c] = "sent"
  /\ IF answer[c] = Nothing
     THEN Goto(c, "rebuild") /\ UNCHANGED << server, turn, locks >>
     ELSE /\ Goto(c, "request") /\ Store(c, Half)
          /\ turn' = [turn EXCEPT ![c] = "server"]
          /\ Unlock(ReceiveKey(c))
  /\ UNCHANGED << folder, client, copy, edited, update, answer, fresh, missed,
                  bounds, process >>

(* The client's answer is read as it comes: the file is emptied, then      *)
(* written. At end of file the loop ends as after {DONE_CONTROL}.          *)
Receive(c) ==
  /\ At(c, "receive") /\ turn[c] = "sent"
  /\ IF answer[c] = Nothing
     THEN Goto(c, "rebuild") /\ UNCHANGED server
     ELSE Goto(c, "write") /\ Store(c, Half)
  /\ UNCHANGED << folder, locks, clients, bounds, process >>

Write(c) ==
  /\ At(c, "write")
  /\ Store(c, answer[c])
  /\ answer' = [answer EXCEPT ![c] = Nothing]
  /\ Goto(c, "rebuild")
  /\ UNCHANGED << folder, locks, client, turn, copy, edited, update, fresh,
                  missed, bounds, process >>

ReceiveEOF(c) ==
  /\ process = "up" /\ client[c] = "gone"
  /\ (pc[c] = "receive" /\ turn[c] # "sent") \/ pc[c] = "write"
  /\ Goto(c, "rebuild")
  /\ UNCHANGED << folder, locks, server, clients, bounds, process >>

(* Mutant: the tree is that of the walk.                                   *)
RebuildNot(c) ==
  /\ At(c, "rebuild")
  /\ turn' = [turn EXCEPT ![c] = "server"]
  /\ Unlock(ReceiveKey(c))
  /\ Goto(c, "request")
  /\ UNCHANGED << folder, server, client, copy, edited, update, answer, fresh,
                  missed, bounds, process >>

(* The tree is built from the disk, whoever wrote there since the walk.    *)
Rebuild(c) ==
  /\ At(c, "rebuild")
  /\ Remember(c)
  /\ turn' = [turn EXCEPT ![c] = "server"]
  /\ Unlock(ReceiveKey(c))
  /\ Goto(c, "request")
  /\ UNCHANGED << folder, file, client, copy, edited, update, answer, fresh,
                  missed, bounds, process >>

-----------------------------------------------------------------------------
(* Mutant: the client writes before anything has come.                     *)
ClientReceiveEager(c) ==
  /\ client[c] = "up"
  /\ turn[c] = "client" \/ update[c] # Nothing
  /\ copy' = [copy EXCEPT ![c] = update[c]]
  /\ edited' = [edited EXCEPT ![c] = TRUE]
  /\ update' = [update EXCEPT ![c] = Nothing]
  /\ UNCHANGED << folder, pc, locks, server, client, turn, answer, fresh,
                  missed, bounds, process >>

(* The client applies what it gets while it comes, then walks against the  *)
(* tree it had before: it sends back what it got.                          *)
ClientReceive(c) ==
  /\ client[c] = "up" /\ update[c] # Nothing
  /\ copy' = [copy EXCEPT ![c] = update[c]]
  /\ edited' = [edited EXCEPT ![c] = TRUE]
  /\ update' = [update EXCEPT ![c] = Nothing]
  /\ UNCHANGED << folder, pc, locks, server, client, turn, answer, fresh,
                  missed, bounds, process >>

(* Mutants: the client sends no {DONE_CONTROL}; it keeps its old tree.     *)
ClientWalkUnfinished(c) ==
  /\ client[c] = "up" /\ turn[c] = "client" /\ update[c] = Nothing
  /\ answer' = [answer EXCEPT ![c] = IF edited[c] THEN copy[c] ELSE Nothing]
  /\ ClientRemembers(c)
  /\ UNCHANGED << folder, pc, locks, server, client, turn, copy, update,
                  missed, bounds, process >>
ClientWalkForgets(c) ==
  /\ client[c] = "up" /\ turn[c] = "client" /\ update[c] = Nothing
  /\ answer' = [answer EXCEPT ![c] = IF edited[c] THEN copy[c] ELSE Nothing]
  /\ turn' = [turn EXCEPT ![c] = "sent"]
  /\ UNCHANGED << folder, pc, locks, server, client, copy, edited, update,
                  fresh, missed, bounds, process >>

ClientWalk(c) ==
  /\ client[c] = "up" /\ turn[c] = "client" /\ update[c] = Nothing
  /\ answer' = [answer EXCEPT ![c] = IF edited[c] THEN copy[c] ELSE Nothing]
  /\ ClientRemembers(c)
  /\ turn' = [turn EXCEPT ![c] = "sent"]
  /\ UNCHANGED << folder, pc, locks, server, client, copy, update, missed,
                  bounds, process >>

(* A user changes the client's file, and so its mtime, unless the client's *)
(* tree has one of this second.                                            *)
Edit(c) ==
  /\ c \in Editors /\ edits < MaxEdits /\ client[c] # "gone"
  /\ edits' = edits + 1
  /\ copy' = [copy EXCEPT ![c] = edits + 1]
  /\ \/ /\ edited' = [edited EXCEPT ![c] = TRUE]
        /\ missed' = missed \ {c}
     \/ /\ c \in fresh /\ ~ edited[c]
        /\ missed' = missed \cup {c}
        /\ UNCHANGED edited
  /\ UNCHANGED << folder, pc, locks, server, client, turn, update, answer,
                  fresh, faults, process >>

(* A client stops reading and writing, or its process ends.                *)
Falter(c) ==
  /\ faults < MaxFaults /\ pc[c] # "new" /\ client[c] = "up"
  /\ faults' = faults + 1
  /\ \E s \in {"silent", "gone"} : client' = [client EXCEPT ![c] = s]
  /\ UNCHANGED << folder, pc, locks, server, turn, copy, edited, update,
                  answer, fresh, missed, edits, process >>

(* What a thread does by itself, and with its client.                      *)
Alone(c) == Wake(c) \/ Rebuild(c)
Talks(c) ==
  \/ List(c) \/ Fetch(c) \/ Serve(c) \/ SyncEOF(c) \/ Request(c)
  \/ Walk(c) \/ UpdatesDone(c) \/ Deletes(c) \/ Creates(c) \/ Done(c)
  \/ BrokenPipe(c) \/ WalkFails(c) \/ DoneFails(c) \/ ListFails(c)
  \/ Receive(c) \/ Write(c) \/ ReceiveEOF(c)
Client(c) == ClientReceive(c) \/ ClientWalk(c)
Environment(c) == Edit(c) \/ Falter(c)

Next ==
  \E c \in Clients : \/ Connect(c) \/ TakeLock(c) \/ Alone(c) \/ Talks(c)
                     \/ Client(c) \/ Environment(c)

(* A thread goes on when it can, but its writes may wait for ever for a    *)
(* silent client. A lock that is free again and again is got: after every  *)
(* part the other session sleeps ten seconds or waits for its client.      *)
Spec == Init /\ [][Next]_vars
Fair(c) == /\ WF_vars(Alone(c)) /\ SF_vars(TakeLock(c)) /\ WF_vars(Client(c))
           /\ WF_vars(client[c] # "silent" /\ Talks(c)) /\ WF_vars(Connect(c))
FairSpec == Spec /\ \A c \in Clients : Fair(c)
-----------------------------------------------------------------------------
(* Correctness.                                                            *)

(* Each variable has its type.                                             *)
Places == Asks \cup Writing \cup
  {"new", "list", "fetch", "serve", "request", "nap", "receive", "write",
   "rebuild", "spinning", "ended"}

TypeOK ==
  /\ folder \in InitFolders
  /\ pc \in [Clients -> Places]
  /\ holder \in [Keys -> Clients \cup {Nobody}] /\ left \subseteq Keys
  /\ client \in [Clients -> {"up", "silent", "gone"}]
  /\ turn \in [Clients -> {"server", "client", "sent"}]
  /\ file \in [{folder[c] : c \in Clients} -> Texts]
  /\ differs \in [Clients -> BOOLEAN] /\ edited \in [Clients -> BOOLEAN]
  /\ copy \in [Clients -> Texts]
  /\ update \in [Clients -> Texts \cup {Nothing}]
  /\ answer \in [Clients -> Texts \cup {Nothing}]
  /\ fresh \subseteq Clients /\ late \subseteq Clients
  /\ missed \subseteq Clients
  /\ edits \in 0 .. MaxEdits /\ faults \in 0 .. MaxFaults
  /\ process \in {"up", "down"}

(* A session has the lock of the part it is in and no other, in particular *)
(* none while it asks for one: no lock outlives its part, except after a   *)
(* walk that failed, and takeLock is never called under a lock.            *)
Holds(c) ==
  CASE pc[c] \in {"list", "fetch", "serve"} -> {SyncKey(c)}
    [] pc[c] \in {"walk", "walked", "create"} -> {WalkKey(c)}
    [] pc[c] \in {"receive", "write", "rebuild"} -> {ReceiveKey(c)}
    [] OTHER -> {}

LocksMatch ==
  \A c \in Clients : {k \in Keys \ left : holder[k] = c} = Holds(c)

(* What the locks keep apart: two initial synchronisations of a folder,    *)
(* two walks of it, and two receives of any folders. A walk or a receive   *)
(* goes together with an initial synchronisation, and each with the other. *)
Excludes ==
  \A c, d \in Clients : c # d =>
    /\ folder[c] = folder[d] =>
         ~ \E part \in {{"list", "fetch", "serve"}, {"walk", "walked", "create"}} :
             pc[c] \in part /\ pc[d] \in part
    /\ ~ {pc[c], pc[d]} \subseteq {"receive", "write", "rebuild"}

(* A client gets half a file only from a folder it shares with another     *)
(* client.                                                                 *)
Shares(c) == \E d \in Clients \ {c} : folder[d] = folder[c]
HalfExplained == \A c \in Clients : copy[c] = Half => Shares(c)

(* A client that has its folder for itself never has its user's edits      *)
(* undone, whatever crosses the socket meanwhile.                          *)
EditsKept ==
  [][\A c \in Clients : ~ Shares(c) /\ copy[c] # NoFile =>
       copy'[c] \in {copy[c], edits'}]_vars

(* A session that asks for a lock gets it, or the server ends, or one of   *)
(* two things is to blame: a walk that failed has kept the lock, or its    *)
(* holder waits for a client that is silent.                               *)
Blamed(k) == k \in left \/ holder[k] \in {c \in Clients : client[c] = "silent"}

AskedIsGot ==
  \A c \in Clients :
    pc[c] \in Asks ~>
      (pc[c] \notin Asks \/ process = "down" \/ Blamed(KeyAsked(c)))

(* While no client falters every session goes from round to round: nobody  *)
(* waits for ever, on a lock or on the client.                             *)
EveryoneServed ==
  <>(faults > 0) \/ \A c \in Clients : []<>(pc[c] = "nap")

(* A client that has its folder for itself comes to agree with the server, *)
(* unless the last edit there was of the second its tree remembers, and    *)
(* then nothing is sent any more: echoes die out.                          *)
Settled(c) == /\ file[folder[c]] = copy[c] \/ c \in missed
              /\ ~ differs[c] /\ ~ edited[c]
              /\ update[c] = Nothing /\ answer[c] = Nothing

Settles ==
  <>(faults > 0) \/ \A c \in Clients : Shares(c) \/ <>[]Settled(c)

(* One user edits and nobody else: the text in that client is the last one *)
(* written there.                                                          *)
OwnEditStays ==
  \A c \in Clients :
    Editors = {c} /\ edits > 0 /\ faults = 0 => copy[c] = edits
=============================================================================
