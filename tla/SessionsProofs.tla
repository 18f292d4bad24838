--------------------------- MODULE SessionsProofs ---------------------------
(***************************************************************************)
(* Proofs about Sessions, for any clients and folders, edits and faults.   *)
(***************************************************************************)
EXTENDS Sessions, TLAPS

-----------------------------------------------------------------------------
(* Types. What a session writes at the end of a round is the answer of a   *)
(* client that has sent all of it.                                         *)
Answered ==
  \A c \in Clients : pc[c] = "write" => turn[c] = "sent" /\ answer[c] # Nothing

TInv == TypeOK /\ Answered

(* Folders never change, and so the locks there may be do not.             *)
LEMMA KeysStay == ASSUME UNCHANGED folder PROVE Keys' = Keys
  BY DEF Keys, SyncKey, WalkKey, ReceiveKey

LEMMA KeysOf ==
  ASSUME NEW c \in Clients
  PROVE  SyncKey(c) \in Keys /\ WalkKey(c) \in Keys /\ ReceiveKey(c) \in Keys
  BY DEF Keys

(* The texts there are.                                                    *)
LEMMA TextsHave ==
  /\ NoFile \in Texts /\ Half \in Texts /\ Nothing \notin Texts
  /\ \A n \in 1 .. MaxEdits : n \in Texts /\ n # Half
  /\ NoFile # Half
  BY ClientAssumption DEF NoFile, Half, Nothing, Texts

LEMMA InitTInv == Init => TInv
<1> SUFFICES ASSUME Init PROVE TInv
  OBVIOUS
<1>1. 0 \in 0 .. MaxEdits /\ 0 \in 0 .. MaxFaults
  BY ClientAssumption
<1>2. TypeOK
  BY <1>1, TextsHave DEF Init, TypeOK, Places
<1>3. Answered
  BY DEF Init, Answered
<1>4. QED
  BY <1>2, <1>3 DEF TInv

(* What a session writes to the file is a text.                            *)
LEMMA StoreTyped ==
  ASSUME TypeOK, NEW c \in Clients, NEW t \in Texts, Store(c, t)
  PROVE  /\ file' \in [{folder[d] : d \in Clients} -> Texts]
         /\ differs' \in [Clients -> BOOLEAN] /\ late' \subseteq Clients
<1>1. PICK blind \in SUBSET (late \ {c}) :
             differs' = [d \in Clients |-> differs[d] \/ (folder[d] = folder[c]
                                                          /\ d \notin blind)]
  BY DEF Store
<1>2. differs' \in [Clients -> BOOLEAN]
  BY <1>1 DEF TypeOK
<1>3. QED
  BY <1>2 DEF TypeOK, Store

(* A session that builds its tree, or a client.                            *)
LEMMA RememberTyped ==
  ASSUME TypeOK, NEW c \in Clients
  PROVE  /\ Remember(c) => /\ differs' \in [Clients -> BOOLEAN]
                           /\ late' \subseteq Clients
         /\ ClientRemembers(c) => /\ edited' \in [Clients -> BOOLEAN]
                                  /\ fresh' \subseteq Clients
  BY DEF TypeOK, Remember, ClientRemembers

(* A session that takes or leaves a lock, or goes elsewhere.               *)
LEMMA LockTyped ==
  ASSUME TypeOK, NEW k \in Keys, NEW c \in Clients
  PROVE  /\ Lock(k, c) => /\ holder' \in [Keys -> Clients \cup {Nobody}]
                          /\ left' \subseteq Keys
         /\ Unlock(k) => /\ holder' \in [Keys -> Clients \cup {Nobody}]
                         /\ left' \subseteq Keys
  BY DEF TypeOK, Lock, Unlock

LEMMA GotoTyped ==
  ASSUME TypeOK, NEW c \in Clients, NEW l \in Places, Goto(c, l)
  PROVE  /\ pc' \in [Clients -> Places] /\ pc'[c] = l
         /\ \A d \in Clients \ {c} : pc'[d] = pc[d]
  BY DEF TypeOK, Goto

LEMMA TakeLockTyped ==
  ASSUME TInv, NEW c \in Clients, TakeLock(c) PROVE TInv'
<1>1. KeyAsked(c) \in Keys
  BY KeysOf DEF KeyAsked, TakeLock, Asks
<1>2. Part[pc[c]] \in Places /\ Part[pc[c]] # "write"
  BY DEF TakeLock, Asks, Part, Places, Writing
<1>3. TypeOK'
  <2>1. pc' \in [Clients -> Places]
    BY <1>2, GotoTyped DEF TInv, TakeLock
  <2>2. holder' \in [Keys -> Clients \cup {Nobody}] /\ left' \subseteq Keys
    BY <1>1, LockTyped DEF TInv, TakeLock
  <2>3. QED
    BY <2>1, <2>2, KeysStay DEF TInv, TakeLock, TypeOK, server, clients, bounds
<1>4. Answered'
  BY <1>2, GotoTyped DEF TInv, TakeLock, Answered, clients
<1>5. QED
  BY <1>3, <1>4 DEF TInv

(* The initial synchronisation.                                            *)
LEMMA SyncTyped ==
  ASSUME TInv, NEW c \in Clients,
         Connect(c) \/ List(c) \/ Fetch(c) \/ Serve(c) \/ SyncEOF(c)
  PROVE  TInv'
<1> USE DEF TInv, At, locks, server, clients, bounds
<1>1. /\ "askSync" \in Places /\ "serve" \in Places /\ "fetch" \in Places
      /\ "request" \in Places
  BY DEF Places, Asks
<1>2. CASE Connect(c)
  <2>1. pc' \in [Clients -> Places] /\ Answered'
    BY <1>1, <1>2, GotoTyped DEF Connect, Answered
  <2>2. edited' \in [Clients -> BOOLEAN] /\ fresh' \subseteq Clients
    BY <1>2, RememberTyped DEF Connect
  <2>3. QED
    BY <1>2, <2>1, <2>2, KeysStay DEF Connect, TypeOK
<1>3. CASE List(c)
  <2>1. pc' \in [Clients -> Places] /\ Answered'
    BY <1>1, <1>3, GotoTyped DEF List, Answered
  <2>2. /\ file' \in [{folder[d] : d \in Clients} -> Texts]
        /\ differs' \in [Clients -> BOOLEAN] /\ late' \subseteq Clients
    BY <1>3, TextsHave, StoreTyped DEF List, TypeOK
  <2>3. QED
    BY <1>3, <2>1, <2>2, KeysStay DEF List, TypeOK
<1>4. CASE Fetch(c)
  <2>1. pc' \in [Clients -> Places] /\ Answered'
    BY <1>1, <1>4, GotoTyped DEF Fetch, Answered
  <2>2. copy[c] \in Texts
    BY DEF TypeOK
  <2>3. /\ file' \in [{folder[d] : d \in Clients} -> Texts]
        /\ differs' \in [Clients -> BOOLEAN] /\ late' \subseteq Clients
    BY <1>4, <2>2, StoreTyped DEF Fetch
  <2>4. QED
    BY <1>4, <2>1, <2>3, KeysStay DEF Fetch, TypeOK
<1>5. CASE Serve(c)
  <2>1. pc' \in [Clients -> Places] /\ Answered'
    BY <1>1, <1>5, GotoTyped DEF Serve, Answered
  <2>2. file[folder[c]] \in Texts
    BY DEF TypeOK
  <2>3. copy' \in [Clients -> Texts] /\ edited' \in [Clients -> BOOLEAN]
    BY <1>5, <2>2 DEF Serve, TypeOK
  <2>4. holder' \in [Keys -> Clients \cup {Nobody}] /\ left' \subseteq Keys
    BY <1>5, KeysOf, LockTyped DEF Serve
  <2>5. differs' \in [Clients -> BOOLEAN] /\ late' \subseteq Clients
    BY <1>5, RememberTyped DEF Serve
  <2>6. QED
    BY <1>5, <2>1, <2>3, <2>4, <2>5, KeysStay DEF Serve, TypeOK
<1>6. CASE SyncEOF(c)
  BY <1>6, KeysStay DEF SyncEOF, TypeOK, Answered
<1>7. QED
  BY <1>2, <1>3, <1>4, <1>5, <1>6

(* The thread's half of a round up to its {DONE_CONTROL}.                  *)
LEMMA SendTyped ==
  ASSUME TInv, NEW c \in Clients,
         \/ Request(c) \/ Wake(c) \/ Walk(c) \/ UpdatesDone(c) \/ Deletes(c)
         \/ Creates(c) \/ Done(c) \/ BrokenPipe(c) \/ WalkFails(c)
         \/ DoneFails(c) \/ ListFails(c)
  PROVE  TInv'
<1> USE DEF TInv, At, locks, server, clients, bounds
<1>1. /\ "nap" \in Places /\ "spinning" \in Places /\ "askWalk" \in Places
      /\ "walked" \in Places /\ "delete" \in Places /\ "askCreate" \in Places
      /\ "done" \in Places /\ "askReceive" \in Places /\ "ended" \in Places
  BY DEF Places, Asks, Writing
<1>2. CASE Request(c) \/ Wake(c) \/ Deletes(c) \/ DoneFails(c)
  <2>1. pc' \in [Clients -> Places] /\ Answered'
    BY <1>1, <1>2, GotoTyped
    DEF Request, Wake, Deletes, DoneFails, Answered
  <2>2. UNCHANGED << folder, holder, left, file, differs, client, turn, copy,
                     edited, update, answer, missed, edits, faults, process >>
    BY <1>2 DEF Request, Wake, Deletes, DoneFails
  <2>3. late' \subseteq Clients /\ fresh' \subseteq Clients
    BY <1>2 DEF Request, Wake, Deletes, DoneFails, TypeOK
  <2>4. QED
    BY <2>1, <2>2, <2>3, KeysStay DEF TypeOK
<1>3. CASE Walk(c)
  <2>1. pc' \in [Clients -> Places] /\ Answered'
    BY <1>1, <1>3, GotoTyped DEF Walk, Answered
  <2>2. file[folder[c]] \in Texts
    BY DEF TypeOK
  <2>3. /\ update' \in [Clients -> Texts \cup {Nothing}]
        /\ differs' \in [Clients -> BOOLEAN] /\ late' \subseteq Clients
    BY <1>3, <2>2, RememberTyped DEF Walk, TypeOK
  <2>4. QED
    BY <1>3, <2>1, <2>3, KeysStay DEF Walk, TypeOK
<1>4. CASE UpdatesDone(c) \/ Creates(c)
  <2>1. pc' \in [Clients -> Places] /\ Answered'
    BY <1>1, <1>4, GotoTyped DEF UpdatesDone, Creates, Answered
  <2>2. holder' \in [Keys -> Clients \cup {Nobody}] /\ left' \subseteq Keys
    BY <1>4, KeysOf, LockTyped DEF UpdatesDone, Creates
  <2>3. UNCHANGED << folder, file, differs, late, client, turn, copy, edited,
                     update, answer, fresh, missed, edits, faults, process >>
    BY <1>4 DEF UpdatesDone, Creates
  <2>4. QED
    BY <2>1, <2>2, <2>3, KeysStay DEF TypeOK
<1>5. CASE Done(c)
  <2>1. pc' \in [Clients -> Places] /\ pc'[c] # "write"
    BY <1>1, <1>5, GotoTyped DEF Done
  <2>2. turn' \in [Clients -> {"server", "client", "sent"}]
    BY <1>5 DEF Done, TypeOK
  <2>3. Answered'
    BY <1>1, <1>5, GotoTyped DEF Done, Answered, TypeOK
  <2>4. QED
    BY <1>5, <2>1, <2>2, <2>3, KeysStay DEF Done, TypeOK
<1>6. CASE BrokenPipe(c) \/ ListFails(c)
  <2>1. process' = "down"
    BY <1>6 DEF BrokenPipe, ListFails
  <2>2. UNCHANGED << folder, pc, holder, left, file, differs, late, client, turn,
                     copy, edited, update, answer, fresh, missed, edits, faults >>
    BY <1>6 DEF BrokenPipe, ListFails
  <2>3. QED
    BY <2>1, <2>2, KeysStay DEF TypeOK, Answered
<1>7. CASE WalkFails(c)
  <2>1. pc' \in [Clients -> Places] /\ Answered'
    BY <1>1, <1>7, GotoTyped DEF WalkFails, Answered
  <2>2. left' \subseteq Keys
    BY <1>7, KeysOf DEF WalkFails, TypeOK
  <2>3. QED
    BY <1>7, <2>1, <2>2, KeysStay DEF WalkFails, TypeOK
<1>8. QED
  BY <1>2, <1>3, <1>4, <1>5, <1>6, <1>7

(* The rest of the round.                                                  *)
LEMMA ReceiveTyped ==
  ASSUME TInv, NEW c \in Clients,
         Receive(c) \/ Write(c) \/ ReceiveEOF(c) \/ Rebuild(c)
  PROVE  TInv'
<1> USE DEF TInv, At, locks, server, clients, bounds
<1>1. "write" \in Places /\ "rebuild" \in Places /\ "request" \in Places
  BY DEF Places
<1>2. CASE Receive(c)
  <2>1. pc' \in [Clients -> Places] /\ Answered'
    BY <1>1, <1>2, GotoTyped DEF Receive, Answered
  <2>2. /\ file' \in [{folder[d] : d \in Clients} -> Texts]
        /\ differs' \in [Clients -> BOOLEAN] /\ late' \subseteq Clients
    BY <1>2, TextsHave, StoreTyped DEF Receive, TypeOK
  <2>3. QED
    BY <1>2, <2>1, <2>2, KeysStay DEF Receive, TypeOK
<1>3. CASE Write(c)
  <2>1. answer[c] \in Texts
    BY <1>3 DEF Write, TypeOK, Answered
  <2>2. /\ file' \in [{folder[d] : d \in Clients} -> Texts]
        /\ differs' \in [Clients -> BOOLEAN] /\ late' \subseteq Clients
    BY <1>3, <2>1, StoreTyped DEF Write
  <2>3. pc' \in [Clients -> Places] /\ Answered'
    BY <1>1, <1>3, GotoTyped DEF Write, Answered, TypeOK
  <2>4. answer' \in [Clients -> Texts \cup {Nothing}]
    BY <1>3 DEF Write, TypeOK
  <2>5. QED
    BY <1>3, <2>2, <2>3, <2>4, KeysStay DEF Write, TypeOK
<1>4. CASE ReceiveEOF(c)
  <2>1. pc' \in [Clients -> Places] /\ Answered'
    BY <1>1, <1>4, GotoTyped DEF ReceiveEOF, Answered
  <2>2. QED
    BY <1>4, <2>1, KeysStay DEF ReceiveEOF, TypeOK
<1>5. CASE Rebuild(c)
  <2>1. pc' \in [Clients -> Places] /\ Answered'
    BY <1>1, <1>5, GotoTyped DEF Rebuild, Answered, TypeOK
  <2>2. /\ turn' \in [Clients -> {"server", "client", "sent"}]
        /\ differs' \in [Clients -> BOOLEAN] /\ late' \subseteq Clients
    BY <1>5, RememberTyped DEF Rebuild, TypeOK
  <2>3. holder' \in [Keys -> Clients \cup {Nobody}] /\ left' \subseteq Keys
    BY <1>5, KeysOf, LockTyped DEF Rebuild
  <2>4. QED
    BY <1>5, <2>1, <2>2, <2>3, KeysStay DEF Rebuild, TypeOK
<1>6. QED
  BY <1>2, <1>3, <1>4, <1>5

(* What clients and users do.                                              *)
LEMMA ClientTyped ==
  ASSUME TInv, NEW c \in Clients, Client(c) \/ Environment(c)
  PROVE  TInv'
<1> USE DEF TInv, locks, server, clients, bounds
<1>1. CASE ClientReceive(c)
  <2>1. update[c] \in Texts
    BY <1>1 DEF ClientReceive, TypeOK
  <2>2. /\ copy' \in [Clients -> Texts] /\ edited' \in [Clients -> BOOLEAN]
        /\ update' \in [Clients -> Texts \cup {Nothing}]
    BY <1>1, <2>1 DEF ClientReceive, TypeOK
  <2>3. QED
    BY <1>1, <2>2, KeysStay DEF ClientReceive, TypeOK, Answered
<1>2. CASE ClientWalk(c)
  <2>1. /\ answer' \in [Clients -> Texts \cup {Nothing}]
        /\ edited' \in [Clients -> BOOLEAN] /\ fresh' \subseteq Clients
        /\ turn' \in [Clients -> {"server", "client", "sent"}]
    BY <1>2, RememberTyped DEF ClientWalk, TypeOK
  <2>2. Answered'
    BY <1>2 DEF ClientWalk, TypeOK, Answered
  <2>3. QED
    BY <1>2, <2>1, <2>2, KeysStay DEF ClientWalk, TypeOK
<1>3. CASE Edit(c)
  <2>1. edits + 1 \in 1 .. MaxEdits
    BY <1>3, ClientAssumption DEF Edit, TypeOK
  <2>2. edits' \in 0 .. MaxEdits /\ edits + 1 \in Texts
    BY <1>3, <2>1, ClientAssumption, TextsHave DEF Edit
  <2>3. copy' \in [Clients -> Texts] /\ edited' \in [Clients -> BOOLEAN]
    BY <1>3, <2>2 DEF Edit, TypeOK
  <2>4. QED
    BY <1>3, <2>2, <2>3, KeysStay DEF Edit, TypeOK, Answered
<1>4. CASE Falter(c)
  <2>1. faults' \in 0 .. MaxFaults
    BY <1>4, ClientAssumption DEF Falter, TypeOK
  <2>2. client' \in [Clients -> {"up", "silent", "gone"}]
    BY <1>4 DEF Falter, TypeOK
  <2>3. QED
    BY <1>4, <2>1, <2>2, KeysStay DEF Falter, TypeOK, Answered
<1>5. QED
  BY <1>1, <1>2, <1>3, <1>4 DEF Client, Environment

LEMMA NextTInv == TInv /\ [Next]_vars => TInv'
<1> SUFFICES ASSUME TInv, [Next]_vars PROVE TInv'
  OBVIOUS
<1>1. ASSUME NEW c \in Clients, Connect(c) \/ TakeLock(c) \/ Alone(c)
                                \/ Talks(c) \/ Client(c) \/ Environment(c)
      PROVE  TInv'
  <2>1. CASE TakeLock(c)
    BY <2>1, TakeLockTyped
  <2>2. CASE Client(c) \/ Environment(c)
    BY <2>2, ClientTyped
  <2>3. CASE Connect(c) \/ Alone(c) \/ Talks(c)
    BY <2>3, SyncTyped, SendTyped, ReceiveTyped DEF Alone, Talks
  <2>4. QED
    BY <1>1, <2>1, <2>2, <2>3
<1>2. CASE UNCHANGED vars
  BY <1>2, KeysStay
  DEF vars, locks, server, clients, bounds, TInv, TypeOK, Answered
<1>3. QED
  BY <1>1, <1>2 DEF Next

(* Every variable of the sessions, the locks and the clients keeps its     *)
(* type: whatever clients do, a file only ever holds what a user wrote or  *)
(* the half of it.                                                         *)
THEOREM TypeCorrect == Spec => []TypeOK
<1>1. TInv => TypeOK
  BY DEF TInv
<1>2. QED
  BY InitTInv, NextTInv, <1>1, PTL DEF Spec

-----------------------------------------------------------------------------
(* Locks. A lock that was left has a holder, and nobody takes it.          *)
LeftHeld == \A k \in left : holder[k] \in Clients

LInv == TInv /\ LocksMatch /\ LeftHeld

(* What a session holds depends on where it is.                            *)
Syncs == {"list", "fetch", "serve"}
Walks == {"walk", "walked", "create"}
Receives == {"receive", "write", "rebuild"}

LEMMA HoldsAt ==
  ASSUME NEW c \in Clients
  PROVE  /\ pc[c] \in Syncs => Holds(c) = {SyncKey(c)}
         /\ pc[c] \in Walks => Holds(c) = {WalkKey(c)}
         /\ pc[c] \in Receives => Holds(c) = {ReceiveKey(c)}
         /\ pc[c] \notin Syncs \cup Walks \cup Receives => Holds(c) = {}
  BY DEF Holds, Syncs, Walks, Receives

LEMMA HoldsNext ==
  ASSUME NEW c \in Clients, UNCHANGED folder
  PROVE  /\ pc'[c] \in Syncs => Holds(c)' = {SyncKey(c)}
         /\ pc'[c] \in Walks => Holds(c)' = {WalkKey(c)}
         /\ pc'[c] \in Receives => Holds(c)' = {ReceiveKey(c)}
         /\ pc'[c] \notin Syncs \cup Walks \cup Receives => Holds(c)' = {}
         /\ pc'[c] = pc[c] => Holds(c)' = Holds(c)
  BY DEF Holds, Syncs, Walks, Receives, SyncKey, WalkKey, ReceiveKey

(* A step that takes no lock and gives none back.                          *)
LEMMA LocksKept ==
  ASSUME LInv, UNCHANGED << folder, holder, left >>,
         \A c \in Clients : Holds(c)' = Holds(c)
  PROVE  LocksMatch' /\ LeftHeld'
  BY KeysStay DEF LInv, LocksMatch, LeftHeld

(* A free lock is taken.                                                   *)
LEMMA LockTaken ==
  ASSUME LInv, UNCHANGED folder, NEW c \in Clients, NEW k \in Keys,
         holder[k] = Nobody, Lock(k, c), Holds(c) = {}, Holds(c)' = {k},
         \A d \in Clients \ {c} : Holds(d)' = Holds(d)
  PROVE  LocksMatch' /\ LeftHeld'
<1>1. Keys' = Keys /\ left' = left /\ k \notin left /\ Nobody \notin Clients
  BY KeysStay, ClientAssumption DEF Lock, LInv, LeftHeld
<1>2. \A j \in Keys : holder'[j] = IF j = k THEN c ELSE holder[j]
  BY DEF Lock, LInv, TInv, TypeOK
<1>3. LeftHeld'
  BY <1>1, <1>2 DEF LInv, TInv, TypeOK, LeftHeld
<1>4. ASSUME NEW d \in Clients
      PROVE  {j \in Keys' \ left' : holder'[j] = d} = Holds(d)'
  <2>1. {j \in Keys \ left : holder[j] = d} = Holds(d)
    BY DEF LInv, LocksMatch
  <2>2. CASE d = c
    BY <1>1, <1>2, <2>1, <2>2
  <2>3. CASE d # c
    BY <1>1, <1>2, <2>1, <2>3
  <2>4. QED
    BY <2>2, <2>3
<1>5. QED
  BY <1>3, <1>4 DEF LocksMatch

(* A session's lock is given back.                                         *)
LEMMA LockReturned ==
  ASSUME LInv, UNCHANGED folder, NEW c \in Clients, NEW k \in Keys,
         Unlock(k), Holds(c) = {k}, Holds(c)' = {},
         \A d \in Clients \ {c} : Holds(d)' = Holds(d)
  PROVE  LocksMatch' /\ LeftHeld'
<1>1. Keys' = Keys /\ left' = left /\ Nobody \notin Clients
  BY KeysStay, ClientAssumption DEF Unlock
<1>2. k \notin left /\ holder[k] = c
  BY DEF LInv, LocksMatch
<1>3. \A j \in Keys : holder'[j] = IF j = k THEN Nobody ELSE holder[j]
  BY DEF Unlock, LInv, TInv, TypeOK
<1>4. LeftHeld'
  BY <1>1, <1>2, <1>3 DEF LInv, TInv, TypeOK, LeftHeld
<1>5. ASSUME NEW d \in Clients
      PROVE  {j \in Keys' \ left' : holder'[j] = d} = Holds(d)'
  <2>1. {j \in Keys \ left : holder[j] = d} = Holds(d)
    BY DEF LInv, LocksMatch
  <2>2. CASE d = c
    BY <1>1, <1>3, <2>1, <2>2
  <2>3. CASE d # c
    BY <1>1, <1>2, <1>3, <2>1, <2>3
  <2>4. QED
    BY <2>2, <2>3
<1>6. QED
  BY <1>4, <1>5 DEF LocksMatch

(* A session's lock is left.                                               *)
LEMMA LockLeft ==
  ASSUME LInv, UNCHANGED << folder, holder >>, NEW c \in Clients, NEW k \in Keys,
         left' = left \cup {k}, Holds(c) = {k}, Holds(c)' = {},
         \A d \in Clients \ {c} : Holds(d)' = Holds(d)
  PROVE  LocksMatch' /\ LeftHeld'
<1>1. Keys' = Keys
  BY KeysStay
<1>2. k \notin left /\ holder[k] = c
  BY DEF LInv, LocksMatch
<1>3. LeftHeld'
  BY <1>2 DEF LInv, LeftHeld
<1>4. ASSUME NEW d \in Clients
      PROVE  {j \in Keys' \ left' : holder'[j] = d} = Holds(d)'
  <2>1. {j \in Keys \ left : holder[j] = d} = Holds(d)
    BY DEF LInv, LocksMatch
  <2>2. CASE d = c
    BY <1>1, <2>1, <2>2
  <2>3. CASE d # c
    BY <1>1, <1>2, <2>1, <2>3
  <2>4. QED
    BY <2>2, <2>3
<1>5. QED
  BY <1>3, <1>4 DEF LocksMatch

(* A session that goes from one place to another with what it has.         *)
LEMMA GoesWith ==
  ASSUME LInv, NEW c \in Clients, NEW l, Goto(c, l),
         UNCHANGED << folder, holder, left >>,
         \/ \E part \in {Syncs, Walks, Receives} : pc[c] \in part /\ l \in part
         \/ {pc[c], l} \cap (Syncs \cup Walks \cup Receives) = {}
  PROVE  LocksMatch' /\ LeftHeld'
<1>1. pc'[c] = l /\ \A d \in Clients \ {c} : pc'[d] = pc[d]
  BY DEF Goto, LInv, TInv, TypeOK
<1>2. \A d \in Clients \ {c} : Holds(d)' = Holds(d)
  BY <1>1, HoldsNext
<1>3. Holds(c)' = Holds(c)
  BY <1>1, HoldsAt, HoldsNext
<1>4. QED
  BY <1>2, <1>3, LocksKept

LEMMA InitLInv == Init => LInv
<1> SUFFICES ASSUME Init PROVE LInv
  OBVIOUS
<1>1. TInv /\ LeftHeld
  BY InitTInv DEF Init, LeftHeld
<1>2. ASSUME NEW c \in Clients
      PROVE  {k \in Keys \ left : holder[k] = c} = Holds(c)
  <2>1. Holds(c) = {}
    BY HoldsAt DEF Init, Syncs, Walks, Receives
  <2>2. \A k \in Keys : holder[k] # c
    BY ClientAssumption DEF Init
  <2>3. QED
    BY <2>1, <2>2
<1>3. QED
  BY <1>1, <1>2 DEF LInv, LocksMatch

LEMMA TakeLockMatch ==
  ASSUME LInv, NEW c \in Clients, TakeLock(c)
  PROVE  LocksMatch' /\ LeftHeld'
<1>1. KeyAsked(c) \in Keys
  BY KeysOf DEF KeyAsked, TakeLock, Asks
<1>2. pc'[c] = Part[pc[c]] /\ \A d \in Clients \ {c} : pc'[d] = pc[d]
  BY DEF TakeLock, Goto, LInv, TInv, TypeOK
<1>3. UNCHANGED folder
  BY DEF TakeLock
<1>4. Holds(c) = {}
  BY HoldsAt DEF TakeLock, Asks, Syncs, Walks, Receives
<1>5. Holds(c)' = {KeyAsked(c)}
  <2>1. CASE pc[c] = "askSync"
    <3>1. KeyAsked(c) = SyncKey(c) /\ pc'[c] = "list"
      BY <1>2, <2>1 DEF KeyAsked, Part
    <3>2. QED
      BY <1>3, <3>1, HoldsNext DEF Syncs
  <2>2. CASE pc[c] \in {"askWalk", "askCreate"}
    <3>1. KeyAsked(c) = WalkKey(c) /\ pc'[c] \in {"walk", "create"}
      BY <1>2, <2>2 DEF KeyAsked, Part
    <3>2. QED
      BY <1>3, <3>1, HoldsNext DEF Walks
  <2>3. CASE pc[c] = "askReceive"
    <3>1. KeyAsked(c) = ReceiveKey(c) /\ pc'[c] = "receive"
      BY <1>2, <2>3 DEF KeyAsked, Part
    <3>2. QED
      BY <1>3, <3>1, HoldsNext DEF Receives
  <2>4. QED
    BY <2>1, <2>2, <2>3 DEF TakeLock, Asks
<1>6. \A d \in Clients \ {c} : Holds(d)' = Holds(d)
  BY <1>2, <1>3, HoldsNext
<1>7. QED
  BY <1>1, <1>3, <1>4, <1>5, <1>6, LockTaken DEF TakeLock

(* A session that gives back the lock of its part goes where it has none.  *)
LEMMA ReturnMatch ==
  ASSUME LInv, NEW c \in Clients,
         Serve(c) \/ UpdatesDone(c) \/ Creates(c) \/ Rebuild(c)
  PROVE  LocksMatch' /\ LeftHeld'
<1>1. PICK l \in {"request", "delete", "done"} : Goto(c, l)
  BY DEF Serve, UpdatesDone, Creates, Rebuild
<1>2. UNCHANGED folder
  BY DEF Serve, UpdatesDone, Creates, Rebuild
<1>3. pc'[c] = l /\ \A d \in Clients \ {c} : pc'[d] = pc[d]
  BY <1>1 DEF Goto, LInv, TInv, TypeOK
<1>4. /\ Holds(c)' = {}
      /\ \A d \in Clients \ {c} : Holds(d)' = Holds(d)
  BY <1>2, <1>3, HoldsNext DEF Syncs, Walks, Receives
<1>5. \E k \in Keys : Unlock(k) /\ Holds(c) = {k}
  <2>1. CASE Serve(c)
    BY <2>1, HoldsAt, KeysOf DEF Serve, At, Syncs
  <2>2. CASE UpdatesDone(c) \/ Creates(c)
    BY <2>2, HoldsAt, KeysOf DEF UpdatesDone, Creates, At, Walks
  <2>3. CASE Rebuild(c)
    BY <2>3, HoldsAt, KeysOf DEF Rebuild, At, Receives
  <2>4. QED
    BY <2>1, <2>2, <2>3
<1>6. QED
  BY <1>2, <1>4, <1>5, LockReturned

LEMMA WalkFailsMatch ==
  ASSUME LInv, NEW c \in Clients, WalkFails(c)
  PROVE  LocksMatch' /\ LeftHeld'
<1>1. pc[c] = "walked" /\ UNCHANGED << folder, holder >>
  BY DEF WalkFails, At
<1>2. pc'[c] = "ended" /\ \A d \in Clients \ {c} : pc'[d] = pc[d]
  BY DEF WalkFails, Goto, LInv, TInv, TypeOK
<1>3. /\ Holds(c) = {WalkKey(c)} /\ Holds(c)' = {}
      /\ \A d \in Clients \ {c} : Holds(d)' = Holds(d)
  BY <1>1, <1>2, HoldsAt, HoldsNext DEF Syncs, Walks, Receives
<1>4. QED
  BY <1>1, <1>3, KeysOf, LockLeft DEF WalkFails

(* Where a session goes without a lock, or within one part.                *)
LEMMA MoveMatch ==
  ASSUME LInv, NEW c \in Clients,
         \/ Connect(c) \/ List(c) \/ Fetch(c) \/ Request(c) \/ Wake(c)
         \/ Walk(c) \/ Deletes(c) \/ Done(c) \/ DoneFails(c)
         \/ Receive(c) \/ Write(c) \/ ReceiveEOF(c)
  PROVE  LocksMatch' /\ LeftHeld'
<1> USE DEF At, locks, Syncs, Walks, Receives
<1>1. CASE Connect(c)
  BY <1>1, GoesWith DEF Connect
<1>2. CASE List(c)
  <2>1. PICK l \in {"serve", "fetch"} : Goto(c, l)
    BY <1>2 DEF List
  <2>2. QED
    BY <1>2, <2>1, GoesWith DEF List
<1>3. CASE Fetch(c)
  BY <1>3, GoesWith DEF Fetch
<1>4. CASE Request(c)
  <2>1. PICK l \in {"nap", "spinning"} : Goto(c, l)
    BY <1>4 DEF Request
  <2>2. QED
    BY <1>4, <2>1, GoesWith DEF Request
<1>5. CASE Wake(c)
  BY <1>5, GoesWith DEF Wake
<1>6. CASE Walk(c)
  BY <1>6, GoesWith DEF Walk
<1>7. CASE Deletes(c)
  BY <1>7, GoesWith DEF Deletes
<1>8. CASE Done(c)
  BY <1>8, GoesWith DEF Done
<1>9. CASE DoneFails(c)
  BY <1>9, GoesWith DEF DoneFails
<1>10. CASE Receive(c)
  <2>1. PICK l \in {"rebuild", "write"} : Goto(c, l)
    BY <1>10 DEF Receive
  <2>2. QED
    BY <1>10, <2>1, GoesWith DEF Receive
<1>11. CASE Write(c)
  BY <1>11, GoesWith DEF Write
<1>12. CASE ReceiveEOF(c)
  BY <1>12, GoesWith DEF ReceiveEOF
<1>13. QED
  BY <1>1, <1>2, <1>3, <1>4, <1>5, <1>6, <1>7, <1>8, <1>9, <1>10, <1>11, <1>12

(* The steps of clients, users and a process that ends.                    *)
LEMMA StayMatch ==
  ASSUME LInv, UNCHANGED << folder, pc, holder, left >>
  PROVE  LocksMatch' /\ LeftHeld'
  BY HoldsNext, LocksKept

LEMMA NextLInv == LInv /\ [Next]_vars => LInv'
<1> SUFFICES ASSUME LInv, [Next]_vars PROVE LInv'
  OBVIOUS
<1>1. TInv'
  BY NextTInv DEF LInv
<1>2. ASSUME NEW c \in Clients, Connect(c) \/ TakeLock(c) \/ Alone(c)
                                \/ Talks(c) \/ Client(c) \/ Environment(c)
      PROVE  LocksMatch' /\ LeftHeld'
  <2>1. CASE TakeLock(c)
    BY <2>1, TakeLockMatch
  <2>2. CASE Client(c) \/ Environment(c) \/ SyncEOF(c) \/ BrokenPipe(c)
             \/ ListFails(c)
    BY <2>2, StayMatch
    DEF Client, Environment, ClientReceive, ClientWalk, Edit, Falter, SyncEOF,
        BrokenPipe, ListFails, locks
  <2>3. CASE Connect(c) \/ Alone(c) \/ Talks(c)
    BY <2>2, <2>3, ReturnMatch, MoveMatch, WalkFailsMatch DEF Alone, Talks
  <2>4. QED
    BY <1>2, <2>1, <2>2, <2>3
<1>3. CASE UNCHANGED vars
  <2>1. LocksMatch' /\ LeftHeld'
    BY <1>3, StayMatch DEF vars, locks
  <2>2. QED
    BY <1>1, <2>1 DEF LInv
<1>4. QED
  BY <1>1, <1>2, <1>3 DEF LInv, Next

(* No lock outlives the part it was taken for, except the one a failed     *)
(* walk leaves behind, and no session asks for a lock while it has one.    *)
THEOREM LocksFollowParts == Spec => []LocksMatch
<1>1. LInv => LocksMatch
  BY DEF LInv
<1>2. QED
  BY InitLInv, NextLInv, <1>1, PTL DEF Spec

(* What a session is at under a lock, no other session is at under it.     *)
LEMMA OneHolder ==
  ASSUME LocksMatch, NEW c \in Clients, NEW d \in Clients, NEW k,
         Holds(c) = {k}, Holds(d) = {k}
  PROVE  c = d
  BY DEF LocksMatch

(* Two initial synchronisations of a folder, two walks of it, and two      *)
(* receives of any folders exclude each other.                             *)
THEOREM PartsExclude == Spec => []Excludes
<1>1. LInv => Excludes
  <2> SUFFICES ASSUME LocksMatch, NEW c \in Clients, NEW d \in Clients, c # d
               PROVE  /\ folder[c] = folder[d] =>
                           ~ \E part \in {Syncs, Walks} :
                               pc[c] \in part /\ pc[d] \in part
                      /\ ~ {pc[c], pc[d]} \subseteq Receives
    BY DEF LInv, Excludes, Syncs, Walks, Receives
  <2>1. ~ {pc[c], pc[d]} \subseteq Receives
    <3>1. ReceiveKey(c) = ReceiveKey(d)
      BY DEF ReceiveKey
    <3>2. QED
      BY <3>1, HoldsAt, OneHolder
  <2>2. ASSUME folder[c] = folder[d]
        PROVE  /\ ~ (pc[c] \in Syncs /\ pc[d] \in Syncs)
               /\ ~ (pc[c] \in Walks /\ pc[d] \in Walks)
    <3>1. SyncKey(c) = SyncKey(d) /\ WalkKey(c) = WalkKey(d)
      BY <2>2 DEF SyncKey, WalkKey
    <3>2. QED
      BY <3>1, HoldsAt, OneHolder
  <2>3. QED
    BY <2>1, <2>2
<1>2. QED
  BY InitLInv, NextLInv, <1>1, PTL DEF Spec

-----------------------------------------------------------------------------
(* Clients with a folder of their own. Only their own session writes the   *)
(* file, and then forgets that its mtime has changed: nothing of theirs is *)
(* ever sent back to them.                                                 *)
Own == {"fetch", "serve", "write", "rebuild"}
Early == {"new", "askSync", "list", "serve"}

Lone(c) ==
  ~ Shares(c) => /\ differs[c] => pc[c] \in Own
                 /\ update[c] = Nothing
                 /\ copy[c] # Half
                 /\ pc[c] \in Early => file[folder[c]] # Half

LoneInv == TInv /\ \A c \in Clients : Lone(c)

LEMMA SharesStay == ASSUME UNCHANGED folder, NEW c PROVE Shares(c)' = Shares(c)
  BY DEF Shares

(* What the session of another client stores is another file.              *)
LEMMA StoreElsewhere ==
  ASSUME TInv, NEW c \in Clients, NEW d \in Clients, ~ Shares(c), c # d,
         NEW t, Store(d, t)
  PROVE  file'[folder[c]] = file[folder[c]] /\ differs'[c] = differs[c]
<1>1. folder[d] # folder[c]
  BY DEF Shares
<1>2. QED
  BY <1>1 DEF Store, TInv, TypeOK

LEMMA StoreHere ==
  ASSUME TInv, NEW c \in Clients, NEW t, Store(c, t)
  PROVE  file'[folder[c]] = t
  BY DEF Store, TInv, TypeOK

LEMMA InitLone == Init => LoneInv
<1>1. NoFile # Half
  BY TextsHave
<1>2. Init => \A c \in Clients : Lone(c)
  BY <1>1 DEF Init, Lone
<1>3. QED
  BY <1>2, InitTInv DEF LoneInv

(* A step of another client, its session and its user.                     *)
LEMMA LoneOther ==
  ASSUME LoneInv, NEW c \in Clients, NEW d \in Clients, c # d, ~ Shares(c),
         Connect(d) \/ TakeLock(d) \/ Alone(d) \/ Talks(d) \/ Client(d)
         \/ Environment(d)
  PROVE  /\ differs'[c] = differs[c] /\ update'[c] = update[c]
         /\ copy'[c] = copy[c] /\ pc'[c] = pc[c]
         /\ file'[folder[c]] = file[folder[c]] /\ folder' = folder
<1> USE DEF LoneInv, TInv, TypeOK, Goto, locks, server, clients, bounds
<1>1. folder' = folder
  BY DEF Connect, TakeLock, Alone, Wake, Rebuild, Talks, List, Fetch, Serve,
         SyncEOF, Request, Walk, UpdatesDone, Deletes, Creates, Done, BrokenPipe,
         WalkFails, DoneFails, ListFails, Receive, Write, ReceiveEOF, Client,
         ClientReceive, ClientWalk, Environment, Edit, Falter
<1>2. pc'[c] = pc[c]
  BY DEF Connect, TakeLock, Alone, Wake, Rebuild, Talks, List, Fetch, Serve,
         SyncEOF, Request, Walk, UpdatesDone, Deletes, Creates, Done, BrokenPipe,
         WalkFails, DoneFails, ListFails, Receive, Write, ReceiveEOF, Client,
         ClientReceive, ClientWalk, Environment, Edit, Falter
<1>3. update'[c] = update[c] /\ copy'[c] = copy[c]
  BY DEF Connect, TakeLock, Alone, Wake, Rebuild, Talks, List, Fetch, Serve,
         SyncEOF, Request, Walk, UpdatesDone, Deletes, Creates, Done, BrokenPipe,
         WalkFails, DoneFails, ListFails, Receive, Write, ReceiveEOF, Client,
         ClientReceive, ClientWalk, Environment, Edit, Falter
<1>4. differs'[c] = differs[c] /\ file'[folder[c]] = file[folder[c]]
  <2>1. CASE List(d) \/ Fetch(d) \/ Receive(d) \/ Write(d)
    BY <2>1, StoreElsewhere DEF List, Fetch, Receive, Write
  <2>2. CASE Connect(d) \/ TakeLock(d) \/ Alone(d) \/ Client(d)
             \/ Environment(d)
    BY <2>2 DEF Connect, TakeLock, Alone, Wake, Rebuild, Client, ClientReceive,
                ClientWalk, Environment, Edit, Falter, Remember
  <2>3. CASE Serve(d) \/ SyncEOF(d) \/ Request(d) \/ Walk(d)
             \/ UpdatesDone(d) \/ Deletes(d) \/ Creates(d) \/ Done(d)
             \/ BrokenPipe(d) \/ WalkFails(d) \/ DoneFails(d) \/ ListFails(d)
             \/ ReceiveEOF(d)
    BY <2>3 DEF Serve, SyncEOF, Request, Walk, UpdatesDone, Deletes, Creates,
                Done, BrokenPipe, WalkFails, DoneFails, ListFails, ReceiveEOF,
                Remember
  <2>4. QED
    BY <2>1, <2>2, <2>3 DEF Talks
<1>5. QED
  BY <1>1, <1>2, <1>3, <1>4

(* A step of the client itself, its session and its user.                  *)
LEMMA LoneSelf ==
  ASSUME LoneInv, NEW c \in Clients, ~ Shares(c),
         Connect(c) \/ TakeLock(c) \/ Alone(c) \/ Talks(c) \/ Client(c)
         \/ Environment(c)
  PROVE  /\ folder' = folder /\ Lone(c)'
         /\ copy[c] # NoFile => copy'[c] \in {copy[c], edits'}
<1> USE DEF LoneInv, TInv, TypeOK, Goto, At, locks, server, clients, bounds
<1>1. folder' = folder
  BY DEF Connect, TakeLock, Alone, Wake, Rebuild, Talks, List, Fetch, Serve,
         SyncEOF, Request, Walk, UpdatesDone, Deletes, Creates, Done, BrokenPipe,
         WalkFails, DoneFails, ListFails, Receive, Write, ReceiveEOF, Client,
         ClientReceive, ClientWalk, Environment, Edit, Falter
<1>2. SUFFICES /\ differs'[c] => pc'[c] \in Own
               /\ update'[c] = Nothing
               /\ copy'[c] # Half
               /\ pc'[c] \in Early => file'[folder[c]] # Half
               /\ copy[c] # NoFile => copy'[c] \in {copy[c], edits'}
  BY <1>1, SharesStay DEF Lone
<1>3. /\ differs[c] => pc[c] \in Own
      /\ update[c] = Nothing
      /\ copy[c] # Half
      /\ pc[c] \in Early => file[folder[c]] # Half
  BY DEF Lone
<1> USE <1>3 DEF Own, Early
<1>4. CASE Connect(c) \/ Alone(c) \/ Client(c)
  BY <1>4 DEF Connect, Alone, Wake, Rebuild, Client, ClientReceive, ClientWalk,
              Remember
<1>5. CASE TakeLock(c)
  <2>1. pc[c] \in Asks /\ pc'[c] = Part[pc[c]]
    BY <1>5 DEF TakeLock
  <2>2. ~ differs[c]
    BY <2>1 DEF Asks
  <2>3. pc'[c] \in Early => pc[c] = "askSync"
    BY <2>1 DEF Asks, Part
  <2>4. QED
    BY <1>5, <2>2, <2>3 DEF TakeLock
<1>6. CASE Environment(c)
  <2>1. CASE Edit(c)
    <3>1. edits + 1 \in 1 .. MaxEdits
      BY <2>1, ClientAssumption DEF Edit
    <3>2. QED
      BY <2>1, <3>1, TextsHave DEF Edit
  <2>2. CASE Falter(c)
    BY <2>2 DEF Falter
  <2>3. QED
    BY <1>6, <2>1, <2>2 DEF Environment
<1>7. CASE List(c)
  BY <1>7 DEF List
<1>8. CASE Fetch(c)
  BY <1>8, StoreHere DEF Fetch
<1>9. CASE Serve(c)
  BY <1>9 DEF Serve, Remember
<1>10. CASE Receive(c) \/ Write(c) \/ ReceiveEOF(c)
  BY <1>10 DEF Receive, Write, ReceiveEOF
<1>11. CASE Walk(c)
  BY <1>11 DEF Walk, Remember
<1>12. CASE SyncEOF(c) \/ BrokenPipe(c) \/ ListFails(c)
  BY <1>12 DEF SyncEOF, BrokenPipe, ListFails
<1>13. CASE Request(c) \/ UpdatesDone(c) \/ Deletes(c) \/ Creates(c)
            \/ Done(c) \/ WalkFails(c) \/ DoneFails(c)
  BY <1>13 DEF Request, UpdatesDone, Deletes, Creates, Done, WalkFails, DoneFails
<1>14. QED
  BY <1>4, <1>5, <1>6, <1>7, <1>8, <1>9, <1>10, <1>11, <1>12, <1>13 DEF Talks

(* A step of the system, for one client.                                   *)
LEMMA LoneStep ==
  ASSUME LoneInv, [Next]_vars, NEW c \in Clients
  PROVE  /\ Lone(c)'
         /\ ~ Shares(c) /\ copy[c] # NoFile => copy'[c] \in {copy[c], edits'}
<1>1. CASE UNCHANGED vars
  BY <1>1, SharesStay DEF vars, server, clients, LoneInv, Lone
<1>2. ASSUME NEW d \in Clients,
             Connect(d) \/ TakeLock(d) \/ Alone(d) \/ Talks(d) \/ Client(d)
             \/ Environment(d)
      PROVE  /\ Lone(c)'
             /\ ~ Shares(c) /\ copy[c] # NoFile => copy'[c] \in {copy[c], edits'}
  <2>1. CASE Shares(c)
    <3>1. folder' = folder
      BY <1>2
      DEF Connect, TakeLock, Alone, Wake, Rebuild, Talks, List, Fetch, Serve,
          SyncEOF, Request, Walk, UpdatesDone, Deletes, Creates, Done,
          BrokenPipe, WalkFails, DoneFails, ListFails, Receive, Write,
          ReceiveEOF, Client, ClientReceive, ClientWalk, Environment, Edit,
          Falter
    <3>2. QED
      BY <2>1, <3>1, SharesStay DEF Lone
  <2>2. CASE ~ Shares(c) /\ c = d
    BY <1>2, <2>2, LoneSelf
  <2>3. CASE ~ Shares(c) /\ c # d
    <3>1. /\ differs'[c] = differs[c] /\ update'[c] = update[c]
          /\ copy'[c] = copy[c] /\ pc'[c] = pc[c]
          /\ file'[folder[c]] = file[folder[c]] /\ folder' = folder
      BY <1>2, <2>3, LoneOther
    <3>2. QED
      BY <2>3, <3>1, SharesStay DEF LoneInv, Lone
  <2>4. QED
    BY <2>1, <2>2, <2>3
<1>3. QED
  BY <1>1, <1>2 DEF Next

LEMMA NextLone == LoneInv /\ [Next]_vars => LoneInv'
  BY NextTInv, LoneStep DEF LoneInv

(* A client never has half a file unless it shares its folder.             *)
THEOREM HalvesExplained == Spec => []HalfExplained
<1>1. LoneInv => HalfExplained
  BY DEF LoneInv, Lone, HalfExplained
<1>2. QED
  BY InitLone, NextLone, <1>1, PTL DEF Spec

(* Nothing undoes the edits of a client that has its folder for itself:    *)
(* its file only changes to its user's next text.                          *)
THEOREM OwnEditsKept == Spec => EditsKept
<1>1. LoneInv /\ [Next]_vars =>
        [\A c \in Clients : ~ Shares(c) /\ copy[c] # NoFile =>
           copy'[c] \in {copy[c], edits'}]_vars
  BY LoneStep
<1>2. QED
  BY InitLone, NextLone, <1>1, PTL DEF Spec, EditsKept
=============================================================================
