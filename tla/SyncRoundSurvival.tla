------------------------- MODULE SyncRoundSurvival -------------------------
(***************************************************************************)
(* Proofs that the server of SyncRound is not brought down by what a       *)
(* client's user does, at any time and in any round, when nobody edits the *)
(* server's directory meanwhile.                                           *)
(*                                                                         *)
(* The server exits on an update of a file it does not have, or on a write *)
(* to a client that has exited. So what the client remembers must be at    *)
(* the server: all that the client's walk has found, whatever its user     *)
(* does to the disk in the middle of the walk and between it and the two   *)
(* lists.                                                                  *)
(***************************************************************************)
EXTENDS SyncMergeProofs

(* Only clients edit, and a name is a folder's or a file's; that of the    *)
(* log is a file's.                                                        *)
ClientOnly ==
  /\ "server" \notin Editors
  /\ \A p \in Paths : Kinds[p] # {"file", "dir"}
  /\ << LogName >> \in Paths => "file" \in Kinds[<< LogName >>]

(* Nothing turns up that is not of the kind of its name.                   *)
OfKind(p, k) == k = "none" \/ k \in Kinds[p]
DiskKinds == \A h \in Hosts, p \in Paths : OfKind(p, Kind(disk[h][p]))
TreeKinds == \A h \in Hosts, p \in Paths : OfKind(p, tree[h][p]) /\ OfKind(p, new[h][p])
Fitting(m) ==
  /\ m.t = "SYNC_FILE" => "file" \in Kinds[m.p]
  /\ m.t = "SYNC_FOLDER" => "dir" \in Kinds[m.p]
MessageKinds == \A h \in Hosts : \A i \in 1 .. Len(chan[h]) : Fitting(chan[h][i])
ListKinds == \A h \in Hosts : pc[h] = "create" => todo[h] \subseteq Created(h)
KindsKept == DiskKinds /\ TreeKinds /\ MessageKinds /\ ListKinds

(* Nothing is new at the server when it walks.                             *)
NothingNew == pc["server"] \in {"wait", "sleep", "scan"} => stale["server"] = {}

(* All that is in the tree t is on the disk dk.                            *)
Has(dk, t) == \A p \in Paths : t[p] # "none" => Kind(dk[p]) = t[p]

(* Between rounds, and while the server walks.                             *)
Known == new["client"] = NoTree /\ Has(disk["server"], tree["client"])

(* The server has no updates to send.                                      *)
ServerTelling ==
  /\ pc["server"] \in Sending \cup {"recv"} /\ pc["client"] = "recv" /\ Known
  /\ \E f : /\ Labelling(f, chan["client"]) /\ Reads("client", f[1])
            /\ f[Len(chan["client"]) + 1] = Stage("server", pc["server"])
            /\ \A i \in 1 .. Len(chan["client"]) : About(chan["client"], i) => f[i] # 0

(* The walk of the client goes from the tree o to the tree n.              *)
Walking(o, n) ==
  /\ IF Writing("client") THEN tree["client"] = o /\ new["client"] = n
                          ELSE tree["client"] = n /\ new["client"] = NoTree
  /\ WellFormed(n)
  /\ \A p \in Paths : OfKind(p, o[p]) /\ OfKind(p, n[p])
  /\ pc["client"] = "scan" => \A p \in todo["client"] : n[p] = "none"
  /\ pc["client"] = "delete" => \A p \in todo["client"] : n[p] = "none"
  /\ pc["client"] = "create" => \A p \in todo["client"] : n[p] # "none"

(* What the label a says of a message agrees with the two trees.           *)
Agrees(o, n, a, m) ==
  /\ a = 0 => o[m.p] = "file"
  /\ a = 2 => n[m.p] = "none"
  /\ a = 4 => n[m.p] = IF m.t = "SYNC_FOLDER" THEN "dir" ELSE "file"

(* What is new in n will come to the server.                               *)
Coming(o, n, s, f, p) ==
  /\ o[p] = "none"
  /\ \/ pc["client"] \in {"startDelete", "delete", "startCreate"}
     \/ pc["client"] = "create" /\ p \in todo["client"]
     \/ Pending(s, f, 4, p)

Telling(o, n, s, f) ==
  /\ Labelling(f, s) /\ Reads("server", f[1])
  /\ f[Len(s) + 1] = Stage("client", pc["client"])
  /\ \A i \in 1 .. Len(s) : About(s, i) => Agrees(o, n, f[i], s[i])
  /\ Sorted("client", s, f)
  /\ f[1] <= 1 => Has(disk["server"], o)
  /\ pc["client"] # "scan" => \A p \in Paths : n[p] # "none" =>
       Kind(disk["server"][p]) = n[p] \/ Coming(o, n, s, f, p)

ClientTelling ==
  /\ pc["server"] \in {"recv", "rebuild"} /\ pc["client"] \in Sending \cup {"recv"}
  /\ \E o, n, f : Walking(o, n) /\ Telling(o, n, chan["server"], f)

Survives ==
  /\ ~Down /\ KindsKept /\ NothingNew
  /\ IF pc["server"] \in {"wait", "sleep"} THEN Known
     ELSE ServerTelling \/ ClientTelling

-----------------------------------------------------------------------------
(* Kinds.                                                                  *)

(* A name is not a folder's and a file's.                                  *)
LEMMA OneKind ==
  ASSUME ClientOnly, NEW p \in Paths, NEW a, NEW b, OfKind(p, a), OfKind(p, b),
         a # "none", b # "none"
  PROVE  a = b /\ a \in {"file", "dir"} /\ (a \in Kinds[p] <=> OfKind(p, a))
<1>1. Kinds[p] \subseteq {"file", "dir"} /\ Kinds[p] # {"file", "dir"}
  BY DataAssumption DEF ClientOnly
<1>2. a \in Kinds[p] /\ b \in Kinds[p]
  BY DEF OfKind
<1> QED BY <1>1, <1>2 DEF OfKind

(* What is not there has no kind, and so on.                               *)
LEMMA KindOf ==
  /\ Kind("none") = "none" /\ Kind("dir") = "dir"
  /\ \A c \in FileData : Kind(c) = "file"
  /\ \A c \in Node : /\ Kind(c) = "none" <=> c = "none"
                     /\ Kind(c) = "dir" <=> c = "dir"
                     /\ Kind(c) = "file" <=> c \in FileData
BY DataAssumption DEF Kind, FileData, Node

(* A message of a fitting kind joins the others.                           *)
LEMMA KindsSent ==
  ASSUME TypeOK, MessageKinds, NEW h \in Hosts, NEW m \in Message, Fitting(m), Send(h, m)
  PROVE  MessageKinds'
<1> DEFINE w == Peer(h)
<1>1. chan[w] \in Seq(Message) /\ w \in Hosts
  BY TwoHosts DEF TypeOK
<1>2. /\ chan'[w] = Append(chan[w], m)
      /\ \A k \in Hosts : k # w => chan'[k] = chan[k]
  BY <1>1 DEF Send, TypeOK
<1>3. PICK s \in Seq(Message) : s = chan[w]
  BY <1>1
<1>4. /\ Len(Append(s, m)) = Len(s) + 1 /\ Len(s) \in Nat /\ Append(s, m)[Len(s) + 1] = m
      /\ \A i \in 1 .. Len(s) : Append(s, m)[i] = s[i]
  BY AppendProperties
<1>5. \A i \in 1 .. Len(s) : Fitting(s[i])
  BY <1>1, <1>3 DEF MessageKinds
<1>6. \A i \in 1 .. Len(Append(s, m)) : Fitting(Append(s, m)[i])
  BY <1>4, <1>5
<1> HIDE DEF w
<1>7. ASSUME NEW k \in Hosts PROVE \A i \in 1 .. Len(chan'[k]) : Fitting(chan'[k][i])
  <2>1. CASE k = w
    BY <1>2, <1>3, <1>6, <2>1
  <2>2. CASE k # w
    BY <1>2, <2>2 DEF MessageKinds
  <2> QED BY <2>1, <2>2
<1>8. \A m2 : Fitting(m2)' <=> Fitting(m2)
  BY DEF Fitting
<1> QED BY <1>7 DEF MessageKinds, Fitting

(* When one is taken the others stay.                                      *)
LEMMA KindsTaken ==
  ASSUME TypeOK, MessageKinds, NEW h \in Hosts, chan[h] # << >>, Consume(h)
  PROVE  MessageKinds' /\ Fitting(Msg(h))
<1>1. PICK s \in Seq(Message) : s = chan[h]
  BY DEF TypeOK
<1>2. /\ chan'[h] = Tail(s) /\ \A k \in Hosts : k # h => chan'[k] = chan[k]
  BY <1>1 DEF Consume, TypeOK
<1>3. /\ Len(Tail(s)) = Len(s) - 1 /\ Len(s) \in Nat \ {0} /\ Head(s) = s[1]
      /\ \A i \in 1 .. Len(Tail(s)) : Tail(s)[i] = s[i + 1]
  BY <1>1, HeadTailProperties
<1>4. \A i \in 1 .. Len(s) : Fitting(s[i])
  BY <1>1 DEF MessageKinds
<1>5. Fitting(Head(s)) /\ \A i \in 1 .. Len(Tail(s)) : Fitting(Tail(s)[i])
  BY <1>3, <1>4
<1>6. ASSUME NEW k \in Hosts PROVE \A i \in 1 .. Len(chan'[k]) : Fitting(chan'[k][i])
  <2>1. CASE k = h
    BY <1>2, <1>5, <2>1
  <2>2. CASE k # h
    BY <1>2, <2>2 DEF MessageKinds
  <2> QED BY <2>1, <2>2
<1> QED BY <1>1, <1>5, <1>6 DEF MessageKinds, Fitting, Msg

(* What a walk finds, and what it sends of it.                             *)
LEMMA KindsWalk ==
  ASSUME TypeOK, KindsKept, NEW h \in Hosts, Walk(h), ~BrokenPipe(h)
  PROVE  KindsKept'
<1>1. /\ pc \in [Hosts -> Labels] /\ todo \in [Hosts -> SUBSET Paths]
      /\ new \in [Hosts -> [Paths -> Kinded]] /\ tree \in [Hosts -> [Paths -> Kinded]]
      /\ disk \in [Hosts -> [Paths -> Node]] /\ NoTree \in [Paths -> Kinded]
  BY DEF TypeOK, NoTree, Kinded
<1>2. DiskKinds /\ TreeKinds /\ MessageKinds /\ ListKinds
  BY DEF KindsKept
(* What enters the new tree is of the kind of what is on the disk.         *)
<1>3. ASSUME NEW p \in Paths, Record(h, p), UNCHANGED << disk, tree, pc >>, pc[h] = "scan"
      PROVE  DiskKinds' /\ TreeKinds' /\ ListKinds'
  <2>1. /\ new' = [new EXCEPT ![h][p] = Kind(disk[h][p])]
        /\ \A k \in Hosts : k # h => todo'[k] = todo[k]
    BY <1>1, <1>3 DEF Record, Walked
  <2>2. \A k \in Hosts, q \in Paths :
          new'[k][q] = IF k = h /\ q = p THEN Kind(disk[h][p]) ELSE new[k][q]
    BY <1>1, <2>1
  <2>3. TreeKinds'
    BY <1>2, <1>3, <2>2 DEF TreeKinds, DiskKinds, OfKind
  <2>4. \A k \in Hosts : k # h => Created(k)' = Created(k)
    BY <1>3, <2>2 DEF Created
  <2>5. ListKinds'
    BY <1>2, <1>3, <2>1, <2>4 DEF ListKinds
  <2> QED BY <1>2, <1>3, <2>3, <2>5 DEF DiskKinds, OfKind
(* The trees stay, and a list is shorter or new.                           *)
<1>4. ASSUME UNCHANGED << disk, tree, new >>,
             \A k \in Hosts : k # h => todo'[k] = todo[k] /\ pc'[k] = pc[k],
             pc'[h] = "create" => todo'[h] \subseteq Created(h)
      PROVE  DiskKinds' /\ TreeKinds' /\ ListKinds'
  <2>1. \A k \in Hosts : Created(k)' = Created(k)
    BY <1>4 DEF Created
  <2>2. ListKinds'
    BY <1>2, <1>4, <2>1 DEF ListKinds
  <2> QED BY <1>2, <1>4, <2>2 DEF DiskKinds, TreeKinds, OfKind
<1>5. ASSUME chan' = chan PROVE MessageKinds'
  BY <1>2, <1>5 DEF MessageKinds, Fitting
<1>6. ASSUME NEW t \in Tokens, Send(h, Token(t)) PROVE MessageKinds'
  <2>1. Token(t) \in Message /\ Fitting(Token(t))
    BY MessageTyped DEF Fitting, Token, Tokens
  <2> QED BY <1>2, <1>6, <2>1, KindsSent
<1>7. ASSUME NEW p \in Paths, Visit(h, p) \/ Miss(h, p) PROVE KindsKept'
  <2>1. CASE Visit(h, p)
    BY <1>3, <1>5, <2>1 DEF Visit, KindsKept
  <2>2. CASE Miss(h, p)
    <3>1. DiskKinds' /\ TreeKinds' /\ ListKinds'
      BY <1>1, <1>4, <2>2 DEF Miss, Walked
    <3> QED BY <1>5, <2>2, <3>1 DEF Miss, KindsKept
  <2> QED BY <1>7, <2>1, <2>2
<1>8. ASSUME NEW p \in Paths, SendUpdate(h, p) PROVE KindsKept'
  <2>1. /\ Kind(disk[h][p]) = "file" /\ Send(h, FileMsg(p, disk[h][p]))
    BY <1>8 DEF SendUpdate, Changed
  <2>2. FileMsg(p, disk[h][p]) \in Message
    BY <1>1, <2>1, FileKind, MessageTyped
  <2>3. Fitting(FileMsg(p, disk[h][p]))
    BY <1>2, <2>1 DEF Fitting, FileMsg, DiskKinds, OfKind
  <2>4. MessageKinds'
    BY <1>2, <2>1, <2>2, <2>3, KindsSent
  <2> QED BY <1>3, <1>8, <2>4 DEF SendUpdate, KindsKept
<1>9. ASSUME NEW p \in Paths, SendDelete(h, p) PROVE KindsKept'
  <2>1. PathMsg(p) \in Message /\ Fitting(PathMsg(p))
    BY MessageTyped DEF Fitting, PathMsg
  <2>2. MessageKinds'
    BY <1>2, <1>9, <2>1, KindsSent DEF SendDelete
  <2>3. DiskKinds' /\ TreeKinds' /\ ListKinds'
    BY <1>1, <1>4, <1>9 DEF SendDelete, Walked
  <2> QED BY <2>2, <2>3 DEF KindsKept
<1>10. ASSUME NEW p \in Paths, SendCreate(h, p) PROVE KindsKept'
  <2>1. /\ pc[h] = "create" /\ p \in todo[h] /\ UNCHANGED << disk, tree, new, pc >>
        /\ todo' = [todo EXCEPT ![h] = @ \ {p}]
        /\ Send(h, IF new[h][p] = "dir" THEN FolderMsg(p) ELSE FileMsg(p, ContentNow(h, p)))
    BY <1>10 DEF SendCreate, InWalk, Walked
  <2>2. PICK m : m = IF new[h][p] = "dir" THEN FolderMsg(p) ELSE FileMsg(p, ContentNow(h, p))
    OBVIOUS
  <2>3. todo[h] \subseteq Created(h) /\ new[h][p] \in {"dir", "file"} /\ new[h][p] \in Kinds[p]
    <3>1. todo[h] \subseteq Created(h)
      BY <1>2, <2>1 DEF ListKinds
    <3>2. new[h][p] # "none" /\ new[h][p] \in Kinded
      BY <1>1, <2>1, <3>1 DEF Created
    <3> QED BY <1>2, <3>1, <3>2 DEF TreeKinds, OfKind, Kinded
  <2>4. m \in Message
    <3>1. ContentNow(h, p) \in FileData
      BY DEF ContentNow, FileData
    <3> QED BY <2>2, <3>1, MessageTyped
  <2>5. Fitting(m)
    BY <2>2, <2>3 DEF Fitting, FolderMsg, FileMsg
  <2>6. MessageKinds'
    BY <1>2, <2>1, <2>2, <2>4, <2>5, KindsSent
  <2>7. DiskKinds' /\ TreeKinds' /\ ListKinds'
    BY <1>1, <1>4, <2>1, <2>3
  <2> QED BY <2>6, <2>7 DEF KindsKept
<1>11. CASE UpdatesDone(h) \/ StartDeletes(h) \/ DeletesDone(h) \/ StartCreates(h)
  <2>1. PICK t \in Tokens : Send(h, Token(t))
    BY <1>11 DEF UpdatesDone, StartDeletes, DeletesDone, StartCreates, Tokens
  <2>2. /\ UNCHANGED << disk, tree, new >>
        /\ \A k \in Hosts : k # h => todo'[k] = todo[k] /\ pc'[k] = pc[k]
        /\ pc'[h] = "create" => todo'[h] \subseteq Created(h)
    BY <1>1, <1>11 DEF UpdatesDone, StartDeletes, DeletesDone, StartCreates, Goto
  <2> QED BY <1>4, <1>6, <2>1, <2>2 DEF KindsKept
<1>12. CASE CreatesDone(h)
  <2>1. /\ tree' = [tree EXCEPT ![h] = new[h]] /\ new' = [new EXCEPT ![h] = NoTree]
        /\ UNCHANGED << disk, todo >> /\ pc' = [pc EXCEPT ![h] = "finish"]
        /\ Send(h, Token("SYNC_CREATE_DONE"))
    BY <1>12 DEF CreatesDone, Goto
  <2>2. \A k \in Hosts : IF k = h THEN tree'[k] = new[h] /\ new'[k] = NoTree
                                  ELSE tree'[k] = tree[k] /\ new'[k] = new[k]
    BY <1>1, <2>1
  <2>3. TreeKinds'
    BY <1>2, <2>2 DEF TreeKinds, NoTree, OfKind
  <2>4. DiskKinds'
    BY <1>2, <2>1 DEF DiskKinds, OfKind
  <2>5. \A k \in Hosts : k # h => Created(k)' = Created(k)
    BY <2>2 DEF Created
  <2>6. ListKinds'
    BY <1>1, <1>2, <2>1, <2>5 DEF ListKinds
  <2>7. "SYNC_CREATE_DONE" \in Tokens
    BY DEF Tokens
  <2> QED BY <1>6, <2>1, <2>3, <2>4, <2>6, <2>7 DEF KindsKept
<1>13. CASE Finish(h) \/ AskAgain(h)
  <2>1. /\ Send(h, Token("DONE_CONTROL")) /\ "DONE_CONTROL" \in Tokens
        /\ UNCHANGED << disk, tree, new >>
        /\ \A k \in Hosts : k # h => todo'[k] = todo[k] /\ pc'[k] = pc[k]
        /\ pc'[h] # "create"
    BY <1>1, <1>13 DEF Finish, AskAgain, Goto, Tokens
  <2> QED BY <1>4, <1>6, <2>1 DEF KindsKept
<1> QED BY <1>7, <1>8, <1>9, <1>10, <1>11, <1>12, <1>13 DEF Walk

(* What the reader makes is of the kind the message says.                  *)
LEMMA KindsReceive ==
  ASSUME TypeOK, ProtoInv, KindsKept, ~Down, NEW h \in Hosts, Receive(h)
  PROVE  KindsKept'
<1>1. /\ pc \in [Hosts -> Labels] /\ todo \in [Hosts -> SUBSET Paths]
      /\ disk \in [Hosts -> [Paths -> Node]] /\ chan \in [Hosts -> Seq(Message)]
  BY DEF TypeOK
<1>2. DiskKinds /\ TreeKinds /\ MessageKinds /\ ListKinds
  BY DEF KindsKept
<1>3. UNCHANGED << tree, new >> /\ Incoming(h) /\ Consume(h)
  <2>1. ~RecvEOF(h)
    BY TwoHosts DEF RecvEOF, Down
  <2> QED BY <2>1 DEF Receive, RecvUpdate, RecvUpdateFails, RecvToken, RecvDelete, RecvCreate,
                 RecvListEnd, RecvDone, TopCase
<1>4. MessageKinds' /\ Fitting(Msg(h))
  BY <1>2, <1>3, KindsTaken DEF Incoming
<1>5. TreeKinds' /\ ListKinds'
  <2>1. /\ \A k \in Hosts : pc'[k] = "create" => pc[k] = "create" /\ todo'[k] = todo[k]
        /\ \A k \in Hosts : Created(k)' = Created(k)
    BY <1>1, <1>3 DEF Receive, RecvUpdate, RecvUpdateFails, RecvToken, RecvDelete, RecvCreate,
                RecvListEnd, RecvDone, RecvEOF, AfterReceive, Goto, Created
  <2> QED BY <1>2, <1>3, <2>1 DEF TreeKinds, ListKinds, OfKind
<1>6. ASSUME \A q \in Paths : OfKind(q, Kind(disk'[h][q])),
             \A k \in Hosts : k # h => disk'[k] = disk[k]
      PROVE  KindsKept'
  <2>1. DiskKinds'
    BY <1>2, <1>6 DEF DiskKinds, OfKind
  <2> QED BY <1>4, <1>5, <2>1 DEF KindsKept
<1>7. ASSUME UNCHANGED disk PROVE KindsKept'
  BY <1>2, <1>6, <1>7 DEF DiskKinds
<1>8. PICK m \in Message : m = Msg(h) /\ Fitting(m) /\ (m.t \in NodeTypes => m.p \in Paths)
                           /\ m.c \in FileData
  BY <1>1, <1>3, <1>4, MessageParts, ConsumeTyped DEF Incoming
<1>9. ASSUME NEW c, OfKind(m.p, Kind(c)), m.p \in Paths,
             disk' = [disk EXCEPT ![h] = [disk[h] EXCEPT ![m.p] = c]]
      PROVE  KindsKept'
  <2>1. \A q \in Paths : disk'[h][q] = IF q = m.p THEN c ELSE disk[h][q]
    BY <1>1, <1>9
  <2>2. \A k \in Hosts : k # h => disk'[k] = disk[k]
    BY <1>1, <1>9
  <2> QED BY <1>2, <1>6, <1>9, <2>1, <2>2 DEF DiskKinds
<1>10. CASE RecvUpdate(h)
  <2>1. /\ m.t = "SYNC_FILE" /\ m.p \in Paths
        /\ disk' = [disk EXCEPT ![h] = [disk[h] EXCEPT ![m.p] = UpdateText(m.c)]]
    BY <1>1, <1>8, <1>10 DEF RecvUpdate, TopCase, NodeTypes
  <2>2. UpdateText(m.c) \in FileData
    BY <1>8 DEF UpdateText, FileData
  <2>3. OfKind(m.p, Kind(UpdateText(m.c)))
    BY <1>8, <2>1, <2>2, KindOf DEF OfKind, Fitting
  <2> QED BY <1>9, <2>1, <2>3
<1>11. CASE RecvDelete(h)
  <2>1. PICK p : p = m.p
    OBVIOUS
  <2>2. disk' = [disk EXCEPT ![h] = IF p \in Paths THEN RemoveTree(@, p) ELSE @]
    BY <1>8, <1>11, <2>1 DEF RecvDelete
  <2>3. \A q \in Paths : disk'[h][q] \in {"none", disk[h][q]}
    BY <1>1, <2>2 DEF RemoveTree
  <2>4. \A k \in Hosts : k # h => disk'[k] = disk[k]
    BY <1>1, <2>2
  <2>5. \A q \in Paths : OfKind(q, Kind(disk'[h][q]))
    <3> SUFFICES ASSUME NEW q \in Paths PROVE OfKind(q, Kind(disk'[h][q]))
      OBVIOUS
    <3>1. CASE disk'[h][q] = "none"
      BY <3>1, KindOf DEF OfKind
    <3>2. CASE disk'[h][q] = disk[h][q]
      BY <1>2, <3>2 DEF DiskKinds
    <3> QED BY <2>3, <3>1, <3>2
  <2> QED BY <1>6, <2>4, <2>5
<1>12. CASE RecvCreate(h)
  <2>1. disk' = [disk EXCEPT ![h] =
                   CASE m.t = "SYNC_FOLDER" -> MakeFolder(disk[h], m.p)
                     [] m.t = "SYNC_FILE" -> MakeFile(disk[h], m.p, m.c)
                     [] OTHER -> disk[h]]
    BY <1>8, <1>12 DEF RecvCreate
  <2>2. disk = [disk EXCEPT ![h] = disk[h]]
    BY <1>1
  <2>3. CASE m.t = "SYNC_FOLDER"
    <3>1. disk' = [disk EXCEPT ![h] = MakeFolder(disk[h], m.p)] /\ m.p \in Paths
      BY <1>8, <2>1, <2>3 DEF NodeTypes
    <3>2. OfKind(m.p, Kind("dir"))
      BY <1>8, <2>3, KindOf DEF OfKind, Fitting
    <3>3. disk' = disk \/ disk' = [disk EXCEPT ![h] = [disk[h] EXCEPT ![m.p] = "dir"]]
      BY <2>2, <3>1 DEF MakeFolder
    <3> QED BY <1>7, <1>9, <3>1, <3>2, <3>3
  <2>4. CASE m.t = "SYNC_FILE"
    <3>1. disk' = [disk EXCEPT ![h] = MakeFile(disk[h], m.p, m.c)] /\ m.p \in Paths
      BY <1>8, <2>1, <2>4 DEF NodeTypes
    <3>2. OfKind(m.p, Kind(m.c))
      BY <1>8, <2>4, KindOf DEF OfKind, Fitting
    <3>3. disk' = disk \/ disk' = [disk EXCEPT ![h] = [disk[h] EXCEPT ![m.p] = m.c]]
      BY <2>2, <3>1 DEF MakeFile
    <3> QED BY <1>7, <1>9, <3>1, <3>2, <3>3
  <2>5. CASE m.t \notin {"SYNC_FOLDER", "SYNC_FILE"}
    BY <1>7, <2>1, <2>2, <2>5
  <2> QED BY <2>3, <2>4, <2>5
<1>13. CASE RecvUpdateFails(h) \/ RecvToken(h) \/ RecvListEnd(h) \/ RecvDone(h) \/ RecvEOF(h)
  BY <1>7, <1>13 DEF RecvUpdateFails, RecvToken, RecvListEnd, RecvDone, RecvEOF
<1> QED BY <1>10, <1>11, <1>12, <1>13 DEF Receive

(* What users and the server thread do.                                    *)
LEMMA KindsRest ==
  ASSUME ClientOnly, TypeOK, KindsKept, ServerLoop \/ Edit
  PROVE  KindsKept'
<1>1. /\ pc \in [Hosts -> Labels] /\ disk \in [Hosts -> [Paths -> Node]]
      /\ tree \in [Hosts -> [Paths -> Kinded]] /\ chan \in [Hosts -> Seq(Message)]
      /\ todo \in [Hosts -> SUBSET Paths]
  BY DEF TypeOK
<1>2. DiskKinds /\ TreeKinds /\ MessageKinds /\ ListKinds
  BY DEF KindsKept
<1>3. CASE Edit
  <2>1. PICK h \in Hosts, p \in Paths : \E dk :
          /\ dk \in UserFile(disk[h], p) \cup UserFolder(disk[h], p) \cup UserDelete(disk[h], p)
          /\ disk' = [disk EXCEPT ![h] = dk]
          /\ UNCHANGED << tree, new, todo, chan, mode, pc >>
    BY <1>3 DEF Edit, EditFile, EditFolder, EditDelete
  <2>6. PICK dk :
          /\ dk \in UserFile(disk[h], p) \cup UserFolder(disk[h], p) \cup UserDelete(disk[h], p)
          /\ disk' = [disk EXCEPT ![h] = dk]
    BY <2>1
  <2>2. \A q \in Paths : OfKind(q, Kind(dk[q]))
    <3>1. CASE dk \in UserFile(disk[h], p)
      <4>1. PICK c \in Data : dk = [disk[h] EXCEPT ![p] = c] /\ "file" \in Kinds[p]
        BY <3>1 DEF UserFile
      <4>2. OfKind(p, Kind(c))
        BY <4>1, DataParts DEF OfKind
      <4>3. \A q \in Paths : dk[q] = IF q = p THEN c ELSE disk[h][q]
        BY <1>1, <4>1
      <4> QED BY <1>2, <4>2, <4>3 DEF DiskKinds
    <3>2. CASE dk \in UserFolder(disk[h], p)
      <4>1. dk = [disk[h] EXCEPT ![p] = "dir"] /\ "dir" \in Kinds[p]
        BY <3>2 DEF UserFolder
      <4>2. OfKind(p, Kind("dir"))
        BY <4>1, KindOf DEF OfKind
      <4>3. \A q \in Paths : dk[q] = IF q = p THEN "dir" ELSE disk[h][q]
        BY <1>1, <4>1
      <4> QED BY <1>2, <4>2, <4>3 DEF DiskKinds
    <3>3. CASE dk \in UserDelete(disk[h], p)
      <4>1. dk = RemoveTree(disk[h], p)
        BY <3>3 DEF UserDelete
      <4>2. \A q \in Paths : dk[q] \in {"none", disk[h][q]}
        BY <4>1 DEF RemoveTree
      <4>3. OfKind(p, Kind("none")) /\ \A q \in Paths : OfKind(q, Kind("none"))
        BY KindOf DEF OfKind
      <4> SUFFICES ASSUME NEW q \in Paths PROVE OfKind(q, Kind(dk[q]))
        OBVIOUS
      <4>4. CASE dk[q] = "none"
        BY <4>3, <4>4
      <4>5. CASE dk[q] = disk[h][q]
        BY <1>2, <4>5 DEF DiskKinds
      <4> QED BY <4>2, <4>4, <4>5
    <3> QED BY <2>6, <3>1, <3>2, <3>3
  <2>3. \A k \in Hosts : disk'[k] = IF k = h THEN dk ELSE disk[k]
    BY <1>1, <2>6
  <2>4. DiskKinds'
    BY <1>2, <2>2, <2>3 DEF DiskKinds, OfKind
  <2>5. TreeKinds' /\ MessageKinds' /\ ListKinds'
    BY <1>2, <2>1 DEF TreeKinds, MessageKinds, ListKinds, OfKind, Fitting, Created
  <2> QED BY <2>4, <2>5 DEF KindsKept
<1>4. CASE Rebuild
  <2>1. /\ tree' = [tree EXCEPT !["server"] = TreeOf(disk["server"])]
        /\ pc' = [pc EXCEPT !["server"] = "wait"]
        /\ UNCHANGED << disk, new, todo, chan, mode >>
    BY <1>4 DEF Rebuild, Goto
  <2>2. \A p \in Paths : TreeOf(disk["server"])[p] \in {"none", Kind(disk["server"][p])}
    BY DEF TreeOf
  <2>3. /\ tree'["server"] = TreeOf(disk["server"])
        /\ \A k \in Hosts : k # "server" => tree'[k] = tree[k] /\ pc'[k] = pc[k]
        /\ pc'["server"] = "wait"
    BY <1>1, <2>1, BothHosts
  <2>4. TreeKinds'
    BY <1>2, <2>1, <2>2, <2>3, BothHosts DEF TreeKinds, DiskKinds, OfKind
  <2>5. \A k \in Hosts : k # "server" => Created(k)' = Created(k)
    BY <2>1, <2>3 DEF Created
  <2>6. ListKinds'
    BY <1>2, <2>1, <2>3, <2>5 DEF ListKinds
  <2>7. DiskKinds' /\ MessageKinds'
    BY <1>2, <2>1 DEF DiskKinds, MessageKinds, OfKind, Fitting
  <2> QED BY <2>4, <2>6, <2>7 DEF KindsKept
<1>5. CASE HandleRequest \/ SpinAtEOF \/ Wake
  <2>1. /\ UNCHANGED << disk, tree, new >>
        /\ \A k \in Hosts : pc'[k] = "create" => pc[k] = "create" /\ todo'[k] = todo[k]
    BY <1>1, <1>5, BothHosts DEF HandleRequest, SpinAtEOF, Wake, Goto
  <2>2. \A k \in Hosts : Created(k)' = Created(k)
    BY <2>1 DEF Created
  <2>3. DiskKinds' /\ TreeKinds' /\ ListKinds'
    BY <1>2, <2>1, <2>2 DEF DiskKinds, TreeKinds, ListKinds, OfKind
  <2>4. MessageKinds'
    <3>1. CASE HandleRequest
      BY <1>2, <3>1, BothHosts, KindsTaken DEF HandleRequest
    <3>2. CASE chan' = chan
      BY <1>2, <3>2 DEF MessageKinds, Fitting
    <3> QED BY <1>5, <3>1, <3>2 DEF SpinAtEOF, Wake
  <2> QED BY <2>3, <2>4 DEF KindsKept
<1> QED BY <1>3, <1>4, <1>5 DEF ServerLoop

-----------------------------------------------------------------------------
(* Steps and turns.                                                        *)

(* Nothing gets new at the server between its rebuild and its walk.        *)
LEMMA NothingNewStep ==
  ASSUME ClientOnly, TypeOK, NothingNew, Next PROVE NothingNew'
<1>1. pc \in [Hosts -> Labels] /\ stale \in [Hosts -> SUBSET Paths]
  BY DEF TypeOK
<1>2. CASE Walk("client") \/ Receive("client")
  <2>1. CASE Walk("client")
    BY <1>1, <2>1, BothHosts
       DEF NothingNew, Walk, Visit, SendUpdate, Miss, SendDelete, SendCreate, UpdatesDone,
           StartDeletes, DeletesDone, StartCreates, CreatesDone, Finish, AskAgain,
           BrokenPipe, Record, Goto
  <2>2. CASE Receive("client")
    BY <1>1, <2>2, BothHosts
       DEF NothingNew, Receive, RecvUpdate, RecvUpdateFails, RecvToken, RecvDelete, RecvCreate,
           RecvListEnd, RecvDone, RecvEOF, AfterReceive, Goto
  <2> QED BY <1>2, <2>1, <2>2
<1>3. CASE Walk("server")
  <2>1. stale'["server"] \subseteq stale["server"]
    BY <1>1, <1>3, BothHosts
       DEF Walk, Visit, SendUpdate, Miss, SendDelete, SendCreate, UpdatesDone,
           StartDeletes, DeletesDone, StartCreates, CreatesDone, Finish, AskAgain,
           BrokenPipe, Record
  <2>2. pc'["server"] \in {"wait", "sleep", "scan"} => pc["server"] = "scan"
    BY <1>1, <1>3, BothHosts
       DEF Walk, Visit, SendUpdate, Miss, SendDelete, SendCreate, UpdatesDone,
           StartDeletes, DeletesDone, StartCreates, CreatesDone, Finish, AskAgain,
           BrokenPipe, Goto
  <2> QED BY <2>1, <2>2 DEF NothingNew
<1>4. CASE Receive("server")
  <2>1. pc'["server"] \in {"recv", "rebuild", "exited"}
    BY <1>1, <1>4, BothHosts
       DEF Receive, RecvUpdate, RecvUpdateFails, RecvToken, RecvDelete, RecvCreate,
           RecvListEnd, RecvDone, RecvEOF, TopCase, Incoming, AfterReceive, Goto
  <2> QED BY <2>1 DEF NothingNew
<1>5. CASE ServerLoop
  BY <1>1, <1>5, BothHosts DEF NothingNew, ServerLoop, Rebuild, HandleRequest, SpinAtEOF,
                               Wake, Goto
<1>6. CASE Edit
  <2>1. PICK h \in Hosts, p \in Paths : EditFile(h, p) \/ EditFolder(h, p) \/ EditDelete(h, p)
    BY <1>6 DEF Edit
  <2>2. h = "client" /\ pc' = pc
    BY <2>1, BothHosts DEF EditFile, EditFolder, EditDelete, MayEdit, ClientOnly
  <2>3. stale'["server"] = stale["server"]
    BY <1>1, <2>1, <2>2, BothHosts DEF EditFile, EditFolder, EditDelete, Touch
  <2> QED BY <2>2, <2>3 DEF NothingNew
<1>7. CASE Over
  BY <1>7 DEF Over, vars, NothingNew
<1> QED BY <1>2, <1>3, <1>4, <1>5, <1>6, <1>7, BothHosts DEF Next

(* A process exits because it cannot open a file, or the other has exited. *)
LEMMA StaysUp ==
  ASSUME TypeOK, ~Down, Next, \A h \in Hosts : ~RecvUpdateFails(h) PROVE ~Down'
<1>1. pc \in [Hosts -> Labels] /\ \A h \in Hosts : pc[h] # "exited"
  BY DEF TypeOK, Down
<1>2. ASSUME NEW h \in Hosts, Walk(h)
      PROVE  ~BrokenPipe(h) /\ \A k \in Hosts : pc'[k] # "exited"
  <2>1. ~BrokenPipe(h)
    BY <1>1, TwoHosts DEF BrokenPipe
  <2>2. \A k \in Hosts : pc'[k] # "exited"
    BY <1>1, <1>2, <2>1
       DEF Walk, Visit, SendUpdate, Miss, SendDelete, SendCreate, UpdatesDone,
           StartDeletes, DeletesDone, StartCreates, CreatesDone, Finish, AskAgain, Goto
  <2> QED BY <2>1, <2>2
<1>3. ASSUME NEW h \in Hosts, Receive(h) PROVE \A k \in Hosts : pc'[k] # "exited"
  BY <1>1, <1>3
     DEF Receive, RecvUpdate, RecvToken, RecvDelete, RecvCreate, RecvListEnd, RecvDone,
         RecvEOF, AfterReceive, Goto
<1>4. ASSUME ServerLoop \/ Edit \/ Over PROVE \A k \in Hosts : pc'[k] # "exited"
  BY <1>1, <1>4, BothHosts DEF ServerLoop, Rebuild, HandleRequest, SpinAtEOF, Wake, Goto,
        Edit, EditFile, EditFolder, EditDelete, Over, vars
<1> QED BY <1>2, <1>3, <1>4 DEF Next, Down

(* Between rounds the client has nothing to read.                          *)
LEMMA NapTurn ==
  ASSUME TypeOK, ProtoInv, ~Down, pc["server"] \in {"wait", "sleep"}
  PROVE  /\ pc["client"] \in {"again", "recv"} /\ chan["client"] = << >>
         /\ mode["client"] = "top"
         /\ pc["server"] = "sleep" => pc["client"] = "recv"
<1>1. ~Turn("server")
  BY DEF Turn, Sending
<1>2. Turn("client")
  BY <1>1, BothHosts DEF ProtoInv
<1>3. PICK a \in 0 .. 7 : Reads("server", a) /\ Script(chan["server"], a, Stage("client", pc["client"]))
  BY <1>2, BothHosts DEF Turn
<1>4. a = (IF pc["server"] = "sleep" THEN 7 ELSE 6)
  BY <1>3 DEF Reads, ReadsAt
<1>5. a <= Stage("client", pc["client"]) /\ Stage("client", pc["client"]) \in 0 .. 7
  BY <1>3, ScriptOrder, BothHosts DEF TypeOK
<1>6. pc["client"] \in {"again", "recv"} /\ (pc["server"] = "sleep" => pc["client"] = "recv")
  BY <1>2, <1>4, <1>5 DEF Turn, Sending, Stage
<1> QED BY <1>2, <1>6 DEF Turn, Quiet

(* While the server tells its changes it has nothing to read.              *)
LEMMA TellingTurn ==
  ASSUME TypeOK, ProtoInv, ~Down, ServerTelling
  PROVE  chan["server"] = << >> /\ mode["server"] = "top" /\ pc["server"] # "again"
<1>1. PICK s \in Seq(Message) : s = chan["client"]
  BY BothHosts DEF TypeOK
<1>2. PICK f : /\ Labelling(f, s) /\ Reads("client", f[1])
               /\ f[Len(s) + 1] = Stage("server", pc["server"])
  BY <1>1 DEF ServerTelling
<1>3. pc["client"] = "recv" /\ pc["server"] \in Sending \cup {"recv"} /\ pc["server"] # "again"
  BY DEF ServerTelling, ProtoInv
<1>4. ~Turn("client") \/ chan["client"] # << >>
  <2> SUFFICES ASSUME s = << >>, Turn("client") PROVE FALSE
    BY <1>1
  <2>1. f[1] = Stage("server", pc["server"]) /\ f[1] <= 5
    BY <1>2, <1>3 DEF Reads, ReadsAt
  <2>2. pc["server"] # "recv"
    BY <2>1 DEF Stage
  <2>3. PICK a \in 0 .. 7 : Reads("server", a)
    BY BothHosts DEF Turn
  <2> QED BY <1>3, <2>2, <2>3 DEF Reads, ReadsAt, Sending
<1>5. Turn("client") => chan["client"] = << >>
  BY DEF Turn, Quiet
<1>6. Turn("server")
  BY <1>4, <1>5, BothHosts DEF ProtoInv
<1> QED BY <1>3, <1>6 DEF Turn, Quiet

(* ... and so has the client while it tells its own.                       *)
LEMMA AnswerTurn ==
  ASSUME TypeOK, ProtoInv, ~Down, ClientTelling PROVE ~Incoming("client")
<1> SUFFICES ASSUME pc["client"] = "recv", chan["client"] # << >> PROVE FALSE
  BY DEF Incoming
<1>1. Turn("server")
  BY BothHosts DEF ProtoInv, Turn, Quiet
<1>2. chan["server"] = << >> /\ pc["server"] \in {"recv", "rebuild"}
  BY <1>1 DEF Turn, Quiet, ClientTelling
<1>3. PICK f : f[1] = Stage("client", "recv") /\ Reads("server", f[1])
  BY <1>2 DEF ClientTelling, Telling
<1> QED BY <1>2, <1>3 DEF Stage, Reads, ReadsAt

(* With nothing on its way there is one stage.                             *)
LEMMA OneStage ==
  ASSUME NEW a \in 0 .. 7
  PROVE  \E f : Labelling(f, << >>) /\ f[1] = a
<1>1. PICK f : f = [i \in 1 .. 1 |-> a]
  OBVIOUS
<1>2. Labelling(f, << >>) /\ f[1] = a
  BY <1>1 DEF Labelling
<1> QED BY <1>2

-----------------------------------------------------------------------------
(* What a reader does.                                                     *)

(* An update that cannot be written is read at stage 0.                    *)
LEMMA FailsAt ==
  ASSUME TypeOK, NEW r \in Hosts, NEW s \in Seq(Message), s = chan[r], NEW f,
         Labelling(f, s), Reads(r, f[1]), RecvUpdateFails(r)
  PROVE  /\ f[1] = 0 /\ s # << >> /\ About(s, 1) /\ s[1].p \in Paths
         /\ disk[r][s[1].p] \notin FileData
<1>1. /\ pc[r] = "recv" /\ mode[r] = "top" /\ s # << >> /\ Head(s).t = "SYNC_FILE"
      /\ disk[r][Head(s).p] \notin FileData
  BY DEF RecvUpdateFails, TopCase, Incoming, Msg
<1>2. s[1] = Head(s) /\ Head(s) \in Message /\ 1 \in 1 .. Len(s)
  BY <1>1, HeadTailProperties
<1>3. About(s, 1) /\ s[1].p \in Paths
  BY <1>1, <1>2, MessageParts DEF About, NodeTypes
<1>4. f[1] \in 0 .. 5 /\ ModeAt(f[1]) = "top"
  BY <1>1 DEF Reads, ReadsAt
<1>5. PICK b : Says(f[1], "SYNC_FILE", b)
  BY <1>1, <1>2 DEF Labelling
<1>6. f[1] = 0
  BY <1>4, <1>5 DEF Says, ModeAt
<1> QED BY <1>1, <1>2, <1>3, <1>6

(* What the reader r makes of the message m, read at stage a.              *)
Did(r, a, m) ==
  \/ m.t \notin NodeTypes /\ UNCHANGED disk
  \/ /\ a = 0 /\ m.p \in Paths /\ disk[r][m.p] \in FileData
     /\ disk' = [disk EXCEPT ![r] = [disk[r] EXCEPT ![m.p] = UpdateText(m.c)]]
  \/ a = 2 /\ m.p \in Paths /\ disk' = [disk EXCEPT ![r] = RemoveTree(disk[r], m.p)]
  \/ /\ a = 4 /\ m.p \in Paths /\ m.t = "SYNC_FOLDER"
     /\ disk' = [disk EXCEPT ![r] = MakeFolder(disk[r], m.p)]
  \/ /\ a = 4 /\ m.p \in Paths /\ m.t = "SYNC_FILE"
     /\ disk' = [disk EXCEPT ![r] = MakeFile(disk[r], m.p, m.c)]

(* A reader takes the next message, does what it says and goes on with the *)
(* next stage, until it has read {DONE_CONTROL}.                           *)
Takes(r, s, f, m, g) ==
  /\ s # << >> /\ m = Head(s) /\ m = s[1] /\ 1 \in 1 .. Len(s)
  /\ chan' = [chan EXCEPT ![r] = Tail(s)] /\ Tail(s) \in Seq(Message)
  /\ Labelling(g, Tail(s)) /\ Says(f[1], m.t, g[1]) /\ f[1] \in 0 .. 5
  /\ g[Len(Tail(s)) + 1] = f[Len(s) + 1]
  /\ \A i \in 1 .. Len(Tail(s)) : g[i] = f[i + 1]
  /\ UNCHANGED << tree, new >>
  /\ \A k \in Hosts : k # r => pc'[k] = pc[k] /\ todo'[k] = todo[k] /\ disk'[k] = disk[k]
  /\ \/ /\ g[1] = 6 /\ m.t \notin NodeTypes /\ mode[r] = "top" /\ AfterReceive(r)
        /\ UNCHANGED << disk, mode >>
     \/ pc' = pc /\ todo' = todo /\ Reads(r, g[1])' /\ Did(r, f[1], m)

(* Whatever it receives, when nothing fails.                               *)
LEMMA Taken ==
  ASSUME TypeOK, ~Down, NEW r \in Hosts, NEW s \in Seq(Message), s = chan[r], NEW f,
         Labelling(f, s), Reads(r, f[1]), Receive(r), ~RecvUpdateFails(r)
  PROVE  \E m \in Message : \E g : Takes(r, s, f, m, g)
<1>1. /\ pc \in [Hosts -> Labels] /\ chan \in [Hosts -> Seq(Message)]
      /\ mode \in [Hosts -> {"top", "delete", "create", "jammed"}]
      /\ disk \in [Hosts -> [Paths -> Node]] /\ todo \in [Hosts -> SUBSET Paths]
  BY DEF TypeOK
<1>2. ~RecvEOF(r)
  BY TwoHosts DEF RecvEOF, Down
<1>3. Incoming(r) /\ Consume(r) /\ UNCHANGED << tree, new >>
  BY <1>2 DEF Receive, RecvUpdate, RecvToken, RecvDelete, RecvCreate, RecvListEnd,
              RecvDone, TopCase
<1>4. /\ pc[r] = "recv" /\ s # << >> /\ chan' = [chan EXCEPT ![r] = Tail(s)]
      /\ Msg(r) = Head(s)
  BY <1>1, <1>3 DEF Incoming, Consume, Msg
<1>5. PICK g : /\ Labelling(g, Tail(s)) /\ Says(f[1], Head(s).t, g[1])
               /\ g[Len(Tail(s)) + 1] = f[Len(s) + 1]
               /\ \A i \in 1 .. Len(Tail(s)) : g[i] = f[i + 1]
  BY <1>4, LabelTail
<1>6. PICK m \in Message : m = Head(s) /\ m = s[1] /\ 1 \in 1 .. Len(s)
  BY <1>4, HeadTailProperties
<1>7. m.t \in NodeTypes => m.p \in Paths
  BY MessageParts
<1>8. f[1] \in 0 .. 5 /\ mode[r] = ModeAt(f[1])
  BY <1>4 DEF Reads, ReadsAt
<1>9. Tail(s) \in Seq(Message)
  BY <1>4
<1>10. \A k \in Hosts : k # r => pc'[k] = pc[k] /\ todo'[k] = todo[k] /\ disk'[k] = disk[k]
  BY <1>1, <1>2 DEF Receive, RecvUpdate, RecvToken, RecvDelete, RecvCreate, RecvListEnd,
              RecvDone, AfterReceive, Goto
<1>11. \/ /\ g[1] = 6 /\ m.t \notin NodeTypes /\ mode[r] = "top" /\ AfterReceive(r)
          /\ UNCHANGED << disk, mode >>
       \/ pc' = pc /\ todo' = todo /\ Reads(r, g[1])' /\ Did(r, f[1], m)
  <2>1. CASE RecvToken(r)
    <3>1. /\ mode[r] \in {"top", "jammed"} /\ pc' = pc /\ todo' = todo /\ UNCHANGED disk
          /\ m.t # "SYNC_FILE" /\ m.t # "DONE_CONTROL"
      BY <1>1, <1>4, <1>6, <1>8, <2>1 DEF RecvToken, TopCase, ModeAt
    <3>2. f[1] \in {0, 1, 3, 5} /\ mode[r] = "top"
      BY <1>8, <3>1 DEF ModeAt
    <3>3. mode'[r] = TopMode("top", m.t)
      BY <1>1, <1>4, <1>6, <2>1, <3>2 DEF RecvToken
    <3>4. \/ m.t = "SYNC_UPDATE_DONE" /\ g[1] = 1
          \/ m.t = "SYNC_DELETE" /\ g[1] = 2
          \/ m.t = "SYNC_CREATE" /\ g[1] = 4
      BY <1>5, <1>6, <3>1, <3>2 DEF Says
    <3>5. m.t \notin NodeTypes /\ Reads(r, g[1])'
      BY <1>4, <3>1, <3>3, <3>4 DEF NodeTypes, Reads, ReadsAt, ModeAt, TopMode
    <3> QED BY <3>1, <3>5 DEF Did
  <2>2. CASE RecvListEnd(r)
    <3>1. /\ mode'[r] = "top" /\ pc' = pc /\ todo' = todo /\ UNCHANGED disk
          /\ \/ mode[r] = "delete" /\ m.t = "SYNC_DELETE_DONE"
             \/ mode[r] = "create" /\ m.t = "SYNC_CREATE_DONE"
      BY <1>1, <1>4, <1>6, <2>2 DEF RecvListEnd
    <3>2. g[1] \in {3, 5}
      BY <1>5, <1>6, <3>1 DEF Says
    <3>3. m.t \notin NodeTypes /\ Reads(r, g[1])'
      BY <1>4, <3>1, <3>2 DEF NodeTypes, Reads, ReadsAt, ModeAt
    <3> QED BY <3>1, <3>3 DEF Did
  <2>3. CASE RecvDone(r)
    <3>1. /\ mode[r] = "top" /\ m.t = "DONE_CONTROL" /\ UNCHANGED << disk, mode >>
          /\ AfterReceive(r)
      BY <1>4, <1>6, <2>3 DEF RecvDone, TopCase
    <3>2. g[1] = 6 /\ m.t \notin NodeTypes
      BY <1>5, <1>6, <1>8, <3>1 DEF Says, NodeTypes
    <3> QED BY <3>1, <3>2
  <2>4. CASE RecvUpdate(r)
    <3>1. /\ mode[r] = "top" /\ m.t = "SYNC_FILE" /\ pc' = pc /\ mode' = mode /\ todo' = todo
          /\ disk[r][m.p] \in FileData
          /\ disk' = [disk EXCEPT ![r] = [disk[r] EXCEPT ![m.p] = UpdateText(m.c)]]
      BY <1>1, <1>4, <1>6, <2>4 DEF RecvUpdate, TopCase
    <3>2. f[1] = 0 /\ g[1] = 0 /\ m.t \in NodeTypes
      BY <1>5, <1>6, <1>8, <3>1 DEF Says, ModeAt, NodeTypes
    <3>3. Reads(r, g[1])'
      BY <1>4, <1>8, <3>1, <3>2 DEF Reads, ReadsAt, ModeAt
    <3> QED BY <1>7, <3>1, <3>2, <3>3 DEF Did
  <2>5. CASE RecvDelete(r)
    <3>1. /\ mode[r] = "delete" /\ m.t # "SYNC_DELETE_DONE" /\ pc' = pc /\ mode' = mode
          /\ todo' = todo
      BY <1>1, <1>4, <1>6, <2>5 DEF RecvDelete
    <3>2. f[1] = 2 /\ g[1] = 2 /\ m.t \in NodeTypes
      BY <1>5, <1>6, <1>8, <3>1 DEF Says, ModeAt, NodeTypes
    <3>3. disk' = [disk EXCEPT ![r] = RemoveTree(disk[r], m.p)] /\ m.p \in Paths
      BY <1>1, <1>4, <1>6, <1>7, <2>5, <3>2 DEF RecvDelete
    <3>4. Reads(r, g[1])'
      BY <1>4, <1>8, <3>1, <3>2 DEF Reads, ReadsAt, ModeAt
    <3> QED BY <3>1, <3>2, <3>3, <3>4 DEF Did
  <2>6. CASE RecvCreate(r)
    <3>1. /\ mode[r] = "create" /\ m.t # "SYNC_CREATE_DONE" /\ pc' = pc /\ mode' = mode
          /\ todo' = todo
      BY <1>1, <1>4, <1>6, <2>6 DEF RecvCreate
    <3>2. f[1] = 4 /\ g[1] = 4 /\ m.t \in NodeTypes /\ m.t \in {"SYNC_FILE", "SYNC_FOLDER"}
      BY <1>5, <1>6, <1>8, <3>1 DEF Says, ModeAt, NodeTypes
    <3>3. disk' = [disk EXCEPT ![r] = CASE m.t = "SYNC_FOLDER" -> MakeFolder(disk[r], m.p)
                                        [] m.t = "SYNC_FILE" -> MakeFile(disk[r], m.p, m.c)
                                        [] OTHER -> disk[r]]
      BY <1>4, <1>6, <2>6 DEF RecvCreate
    <3>4. Did(r, f[1], m)
      <4>1. CASE m.t = "SYNC_FOLDER"
        BY <1>7, <3>2, <3>3, <4>1 DEF Did
      <4>2. CASE m.t = "SYNC_FILE"
        BY <1>7, <3>2, <3>3, <4>2 DEF Did
      <4> QED BY <3>2, <4>1, <4>2
    <3>5. Reads(r, g[1])'
      BY <1>4, <1>8, <3>1, <3>2 DEF Reads, ReadsAt, ModeAt
    <3> QED BY <3>1, <3>4, <3>5
  <2> QED BY <1>2, <2>1, <2>2, <2>3, <2>4, <2>5, <2>6 DEF Receive
<1>12. Takes(r, s, f, m, g)
  BY <1>3, <1>4, <1>5, <1>6, <1>8, <1>9, <1>10, <1>11 DEF Takes
<1> QED BY <1>12

(* What a writer does: it looks at one more directory entry, or says the   *)
(* next thing.                                                             *)
LEMMA Told ==
  ASSUME TypeOK, NEW h \in Hosts, Walk(h), ~BrokenPipe(h), h = "server" => pc[h] # "again"
  PROVE  /\ UNCHANGED << disk, mode >> /\ pc[h] \in Sending /\ pc'[h] \in Sending \cup {"recv"}
         /\ \A k \in Hosts : k # h => /\ pc'[k] = pc[k] /\ tree'[k] = tree[k]
                                      /\ new'[k] = new[k] /\ todo'[k] = todo[k]
         /\ \/ /\ \E p \in Paths : Visit(h, p) \/ Miss(h, p)
               /\ pc' = pc /\ chan' = chan
            \/ \E m \in Message :
                 /\ Send(h, m) /\ Says(Stage(h, pc[h]), m.t, Stage(h, pc'[h]))
                 /\ \/ SendUpdate(h, m.p) /\ m.t = "SYNC_FILE" /\ m.p \in Paths
                    \/ SendDelete(h, m.p) /\ m.t = "PATH" /\ m.p \in Paths
                    \/ /\ SendCreate(h, m.p) /\ m.p \in Paths
                       /\ m.t = IF new[h][m.p] = "dir" THEN "SYNC_FOLDER" ELSE "SYNC_FILE"
                    \/ /\ m.t \notin NodeTypes
                       /\ \/ UpdatesDone(h) \/ StartDeletes(h) \/ DeletesDone(h)
                          \/ StartCreates(h) \/ CreatesDone(h) \/ Finish(h) \/ AskAgain(h)
<1>1. /\ pc \in [Hosts -> Labels] /\ disk \in [Hosts -> [Paths -> Node]]
      /\ tree \in [Hosts -> [Paths -> Kinded]] /\ new \in [Hosts -> [Paths -> Kinded]]
      /\ todo \in [Hosts -> SUBSET Paths]
  BY DEF TypeOK
<1>2. /\ UNCHANGED << disk, mode >> /\ pc[h] \in Sending /\ pc'[h] \in Sending \cup {"recv"}
  BY <1>1 DEF Walk, Visit, SendUpdate, Miss, SendDelete, SendCreate, UpdatesDone,
           StartDeletes, DeletesDone, StartCreates, CreatesDone, Finish, AskAgain, Goto,
           Sending
<1>3. \A k \in Hosts : k # h => /\ pc'[k] = pc[k] /\ tree'[k] = tree[k]
                                /\ new'[k] = new[k] /\ todo'[k] = todo[k]
  BY <1>1 DEF Walk, Visit, SendUpdate, Miss, SendDelete, SendCreate, UpdatesDone,
           StartDeletes, DeletesDone, StartCreates, CreatesDone, Finish, AskAgain, Goto,
           Record, Walked
<1> DEFINE Entry == /\ \E p \in Paths : Visit(h, p) \/ Miss(h, p)
                    /\ pc' = pc /\ chan' = chan
           Tells(m) ==
             /\ Send(h, m) /\ Says(Stage(h, pc[h]), m.t, Stage(h, pc'[h]))
             /\ \/ SendUpdate(h, m.p) /\ m.t = "SYNC_FILE" /\ m.p \in Paths
                \/ SendDelete(h, m.p) /\ m.t = "PATH" /\ m.p \in Paths
                \/ /\ SendCreate(h, m.p) /\ m.p \in Paths
                   /\ m.t = IF new[h][m.p] = "dir" THEN "SYNC_FOLDER" ELSE "SYNC_FILE"
                \/ /\ m.t \notin NodeTypes
                   /\ \/ UpdatesDone(h) \/ StartDeletes(h) \/ DeletesDone(h)
                      \/ StartCreates(h) \/ CreatesDone(h) \/ Finish(h) \/ AskAgain(h)
<1>4. ASSUME NEW p \in Paths, Visit(h, p) \/ Miss(h, p) PROVE Entry
  BY <1>4 DEF Visit, Miss
<1>5. ASSUME NEW p \in Paths, SendUpdate(h, p) PROVE \E m \in Message : Tells(m)
  <2>1. PICK m : m = FileMsg(p, disk[h][p])
    OBVIOUS
  <2>2. Send(h, m) /\ Kind(disk[h][p]) = "file" /\ pc[h] = "scan" /\ pc' = pc
    BY <1>5, <2>1 DEF SendUpdate, Changed
  <2>3. m \in Message
    BY <1>1, <2>1, <2>2, FileKind, MessageTyped
  <2>4. m.t = "SYNC_FILE" /\ m.p = p
    BY <2>1 DEF FileMsg
  <2>5. Says(Stage(h, pc[h]), m.t, Stage(h, pc'[h]))
    BY <2>2, <2>4 DEF Says, Stage
  <2> QED BY <1>5, <2>2, <2>3, <2>4, <2>5
<1>6. ASSUME NEW p \in Paths, SendDelete(h, p) PROVE \E m \in Message : Tells(m)
  <2>1. PICK m \in Message : m = PathMsg(p)
    BY MessageTyped
  <2>2. Send(h, m) /\ pc[h] = "delete" /\ pc' = pc
    BY <1>6, <2>1 DEF SendDelete
  <2>3. m.t = "PATH" /\ m.p = p
    BY <2>1 DEF PathMsg
  <2>4. Says(Stage(h, pc[h]), m.t, Stage(h, pc'[h]))
    BY <2>2, <2>3 DEF Says, Stage
  <2> QED BY <1>6, <2>2, <2>3, <2>4
<1>7. ASSUME NEW p \in Paths, SendCreate(h, p) PROVE \E m \in Message : Tells(m)
  <2>1. PICK m : m = IF new[h][p] = "dir" THEN FolderMsg(p) ELSE FileMsg(p, ContentNow(h, p))
    OBVIOUS
  <2>2. Send(h, m) /\ pc[h] = "create" /\ pc' = pc
    BY <1>7, <2>1 DEF SendCreate
  <2>3. m \in Message
    <3>1. ContentNow(h, p) \in FileData
      BY DEF ContentNow, FileData
    <3> QED BY <2>1, <3>1, MessageTyped
  <2>4. m.t = (IF new[h][p] = "dir" THEN "SYNC_FOLDER" ELSE "SYNC_FILE") /\ m.p = p
    BY <2>1 DEF FolderMsg, FileMsg
  <2>5. Says(Stage(h, pc[h]), m.t, Stage(h, pc'[h]))
    BY <2>2, <2>4 DEF Says, Stage
  <2> QED BY <1>7, <2>2, <2>3, <2>4, <2>5
<1>8. ASSUME \/ UpdatesDone(h) \/ StartDeletes(h) \/ DeletesDone(h)
             \/ StartCreates(h) \/ CreatesDone(h) \/ Finish(h) \/ AskAgain(h)
      PROVE  \E m \in Message : Tells(m)
  <2>1. PICK t \in Tokens : /\ Send(h, Token(t))
                            /\ Says(Stage(h, pc[h]), t, Stage(h, pc'[h]))
    <3>1. CASE UpdatesDone(h)
      <4>1. /\ pc[h] = "scan" /\ pc'[h] = "startDelete" /\ Send(h, Token("SYNC_UPDATE_DONE"))
        BY <1>1, <3>1 DEF UpdatesDone, Goto
      <4> QED BY <4>1 DEF Says, Stage, Tokens
    <3>2. CASE StartDeletes(h)
      <4>1. /\ pc[h] = "startDelete" /\ pc'[h] = "delete" /\ Send(h, Token("SYNC_DELETE"))
        BY <1>1, <3>2 DEF StartDeletes, Goto
      <4> QED BY <4>1 DEF Says, Stage, Tokens
    <3>3. CASE DeletesDone(h)
      <4>1. /\ pc[h] = "delete" /\ pc'[h] = "startCreate" /\ Send(h, Token("SYNC_DELETE_DONE"))
        BY <1>1, <3>3 DEF DeletesDone, Goto
      <4> QED BY <4>1 DEF Says, Stage, Tokens
    <3>4. CASE StartCreates(h)
      <4>1. /\ pc[h] = "startCreate" /\ pc'[h] = "create" /\ Send(h, Token("SYNC_CREATE"))
        BY <1>1, <3>4 DEF StartCreates, Goto
      <4> QED BY <4>1 DEF Says, Stage, Tokens
    <3>5. CASE CreatesDone(h)
      <4>1. /\ pc[h] = "create" /\ pc'[h] = "finish" /\ Send(h, Token("SYNC_CREATE_DONE"))
        BY <1>1, <3>5 DEF CreatesDone, Goto
      <4> QED BY <4>1 DEF Says, Stage, Tokens
    <3>6. CASE Finish(h)
      <4>1. /\ pc[h] = "finish" /\ pc'[h] = (IF h = "server" THEN "recv" ELSE "again")
            /\ Send(h, Token("DONE_CONTROL"))
        BY <1>1, <3>6 DEF Finish, Goto
      <4> QED BY <4>1 DEF Says, Stage, Tokens
    <3>7. CASE AskAgain(h)
      <4>1. /\ pc[h] = "again" /\ pc'[h] = "recv" /\ Send(h, Token("DONE_CONTROL"))
            /\ h # "server"
        BY <1>1, <3>7 DEF AskAgain, Goto
      <4> QED BY <4>1 DEF Says, Stage, Tokens
    <3> QED BY <1>8, <3>1, <3>2, <3>3, <3>4, <3>5, <3>6, <3>7
  <2>2. PICK m \in Message : m = Token(t)
    BY MessageTyped
  <2>3. m.t = t /\ m.t \notin NodeTypes
    BY <2>2 DEF Token, Tokens, NodeTypes
  <2> QED BY <1>8, <2>1, <2>2, <2>3
<1>9. Entry \/ \E m \in Message : Tells(m)
  <2> HIDE DEF Entry, Tells
  <2> QED BY <1>4, <1>5, <1>6, <1>7, <1>8 DEF Walk
<1> QED BY <1>2, <1>3, <1>9

-----------------------------------------------------------------------------
(* Between rounds, and while the server tells its changes.                 *)

(* Users of the client change nothing that the invariant speaks of.        *)
LEMMA EditBeside ==
  ASSUME ClientOnly, TypeOK, Edit
  PROVE  UNCHANGED << tree, new, todo, chan, mode, pc >> /\ disk'["server"] = disk["server"]
<1>1. PICK h \in Hosts, p \in Paths : EditFile(h, p) \/ EditFolder(h, p) \/ EditDelete(h, p)
  BY DEF Edit
<1>2. h = "client" /\ UNCHANGED << tree, new, todo, chan, mode, pc >>
  BY <1>1, BothHosts DEF EditFile, EditFolder, EditDelete, MayEdit, ClientOnly
<1>3. disk'["server"] = disk["server"]
  BY <1>1, <1>2, BothHosts DEF EditFile, EditFolder, EditDelete, TypeOK
<1> QED BY <1>2, <1>3

(* From one round to the walk of the next.                                 *)
LEMMA NapStep ==
  ASSUME ClientOnly, TypeOK, ProtoInv, ~Down, pc["server"] \in {"wait", "sleep"}, Known, Next
  PROVE  /\ \A h \in Hosts : ~RecvUpdateFails(h)
         /\ IF pc'["server"] \in {"wait", "sleep"} THEN Known' ELSE ServerTelling'
<1>1. /\ pc["client"] \in {"again", "recv"} /\ chan["client"] = << >>
      /\ mode["client"] = "top" /\ (pc["server"] = "sleep" => pc["client"] = "recv")
      /\ pc["client"] # "exited" /\ pc["server"] # "exited" /\ pc \in [Hosts -> Labels]
  BY NapTurn, BothHosts DEF TypeOK, Down
<1>2. \A h \in Hosts : ~Receive(h)
  BY <1>1, BothHosts DEF Receive, RecvUpdate, RecvUpdateFails, RecvToken, RecvDelete,
       RecvCreate, RecvListEnd, RecvDone, RecvEOF, TopCase, Incoming
<1> SUFFICES IF pc'["server"] \in {"wait", "sleep"} THEN Known' ELSE ServerTelling'
  BY <1>2 DEF Receive
<1>3. ~Walk("server")
  BY DEF Walk, Visit, SendUpdate, Miss, SendDelete, SendCreate, UpdatesDone, StartDeletes,
         DeletesDone, StartCreates, CreatesDone, Finish, AskAgain, BrokenPipe, Sending
<1>4. CASE Walk("client")
  <2>1. AskAgain("client")
    BY <1>1, <1>4, BothHosts
       DEF Walk, Visit, SendUpdate, Miss, SendDelete, SendCreate, UpdatesDone, StartDeletes,
           DeletesDone, StartCreates, CreatesDone, Finish, BrokenPipe
  <2>2. pc'["server"] = pc["server"] /\ UNCHANGED << disk, tree, new >>
    BY <1>1, <2>1, BothHosts DEF AskAgain, Goto
  <2> QED BY <2>2 DEF Known, Has
<1>5. CASE Wake
  <2>1. /\ pc["server"] = "sleep" /\ pc' = [pc EXCEPT !["server"] = "scan"]
        /\ UNCHANGED << disk, tree, new, chan, mode >>
    BY <1>5 DEF Wake, Goto
  <2>2. pc'["server"] = "scan" /\ pc'["client"] = "recv"
    BY <1>1, <2>1, BothHosts
  <2>3. PICK f : Labelling(f, << >>) /\ f[1] = 0
    BY OneStage
  <2>4. Reads("client", 0)'
    BY <1>1, <2>1, <2>2 DEF Reads, ReadsAt, ModeAt
  <2>5. Known'
    BY <2>1 DEF Known, Has
  <2>6. chan'["client"] = << >> /\ Stage("server", "scan") = 0
    BY <1>1, <2>1 DEF Stage
  <2>7. "scan" \in Sending
    BY DEF Sending
  <2> QED BY <2>2, <2>3, <2>4, <2>5, <2>6, <2>7 DEF ServerTelling
<1>6. CASE HandleRequest
  <2>1. pc'["server"] \in {"wait", "sleep"} /\ UNCHANGED << disk, tree, new >>
    BY <1>1, <1>6, BothHosts DEF HandleRequest, Goto
  <2> QED BY <2>1 DEF Known, Has
<1>7. CASE Edit
  BY <1>7, EditBeside DEF Known, Has
<1>8. ~Rebuild /\ ~SpinAtEOF /\ ~Over
  BY <1>1 DEF Rebuild, SpinAtEOF, Over
<1> QED BY <1>2, <1>3, <1>4, <1>5, <1>6, <1>7, <1>8, BothHosts DEF Next, ServerLoop

(* The server's walk: with nothing new there is no update to send.         *)
LEMMA ServerWalks ==
  ASSUME TypeOK, ProtoInv, ~Down, NothingNew, ServerTelling, Walk("server")
  PROVE  ServerTelling'
<1>1. /\ pc["server"] # "again" /\ pc["client"] # "exited"
      /\ pc \in [Hosts -> Labels] /\ chan \in [Hosts -> Seq(Message)]
  BY TellingTurn, BothHosts DEF TypeOK, Down
<1>2. ~BrokenPipe("server")
  BY <1>1, BothHosts DEF BrokenPipe
<1>3. PICK s \in Seq(Message) : s = chan["client"]
  BY <1>1, BothHosts
<1>4. PICK f : /\ Labelling(f, s) /\ Reads("client", f[1])
               /\ f[Len(s) + 1] = Stage("server", pc["server"])
               /\ \A i \in 1 .. Len(s) : About(s, i) => f[i] # 0
  BY <1>3 DEF ServerTelling
<1>5. /\ UNCHANGED << disk, mode >> /\ pc'["server"] \in Sending \cup {"recv"}
      /\ pc'["client"] = pc["client"] /\ tree'["client"] = tree["client"]
      /\ new'["client"] = new["client"]
  BY <1>1, <1>2, BothHosts, Told
<1>6. pc'["client"] = "recv" /\ Known' /\ pc["client"] = "recv"
  BY <1>5 DEF ServerTelling, Known, Has
<1>7. CASE chan' = chan /\ pc' = pc
  <2>1. Reads("client", f[1])'
    BY <1>4, <1>5, <1>7 DEF Reads
  <2> QED BY <1>3, <1>4, <1>5, <1>6, <1>7, <2>1 DEF ServerTelling
<1>8. ASSUME NEW m \in Message, Send("server", m),
             Says(Stage("server", pc["server"]), m.t, Stage("server", pc'["server"])),
             m.t \notin NodeTypes \/ Stage("server", pc["server"]) # 0
      PROVE  ServerTelling'
  <2>1. chan'["client"] = Append(s, m)
    BY <1>1, <1>3, <1>8, BothHosts DEF Send
  <2>2. Stage("server", pc'["server"]) \in 0 .. 7
    BY StageTyped
  <2>3. PICK g : /\ Labelling(g, Append(s, m))
                 /\ g[Len(s) + 2] = Stage("server", pc'["server"])
                 /\ \A i \in 1 .. Len(s) + 1 : g[i] = f[i]
    BY <1>4, <1>8, <2>2, LabelAppend
  <2>4. PICK s2 \in Seq(Message) : s2 = Append(s, m)
    BY AppendProperties
  <2>5. /\ Len(s) \in Nat /\ Len(s2) = Len(s) + 1 /\ s2[Len(s) + 1] = m
        /\ \A i \in 1 .. Len(s) : s2[i] = s[i]
    BY <2>4, AppendProperties
  <2>6. g[1] = f[1] /\ g[Len(s2) + 1] = Stage("server", pc'["server"]) /\ Labelling(g, s2)
    BY <2>3, <2>4, <2>5
  <2>7. ASSUME NEW i \in 1 .. Len(s2), About(s2, i) PROVE g[i] # 0
    <3>1. CASE i = Len(s) + 1
      BY <1>4, <1>8, <2>3, <2>5, <2>7, <3>1 DEF About
    <3>2. CASE i # Len(s) + 1
      <4>1. i \in 1 .. Len(s) /\ About(s, i)
        BY <2>5, <2>7, <3>2 DEF About
      <4> QED BY <1>4, <2>3, <2>5, <4>1
    <3> QED BY <3>1, <3>2
  <2>8. Reads("client", g[1])'
    BY <1>4, <1>5, <2>6 DEF Reads
  <2> QED BY <1>5, <1>6, <2>1, <2>4, <2>6, <2>7, <2>8 DEF ServerTelling
<1>9. \A p \in Paths : ~SendUpdate("server", p)
  BY DEF SendUpdate, Changed, NothingNew
<1>10. \A p : SendDelete("server", p) \/ SendCreate("server", p) =>
                Stage("server", pc["server"]) # 0
  BY DEF SendDelete, SendCreate, Stage
<1>11. \/ pc' = pc /\ chan' = chan
       \/ \E m \in Message :
            /\ Send("server", m)
            /\ Says(Stage("server", pc["server"]), m.t, Stage("server", pc'["server"]))
            /\ \/ SendUpdate("server", m.p) /\ m.p \in Paths
               \/ SendDelete("server", m.p) \/ SendCreate("server", m.p)
               \/ m.t \notin NodeTypes
  BY <1>1, <1>2, BothHosts, Told
<1> QED BY <1>7, <1>8, <1>9, <1>10, <1>11

(* The client hears the server out, and starts to walk.                    *)
LEMMA ClientHears ==
  ASSUME TypeOK, ProtoInv, ~Down, KindsKept, ServerTelling, Receive("client")
  PROVE  ~RecvUpdateFails("client") /\ (ServerTelling' \/ ClientTelling')
<1>1. /\ chan["server"] = << >> /\ mode["server"] = "top" /\ pc["server"] # "again"
      /\ pc \in [Hosts -> Labels] /\ chan \in [Hosts -> Seq(Message)]
      /\ todo \in [Hosts -> SUBSET Paths] /\ mode \in [Hosts -> {"top", "delete", "create", "jammed"}]
  BY TellingTurn DEF TypeOK
<1>2. PICK s \in Seq(Message) : s = chan["client"]
  BY <1>1, BothHosts
<1>3. PICK f : /\ Labelling(f, s) /\ Reads("client", f[1])
               /\ f[Len(s) + 1] = Stage("server", pc["server"])
               /\ \A i \in 1 .. Len(s) : About(s, i) => f[i] # 0
  BY <1>2 DEF ServerTelling
<1>4. ~RecvUpdateFails("client")
  <2> SUFFICES ASSUME RecvUpdateFails("client") PROVE FALSE
    OBVIOUS
  <2>1. f[1] = 0 /\ About(s, 1)
    BY <1>2, <1>3, BothHosts, FailsAt
  <2> QED BY <1>3, <2>1 DEF About
<1>11. PICK m \in Message : \E g : Takes("client", s, f, m, g)
  BY <1>2, <1>3, <1>4, BothHosts, Taken
<1>5. PICK g : Takes("client", s, f, m, g)
  BY <1>11
<1>6. /\ pc'["server"] = pc["server"] /\ disk'["server"] = disk["server"]
      /\ chan'["client"] = Tail(s) /\ chan'["server"] = << >>
      /\ pc["client"] = "recv" /\ pc["server"] \in Sending \cup {"recv"} /\ Known
  BY <1>1, <1>5, BothHosts DEF ServerTelling, Takes
<1>7. /\ Labelling(g, Tail(s)) /\ g[Len(Tail(s)) + 1] = f[Len(s) + 1]
      /\ \A i \in 1 .. Len(Tail(s)) : g[i] = f[i + 1]
      /\ s # << >> /\ Tail(s) \in Seq(Message) /\ UNCHANGED << tree, new >>
      /\ \/ g[1] = 6 /\ AfterReceive("client") /\ UNCHANGED << disk, mode >>
         \/ pc' = pc /\ Reads("client", g[1])'
  BY <1>5 DEF Takes
<1>10. Known'
  BY <1>6, <1>7 DEF Known, Has
<1>8. CASE pc' = pc /\ Reads("client", g[1])'
  <2>1. /\ Len(s) \in Nat \ {0} /\ Len(Tail(s)) = Len(s) - 1
        /\ \A i \in 1 .. Len(Tail(s)) : Tail(s)[i] = s[i + 1]
    BY <1>7, HeadTailProperties
  <2>2. ASSUME NEW i \in 1 .. Len(Tail(s)), About(Tail(s), i) PROVE g[i] # 0
    <3>1. i + 1 \in 1 .. Len(s) /\ About(s, i + 1)
      BY <2>1, <2>2 DEF About
    <3> QED BY <1>3, <1>7, <3>1
  <2> QED BY <1>3, <1>4, <1>6, <1>7, <1>8, <1>10, <2>2 DEF ServerTelling
<1>9. CASE g[1] = 6 /\ AfterReceive("client") /\ UNCHANGED << disk, mode >>
  <2>1. /\ pc'["client"] = "scan" /\ todo'["client"] = Paths
    BY <1>1, <1>9, BothHosts DEF AfterReceive, Goto
  <2>2. pc["server"] = "recv"
    <3>1. Stage("server", pc["server"]) >= 6
      <4>1. PICK s2 \in Seq(Message) : s2 = Tail(s)
        BY <1>7
      <4>2. Len(s2) + 1 \in 1 .. Len(s2) + 1 /\ Labelling(g, s2)
        BY <1>7, <4>1
      <4>3. g[1] <= g[Len(s2) + 1]
        BY <4>2, LabelParts
      <4> QED BY <1>3, <1>7, <1>9, <4>1, <4>3
    <3> QED BY <1>1, <1>6, <3>1 DEF Stage, Sending
  <2>3. PICK o : o = tree["client"]
    OBVIOUS
  <2>4. Walking(o, NoTree)'
    <3>1. \A p \in Paths : OfKind(p, o[p]) /\ OfKind(p, NoTree[p]) /\ NoTree[p] = "none"
      BY <2>3, BothHosts DEF KindsKept, TreeKinds, OfKind, NoTree
    <3>2. WellFormed(NoTree)
      BY DEF WellFormed, NoTree
    <3>3. tree'["client"] = o /\ new'["client"] = NoTree
      BY <1>6, <1>7, <2>3 DEF Known
    <3>4. Writing("client")'
      BY <2>1 DEF Writing
    <3> QED BY <2>1, <3>1, <3>2, <3>3, <3>4 DEF Walking, OfKind
  <2>5. PICK e : Labelling(e, << >>) /\ e[1] = 0
    BY OneStage
  <2>6. Telling(o, NoTree, << >>, e)'
    <3>1. Reads("server", 0)'
      BY <1>1, <1>6, <1>9, <2>2 DEF Reads, ReadsAt, ModeAt
    <3>2. Len(<< >>) = 0 /\ e[Len(<< >>) + 1] = Stage("client", pc'["client"])
      BY <2>1, <2>5 DEF Stage
    <3>3. Has(disk'["server"], o)
      BY <1>6, <2>3 DEF Known
    <3>4. Sorted("client", << >>, e)'
      BY DEF Sorted, About
    <3> QED BY <2>1, <2>5, <3>1, <3>2, <3>3, <3>4 DEF Telling, Has, About
  <2>7. pc'["server"] = "recv" /\ "scan" \in Sending
    BY <1>6, <2>2 DEF Sending
  <2> QED BY <1>4, <1>6, <2>1, <2>4, <2>6, <2>7 DEF ClientTelling
<1> QED BY <1>7, <1>8, <1>9

-----------------------------------------------------------------------------
(* While the client tells its changes.                                     *)

(* What the walk finds lies in folders it has found.                       *)
LEMMA FoundFolders ==
  ASSUME NEW n \in [Paths -> Kinded], WellFormed(n), NEW p \in Paths, n[p] = "none",
         InFolder(n, p), NEW k, NEW n2, n2 = [n EXCEPT ![p] = k]
  PROVE  WellFormed(n2)
<1> SUFFICES ASSUME NEW q \in Paths, n2[q] # "none" PROVE InFolder(n2, q)
  BY DEF WellFormed
<1>1. InFolder(n, q)
  <2>1. q # p => n2[q] = n[q]
    OBVIOUS
  <2> QED BY <2>1 DEF WellFormed
<1>2. CASE Len(q) = 1
  BY <1>2 DEF InFolder
<1>3. CASE Len(q) # 1
  <2>1. Front(q) \in Paths /\ n[Front(q)] = "dir"
    BY <1>1, <1>3, PathSize DEF InFolder
  <2>2. Front(q) # p
    BY <2>1
  <2>3. n2[Front(q)] = "dir"
    BY <2>1, <2>2
  <2> QED BY <2>3 DEF InFolder
<1> QED BY <1>2, <1>3

(* The client, at stage a of its turn, says m; its walk has found n2 then. *)
Saying(o, n, n2, s, f, m, a) ==
  /\ Says(a, m.t, Stage("client", pc'["client"]))
  /\ n2 = n \/ a = 0
  /\ m.t \in NodeTypes => Agrees(o, n2, a, m)
  /\ m.t \in NodeTypes /\ a = 4 =>
       /\ pc["client"] = "create" /\ m.p \in todo["client"]
       /\ Front(m.p) \notin todo["client"]
  /\ pc'["client"] = "create" =>
       \/ pc["client"] = "create" /\ todo'["client"] \subseteq todo["client"]
       \/ pc["client"] = "startCreate"
  /\ pc'["client"] # "scan" => \A p \in Paths : n2[p] # "none" =>
       \/ Kind(disk["server"][p]) = n2[p]
       \/ /\ o[p] = "none"
          /\ \/ pc'["client"] \in {"startDelete", "delete", "startCreate"}
             \/ pc'["client"] = "create" /\ p \in todo'["client"]
             \/ Pending(s, f, 4, p)
             \/ m.t \in NodeTypes /\ a = 4 /\ m.p = p

(* What it has said is as true as before.                                  *)
LEMMA OneTold ==
  ASSUME NEW s \in Seq(Message), NEW f, NEW o, NEW n, NEW n2, Telling(o, n, s, f),
         NEW m \in Message, NEW a, a = Stage("client", pc["client"]),
         UNCHANGED << disk, mode >>, pc'["server"] = pc["server"],
         Saying(o, n, n2, s, f, m, a)
  PROVE  \E g : Telling(o, n2, Append(s, m), g)'
<1>0. /\ Says(a, m.t, Stage("client", pc'["client"]))
      /\ n2 = n \/ a = 0
      /\ m.t \in NodeTypes => Agrees(o, n2, a, m)
      /\ m.t \in NodeTypes /\ a = 4 =>
           /\ pc["client"] = "create" /\ m.p \in todo["client"]
           /\ Front(m.p) \notin todo["client"]
      /\ pc'["client"] = "create" =>
           \/ pc["client"] = "create" /\ todo'["client"] \subseteq todo["client"]
           \/ pc["client"] = "startCreate"
      /\ pc'["client"] # "scan" => \A p \in Paths : n2[p] # "none" =>
           \/ Kind(disk["server"][p]) = n2[p]
           \/ /\ o[p] = "none"
              /\ \/ pc'["client"] \in {"startDelete", "delete", "startCreate"}
                 \/ pc'["client"] = "create" /\ p \in todo'["client"]
                 \/ Pending(s, f, 4, p)
                 \/ m.t \in NodeTypes /\ a = 4 /\ m.p = p
  BY DEF Saying
<1>1. /\ Labelling(f, s) /\ Reads("server", f[1]) /\ f[Len(s) + 1] = a
      /\ \A i \in 1 .. Len(s) : About(s, i) => Agrees(o, n, f[i], s[i])
      /\ Sorted("client", s, f)
      /\ f[1] <= 1 => Has(disk["server"], o)
  BY DEF Telling
<1>2. Stage("client", pc'["client"]) \in 0 .. 7
  BY StageTyped
<1>3. PICK g : /\ Labelling(g, Append(s, m))
               /\ g[Len(s) + 2] = Stage("client", pc'["client"])
               /\ \A i \in 1 .. Len(s) + 1 : g[i] = f[i]
  BY <1>0, <1>1, <1>2, LabelAppend
<1>4. PICK s2 \in Seq(Message) : s2 = Append(s, m)
  BY AppendProperties
<1>5. /\ Len(s) \in Nat /\ Len(s2) = Len(s) + 1 /\ s2[Len(s) + 1] = m
      /\ \A i \in 1 .. Len(s) : s2[i] = s[i]
  BY <1>4, AppendProperties
<1>6. /\ g[1] = f[1] /\ g[Len(s2) + 1] = Stage("client", pc'["client"]) /\ Labelling(g, s2)
      /\ g[Len(s) + 1] = a /\ \A i \in 1 .. Len(s) : g[i] = f[i]
  BY <1>1, <1>3, <1>4, <1>5
<1>7. \A i \in 1 .. Len(s) : f[i] \in 0 .. 7 /\ f[i] <= a
  BY <1>1, <1>5, LabelParts
<1>8. Reads("server", g[1])'
  BY <1>1, <1>6 DEF Reads
<1>9. ASSUME NEW i \in 1 .. Len(s2), About(s2, i) PROVE Agrees(o, n2, g[i], s2[i])
  <2>1. CASE i = Len(s) + 1
    BY <1>0, <1>5, <1>6, <1>9, <2>1 DEF About
  <2>2. CASE i # Len(s) + 1
    <3>1. i \in 1 .. Len(s) /\ About(s, i) /\ s2[i] = s[i] /\ g[i] = f[i]
      BY <1>5, <1>6, <1>9, <2>2 DEF About
    <3>2. Agrees(o, n, f[i], s[i])
      BY <1>1, <3>1
    <3>3. n2 # n => f[i] = 0
      BY <1>0, <1>7, <3>1
    <3> QED BY <1>0, <3>1, <3>2, <3>3 DEF Agrees
  <2> QED BY <2>1, <2>2
<1>10. Sorted("client", s2, g)'
  <2>1. ASSUME NEW i \in 1 .. Len(s2), About(s2, i), g[i] = 4
        PROVE  /\ pc'["client"] = "create" => Front(s2[i].p) \notin todo'["client"]
               /\ \A j \in 1 .. Len(s2) : j > i /\ About(s2, j) => s2[j].p # Front(s2[i].p)
    <3>1. CASE i = Len(s) + 1
      <4>1. m.t \in NodeTypes /\ a = 4
        BY <1>5, <1>6, <2>1, <3>1 DEF About
      <4> QED BY <1>0, <1>5, <3>1, <4>1
    <3>2. CASE i # Len(s) + 1
      <4>1. i \in 1 .. Len(s) /\ About(s, i) /\ s2[i] = s[i] /\ f[i] = 4 /\ a >= 4
        BY <1>5, <1>6, <1>7, <2>1, <3>2 DEF About
      <4>2. /\ pc["client"] = "create" => Front(s[i].p) \notin todo["client"]
            /\ \A j \in 1 .. Len(s) : j > i /\ About(s, j) => s[j].p # Front(s[i].p)
        BY <1>1, <4>1 DEF Sorted
      <4>3. pc["client"] # "startCreate"
        BY <4>1 DEF Stage
      <4>4. ASSUME NEW j \in 1 .. Len(s2), j > i, About(s2, j) PROVE s2[j].p # Front(s2[i].p)
        <5>1. CASE j = Len(s) + 1
          <6>1. m.t \in NodeTypes
            BY <1>5, <4>4, <5>1 DEF About
          <6>2. a = 4
            BY <1>0, <4>1, <6>1 DEF Says, NodeTypes
          <6> QED BY <1>0, <1>5, <4>1, <4>2, <5>1, <6>1, <6>2
        <5>2. CASE j # Len(s) + 1
          <6>1. j \in 1 .. Len(s) /\ About(s, j) /\ s2[j] = s[j]
            BY <1>5, <4>4, <5>2 DEF About
          <6> QED BY <4>1, <4>2, <4>4, <6>1
        <5> QED BY <5>1, <5>2
      <4> QED BY <1>0, <4>1, <4>2, <4>3, <4>4
    <3> QED BY <3>1, <3>2
  <2> QED BY <2>1 DEF Sorted
<1>11. \A p : /\ Pending(s, f, 4, p) => Pending(s2, g, 4, p)
              /\ m.t \in NodeTypes /\ a = 4 /\ m.p = p => Pending(s2, g, 4, p)
  BY <1>1, <1>3, <1>4, PendingAppend
<1>12. pc'["client"] # "scan" => \A p \in Paths : n2[p] # "none" =>
         Kind(disk'["server"][p]) = n2[p] \/ Coming(o, n2, s2, g, p)'
  BY <1>0, <1>11 DEF Coming
<1>13. g[1] <= 1 => Has(disk'["server"], o)
  BY <1>1, <1>6
<1>14. Telling(o, n2, s2, g)'
  <2>1. Labelling(g, s2)' /\ Sorted("client", s2, g)'
    BY <1>6, <1>10
  <2> QED BY <1>6, <1>8, <1>9, <1>12, <1>13, <2>1 DEF Telling
<1> QED BY <1>4, <1>14

(* The client's walk: what it finds is what it remembers, and what it      *)
(* tells.                                                                  *)
LEMMA ClientWalks ==
  ASSUME ClientOnly, TypeOK, ~Down, KindsKept, ClientTelling, Walk("client")
  PROVE  ClientTelling'
<1>1. /\ pc \in [Hosts -> Labels] /\ chan \in [Hosts -> Seq(Message)]
      /\ new \in [Hosts -> [Paths -> Kinded]] /\ todo \in [Hosts -> SUBSET Paths]
      /\ tree \in [Hosts -> [Paths -> Kinded]]
      /\ pc["server"] # "exited" /\ pc["server"] \in {"recv", "rebuild"}
  BY BothHosts DEF TypeOK, Down, ClientTelling
<1>2. ~BrokenPipe("client")
  BY <1>1, BothHosts DEF BrokenPipe
<1>3. PICK s \in Seq(Message) : s = chan["server"]
  BY <1>1, BothHosts
<1>4. PICK o, n, f : Walking(o, n) /\ Telling(o, n, s, f)
  BY <1>3 DEF ClientTelling
<1>5. PICK a : a = Stage("client", pc["client"])
  OBVIOUS
<1>6. /\ UNCHANGED << disk, mode >> /\ pc'["client"] \in Sending \cup {"recv"}
      /\ pc["client"] \in Sending /\ pc'["server"] = pc["server"]
  BY <1>2, BothHosts, Told
<1>7. /\ WellFormed(n) /\ \A p \in Paths : OfKind(p, o[p]) /\ OfKind(p, n[p])
      /\ Writing("client") => tree["client"] = o /\ new["client"] = n
      /\ ~Writing("client") => tree["client"] = n /\ new["client"] = NoTree
      /\ pc["client"] = "scan" => \A p \in todo["client"] : n[p] = "none"
      /\ pc["client"] = "delete" => \A p \in todo["client"] : n[p] = "none"
      /\ pc["client"] = "create" => \A p \in todo["client"] : n[p] # "none"
  BY <1>4 DEF Walking
<1>8. /\ f[Len(s) + 1] = a /\ Labelling(f, s) /\ Reads("server", f[1])
      /\ f[1] <= 1 => Has(disk["server"], o)
      /\ pc["client"] # "scan" => \A p \in Paths : n[p] # "none" =>
           Kind(disk["server"][p]) = n[p] \/ Coming(o, n, s, f, p)
  BY <1>4, <1>5 DEF Telling
(* One more directory entry.                                               *)
<1>9. ASSUME NEW p \in Paths, pc["client"] = "scan", InWalk("client", p), pc' = pc,
             UNCHANGED tree,
             \/ Record("client", p) /\ Seen("client", p)
             \/ new' = new /\ Walked("client", p),
             NEW n2, n2 = new'["client"]
      PROVE  Walking(o, n2)'
  <2>1. /\ todo'["client"] = todo["client"] \ {p} /\ n[p] = "none" /\ Writing("client")
        /\ new["client"] = n /\ n \in [Paths -> Kinded]
    BY <1>1, <1>7, <1>9, BothHosts DEF Record, Walked, InWalk, Writing
  <2>2. CASE Record("client", p) /\ Seen("client", p)
    <3>1. n2 = [n EXCEPT ![p] = Kind(disk["client"][p])] /\ InFolder(n, p)
      BY <1>1, <1>9, <2>1, <2>2, BothHosts DEF Record, Seen
    <3>2. WellFormed(n2)
      BY <2>1, <3>1, <1>7, FoundFolders
    <3>3. OfKind(p, Kind(disk["client"][p]))
      BY BothHosts DEF KindsKept, DiskKinds
    <3>4. \A q \in Paths : OfKind(q, n2[q])
      BY <1>7, <2>1, <3>1, <3>3
    <3>5. \A q \in todo'["client"] : n2[q] = "none"
      BY <1>7, <1>9, <2>1, <3>1
    <3>6. Writing("client")'
      BY <1>9, <2>1 DEF Writing
    <3> QED BY <1>7, <1>9, <2>1, <3>2, <3>4, <3>5, <3>6 DEF Walking, OfKind
  <2>3. CASE new' = new /\ Walked("client", p)
    <3>1. n2 = n
      BY <1>9, <2>1, <2>3
    <3>2. Writing("client")'
      BY <1>9, <2>1 DEF Writing
    <3> QED BY <1>7, <1>9, <2>1, <3>1, <3>2 DEF Walking, OfKind
  <2> QED BY <1>9, <2>2, <2>3
<1>10. pc["client"] = "scan" => a = 0 /\ \A i \in 1 .. Len(s) : f[i] = 0
  <2>1. pc["client"] = "scan" => a = 0
    BY <1>5 DEF Stage
  <2>2. \A i \in 1 .. Len(s) : f[i] \in 0 .. 7 /\ f[i] <= a
    BY <1>8, LabelParts
  <2> QED BY <2>1, <2>2
<1>11. ASSUME NEW p \in Paths, Visit("client", p) \/ Miss("client", p) PROVE ClientTelling'
  <2>1. PICK n2 : n2 = new'["client"]
    OBVIOUS
  <2>2. /\ pc["client"] = "scan" /\ InWalk("client", p) /\ UNCHANGED << tree, chan, pc >>
        /\ \/ Record("client", p) /\ Seen("client", p)
           \/ new' = new /\ Walked("client", p)
    BY <1>11 DEF Visit, Miss
  <2>3. Walking(o, n2)'
    BY <1>9, <2>1, <2>2
  <2>4. Telling(o, n2, s, f)'
    <3>1. \A i \in 1 .. Len(s) : About(s, i) => Agrees(o, n2, f[i], s[i])
      BY <1>4, <1>10, <2>2 DEF Telling, Agrees
    <3>2. Sorted("client", s, f)'
      BY <1>10, <2>2 DEF Sorted
    <3>3. Reads("server", f[1])' /\ f[Len(s) + 1] = Stage("client", pc'["client"])
      BY <1>5, <1>6, <1>8, <2>2 DEF Reads
    <3>4. f[1] <= 1 => Has(disk'["server"], o)
      BY <1>6, <1>8
    <3> QED BY <1>8, <2>2, <3>1, <3>2, <3>3, <3>4 DEF Telling
  <2> QED BY <1>1, <1>3, <1>6, <2>2, <2>3, <2>4 DEF ClientTelling
(* The next thing is said.                                                 *)
<1>12. ASSUME NEW m \in Message, Send("client", m), NEW n2, Walking(o, n2)',
              Saying(o, n, n2, s, f, m, a)
       PROVE  ClientTelling'
  <2>1. chan'["server"] = Append(s, m)
    BY <1>1, <1>3, <1>12, BothHosts DEF Send
  <2>2. \E g : Telling(o, n2, Append(s, m), g)'
    BY <1>4, <1>5, <1>6, <1>12, OneTold
  <2>3. PICK g : Telling(o, n2, Append(s, m), g)'
    BY <2>2
  <2>4. Telling(o, n2, chan["server"], g)'
    BY <2>1, <2>3 DEF Telling, Coming
  <2> QED BY <1>1, <1>6, <1>12, <2>4 DEF ClientTelling
<1>13. ASSUME NEW m \in Message, Send("client", m), SendUpdate("client", m.p),
              m.t = "SYNC_FILE", m.p \in Paths,
              Says(a, m.t, Stage("client", pc'["client"]))
       PROVE  ClientTelling'
  <2>0. PICK p \in Paths : p = m.p
    BY <1>13
  <2>1. PICK n2 : n2 = new'["client"]
    OBVIOUS
  <2>2. /\ pc["client"] = "scan" /\ InWalk("client", p) /\ UNCHANGED << tree, pc >>
        /\ Record("client", p) /\ Seen("client", p) /\ Changed("client", p)
    BY <1>13, <2>0 DEF SendUpdate
  <2>3. Walking(o, n2)'
    BY <1>9, <2>1, <2>2
  <2>4. o[p] = "file"
    <3>1. o[p] # "none" /\ Kind(disk["client"][p]) = "file"
      BY <1>7, <2>2 DEF Changed, Writing
    <3>2. OfKind(p, o[p]) /\ OfKind(p, "file")
      BY <1>7, <3>1, BothHosts DEF KindsKept, DiskKinds
    <3> QED BY <3>1, <3>2, OneKind
  <2>5. a = 0 /\ Agrees(o, n2, a, m) /\ pc'["client"] = "scan"
    BY <1>10, <2>0, <2>2, <2>4 DEF Agrees
  <2>6. Saying(o, n, n2, s, f, m, a)
    BY <1>13, <2>5 DEF Saying
  <2> QED BY <1>12, <1>13, <2>3, <2>6
(* The walk is over, and n is what it has found.                           *)
<1>14. ASSUME UNCHANGED << tree, new >>, Writing("client"), Writing("client")',
              pc'["client"] # "scan",
              pc'["client"] = "delete" => \A p \in todo'["client"] : n[p] = "none",
              pc'["client"] = "create" => \A p \in todo'["client"] : n[p] # "none"
       PROVE  Walking(o, n)'
  BY <1>7, <1>14 DEF Walking, OfKind
<1>15. ASSUME NEW m \in Message, Send("client", m), SendDelete("client", m.p),
              m.t = "PATH", m.p \in Paths,
              Says(a, m.t, Stage("client", pc'["client"]))
       PROVE  ClientTelling'
  <2>1. /\ pc["client"] = "delete" /\ m.p \in todo["client"] /\ pc' = pc
        /\ UNCHANGED << tree, new >> /\ todo'["client"] \subseteq todo["client"]
    BY <1>1, <1>15, BothHosts DEF SendDelete, InWalk, Walked
  <2>2. Writing("client") /\ Writing("client")' /\ a = 2
    BY <1>5, <2>1 DEF Writing, Stage
  <2>3. Walking(o, n)'
    BY <1>7, <1>14, <2>1, <2>2
  <2>4. Agrees(o, n, a, m)
    BY <1>7, <2>1, <2>2 DEF Agrees
  <2>5. \A p \in Paths : n[p] # "none" => Kind(disk["server"][p]) = n[p] \/ o[p] = "none"
    BY <1>8, <2>1 DEF Coming
  <2>6. Saying(o, n, n, s, f, m, a)
    BY <1>15, <2>1, <2>2, <2>4, <2>5 DEF Saying
  <2> QED BY <1>12, <1>15, <2>3, <2>6
<1>16. ASSUME NEW m \in Message, Send("client", m), SendCreate("client", m.p), m.p \in Paths,
              m.t = IF new["client"][m.p] = "dir" THEN "SYNC_FOLDER" ELSE "SYNC_FILE",
              Says(a, m.t, Stage("client", pc'["client"]))
       PROVE  ClientTelling'
  <2>1. /\ pc["client"] = "create" /\ m.p \in todo["client"] /\ pc' = pc
        /\ Front(m.p) \notin todo["client"]
        /\ UNCHANGED << tree, new >> /\ todo'["client"] = todo["client"] \ {m.p}
    BY <1>1, <1>16, BothHosts DEF SendCreate, InWalk, Walked
  <2>2. Writing("client") /\ Writing("client")' /\ a = 4
    BY <1>5, <2>1 DEF Writing, Stage
  <2>3. Walking(o, n)'
    BY <1>7, <1>14, <2>1, <2>2
  <2>4. Agrees(o, n, a, m)
    <3>1. n[m.p] # "none" /\ n[m.p] = new["client"][m.p] /\ new["client"][m.p] \in Kinded
      BY <1>1, <1>7, <1>16, <2>1, <2>2, BothHosts
    <3> QED BY <1>16, <2>2, <3>1 DEF Agrees, Kinded
  <2>5. \A p \in Paths : n[p] # "none" =>
          \/ Kind(disk["server"][p]) = n[p]
          \/ /\ o[p] = "none"
             /\ p \in todo'["client"] \/ Pending(s, f, 4, p) \/ m.p = p
    BY <1>8, <2>1 DEF Coming
  <2>6. m.t \in NodeTypes
    BY <1>16 DEF NodeTypes
  <2>7. Saying(o, n, n, s, f, m, a)
    BY <1>16, <2>1, <2>2, <2>4, <2>5, <2>6 DEF Saying
  <2> QED BY <1>12, <1>16, <2>3, <2>7
(* The tokens.                                                             *)
<1>17. ASSUME NEW m \in Message, Send("client", m), m.t \notin NodeTypes,
              Says(a, m.t, Stage("client", pc'["client"])),
              UpdatesDone("client") \/ StartDeletes("client") \/ DeletesDone("client")
       PROVE  ClientTelling'
  <2>1. /\ UNCHANGED << tree, new >> /\ pc["client"] \in {"scan", "startDelete", "delete"}
        /\ pc'["client"] \in {"startDelete", "delete", "startCreate"}
        /\ pc'["client"] = "delete" => todo'["client"] = Deleted("client")
    BY <1>1, <1>17, BothHosts DEF UpdatesDone, StartDeletes, DeletesDone, Goto
  <2>2. Writing("client") /\ Writing("client")'
    BY <2>1 DEF Writing
  <2>3. pc'["client"] = "delete" => \A p \in todo'["client"] : n[p] = "none"
    BY <1>7, <2>1, <2>2 DEF Deleted
  <2>4. Walking(o, n)'
    BY <1>14, <2>1, <2>2, <2>3
  <2>5. ASSUME NEW p \in Paths, n[p] # "none"
        PROVE  Kind(disk["server"][p]) = n[p] \/ o[p] = "none"
    <3>1. CASE pc["client"] = "scan"
      <4> SUFFICES ASSUME o[p] # "none" PROVE Kind(disk["server"][p]) = n[p]
        OBVIOUS
      <4>1. f[1] <= 1
        <5>1. Len(s) \in Nat
          OBVIOUS
        <5>2. 1 \in 1 .. Len(s) \/ Len(s) + 1 = 1
          BY <5>1
        <5> QED BY <1>8, <1>10, <3>1, <5>2
      <4>2. Kind(disk["server"][p]) = o[p]
        BY <1>8, <4>1 DEF Has
      <4>3. o[p] = n[p]
        BY <1>7, <2>5, OneKind
      <4> QED BY <4>2, <4>3
    <3>2. CASE pc["client"] # "scan"
      BY <1>8, <2>5, <3>2 DEF Coming
    <3> QED BY <3>1, <3>2
  <2>6. Saying(o, n, n, s, f, m, a)
    BY <1>17, <2>1, <2>5 DEF Saying
  <2> QED BY <1>12, <1>17, <2>4, <2>6
<1>18. ASSUME NEW m \in Message, Send("client", m), m.t \notin NodeTypes,
              Says(a, m.t, Stage("client", pc'["client"])), StartCreates("client")
       PROVE  ClientTelling'
  <2>1. /\ UNCHANGED << tree, new >> /\ pc["client"] = "startCreate"
        /\ pc'["client"] = "create" /\ todo'["client"] = Created("client")
    BY <1>1, <1>18, BothHosts DEF StartCreates, Goto
  <2>2. Writing("client") /\ Writing("client")'
    BY <2>1 DEF Writing
  <2>3. \A p \in Paths : p \in todo'["client"] <=> o[p] = "none" /\ n[p] # "none"
    BY <1>7, <2>1, <2>2 DEF Created
  <2>4. todo'["client"] \subseteq Paths
    BY <2>1 DEF Created
  <2>5. Walking(o, n)'
    BY <1>14, <2>1, <2>2, <2>3, <2>4
  <2>6. \A p \in Paths : n[p] # "none" =>
          Kind(disk["server"][p]) = n[p] \/ (o[p] = "none" /\ p \in todo'["client"])
    BY <1>8, <2>1, <2>3 DEF Coming
  <2>7. Saying(o, n, n, s, f, m, a)
    BY <1>18, <2>1, <2>6 DEF Saying
  <2> QED BY <1>12, <1>18, <2>5, <2>7
<1>19. ASSUME NEW m \in Message, Send("client", m), m.t \notin NodeTypes,
              Says(a, m.t, Stage("client", pc'["client"])),
              CreatesDone("client") \/ Finish("client") \/ AskAgain("client")
       PROVE  ClientTelling'
  <2>1. /\ pc["client"] \in {"create", "finish", "again"}
        /\ pc["client"] = "create" => todo["client"] = {}
        /\ pc'["client"] \in {"finish", "again", "recv"}
    BY <1>1, <1>19, BothHosts DEF CreatesDone, Finish, AskAgain, Goto
  <2>2. ~Writing("client")' /\ tree'["client"] = n /\ new'["client"] = NoTree
    <3>1. CASE CreatesDone("client")
      <4>1. pc["client"] = "create" /\ tree' = [tree EXCEPT !["client"] = new["client"]]
            /\ new' = [new EXCEPT !["client"] = NoTree]
        BY <3>1 DEF CreatesDone
      <4> QED BY <1>1, <1>7, <2>1, <4>1, BothHosts DEF Writing
    <3>2. CASE Finish("client") \/ AskAgain("client")
      <4>1. pc["client"] \in {"finish", "again"} /\ UNCHANGED << tree, new >>
        BY <3>2 DEF Finish, AskAgain
      <4> QED BY <1>7, <2>1, <4>1 DEF Writing
    <3> QED BY <1>19, <3>1, <3>2
  <2>3. Walking(o, n)'
    BY <1>7, <2>1, <2>2 DEF Walking, OfKind
  <2>4. \A p \in Paths : n[p] # "none" =>
          Kind(disk["server"][p]) = n[p] \/ (o[p] = "none" /\ Pending(s, f, 4, p))
    BY <1>8, <2>1 DEF Coming
  <2>5. Saying(o, n, n, s, f, m, a)
    BY <1>19, <2>1, <2>4 DEF Saying
  <2> QED BY <1>12, <1>19, <2>3, <2>5
<1>20. \/ \E p \in Paths : Visit("client", p) \/ Miss("client", p)
       \/ \E m \in Message :
            /\ Send("client", m)
            /\ Says(Stage("client", pc["client"]), m.t, Stage("client", pc'["client"]))
            /\ \/ SendUpdate("client", m.p) /\ m.t = "SYNC_FILE" /\ m.p \in Paths
               \/ SendDelete("client", m.p) /\ m.t = "PATH" /\ m.p \in Paths
               \/ /\ SendCreate("client", m.p) /\ m.p \in Paths
                  /\ m.t = IF new["client"][m.p] = "dir" THEN "SYNC_FOLDER" ELSE "SYNC_FILE"
               \/ /\ m.t \notin NodeTypes
                  /\ \/ UpdatesDone("client") \/ StartDeletes("client") \/ DeletesDone("client")
                     \/ StartCreates("client") \/ CreatesDone("client") \/ Finish("client")
                     \/ AskAgain("client")
  BY <1>2, BothHosts, Told
<1> QED BY <1>5, <1>11, <1>13, <1>15, <1>16, <1>17, <1>18, <1>19, <1>20

(* The server hears the client out: what the client remembers comes to be  *)
(* at the server.                                                          *)
LEMMA ServerHears ==
  ASSUME ClientOnly, TypeOK, ~Down, KindsKept, ClientTelling, Receive("server")
  PROVE  ~RecvUpdateFails("server") /\ ClientTelling'
<1>1. /\ pc \in [Hosts -> Labels] /\ chan \in [Hosts -> Seq(Message)]
      /\ disk \in [Hosts -> [Paths -> Node]]
      /\ mode \in [Hosts -> {"top", "delete", "create", "jammed"}]
  BY DEF TypeOK
<1>2. PICK s \in Seq(Message) : s = chan["server"]
  BY <1>1, BothHosts
<1>3. PICK o, n, f : Walking(o, n) /\ Telling(o, n, s, f)
  BY <1>2 DEF ClientTelling
<1>4. PICK S : S = disk["server"] /\ S \in [Paths -> Node]
  BY <1>1, BothHosts
<1>5. /\ Labelling(f, s) /\ Reads("server", f[1])
      /\ f[Len(s) + 1] = Stage("client", pc["client"])
      /\ \A i \in 1 .. Len(s) : About(s, i) => Agrees(o, n, f[i], s[i])
      /\ Sorted("client", s, f)
      /\ f[1] <= 1 => Has(S, o)
      /\ pc["client"] # "scan" => \A p \in Paths : n[p] # "none" =>
           Kind(S[p]) = n[p] \/ Coming(o, n, s, f, p)
  BY <1>3, <1>4 DEF Telling
<1>6. ~RecvUpdateFails("server")
  <2> SUFFICES ASSUME RecvUpdateFails("server") PROVE FALSE
    OBVIOUS
  <2>1. f[1] = 0 /\ About(s, 1) /\ s[1].p \in Paths /\ S[s[1].p] \notin FileData
    BY <1>2, <1>4, <1>5, BothHosts, FailsAt
  <2>2. Kind(S[s[1].p]) = "file"
    <3>1. o[s[1].p] = "file"
      BY <1>5, <2>1 DEF About, Agrees
    <3> QED BY <1>5, <2>1, <3>1 DEF Has
  <2> QED BY <1>4, <2>1, <2>2, KindOf
<1> SUFFICES ClientTelling'
  BY <1>6
<1>7. PICK m \in Message : \E g : Takes("server", s, f, m, g)
  BY <1>2, <1>5, <1>6, BothHosts, Taken
<1>8. PICK g : Takes("server", s, f, m, g)
  BY <1>7
<1>9. PICK s2 \in Seq(Message) : s2 = Tail(s)
  BY <1>8 DEF Takes
<1>10. /\ s # << >> /\ m = Head(s) /\ m = s[1] /\ 1 \in 1 .. Len(s)
       /\ chan'["server"] = s2 /\ Labelling(g, s2) /\ Says(f[1], m.t, g[1]) /\ f[1] \in 0 .. 5
       /\ g[Len(s2) + 1] = f[Len(s) + 1]
       /\ \A i \in 1 .. Len(s2) : g[i] = f[i + 1]
       /\ UNCHANGED << tree, new >>
       /\ pc'["client"] = pc["client"] /\ todo'["client"] = todo["client"]
  BY <1>1, <1>8, <1>9, BothHosts DEF Takes
<1>11. \/ /\ g[1] = 6 /\ m.t \notin NodeTypes /\ mode["server"] = "top"
          /\ AfterReceive("server") /\ UNCHANGED << disk, mode >>
       \/ pc' = pc /\ todo' = todo /\ Reads("server", g[1])' /\ Did("server", f[1], m)
  BY <1>8 DEF Takes
<1>12. PICK T : T = disk'["server"]
  OBVIOUS
<1>13. /\ Len(s) \in Nat \ {0} /\ Len(s2) = Len(s) - 1
       /\ \A i \in 1 .. Len(s2) : s2[i] = s[i + 1]
  BY <1>9, <1>10, HeadTailProperties
<1>14. Walking(o, n)'
  <2>1. Writing("client")' <=> Writing("client")
    BY <1>10 DEF Writing
  <2> QED BY <1>3, <1>10, <2>1 DEF Walking, OfKind
<1>15. pc'["server"] \in {"recv", "rebuild"} /\ Reads("server", g[1])'
  <2>1. CASE g[1] = 6 /\ mode["server"] = "top" /\ AfterReceive("server") /\ mode' = mode
    <3>1. pc'["server"] = "rebuild" /\ mode'["server"] = "top"
      BY <1>1, <2>1, BothHosts DEF AfterReceive, Goto
    <3> QED BY <2>1, <3>1 DEF Reads, ReadsAt
  <2>2. CASE pc' = pc /\ Reads("server", g[1])'
    BY <2>2 DEF ClientTelling
  <2> QED BY <1>11, <2>1, <2>2
<1>16. \A i \in 1 .. Len(s2) : About(s2, i) => Agrees(o, n, g[i], s2[i])
  <2> SUFFICES ASSUME NEW i \in 1 .. Len(s2), About(s2, i) PROVE Agrees(o, n, g[i], s2[i])
    OBVIOUS
  <2>1. i + 1 \in 1 .. Len(s) /\ About(s, i + 1) /\ s2[i] = s[i + 1] /\ g[i] = f[i + 1]
    BY <1>10, <1>13 DEF About
  <2> QED BY <1>5, <2>1
<1>17. Sorted("client", s2, g)'
  <2>1. ASSUME NEW i \in 1 .. Len(s2), About(s2, i), g[i] = 4
        PROVE  /\ pc'["client"] = "create" => Front(s2[i].p) \notin todo'["client"]
               /\ \A j \in 1 .. Len(s2) : j > i /\ About(s2, j) => s2[j].p # Front(s2[i].p)
    <3>1. i + 1 \in 1 .. Len(s) /\ About(s, i + 1) /\ f[i + 1] = 4 /\ s2[i] = s[i + 1]
      BY <1>10, <1>13, <2>1 DEF About
    <3>2. /\ pc["client"] = "create" => Front(s[i + 1].p) \notin todo["client"]
          /\ \A j \in 1 .. Len(s) : j > i + 1 /\ About(s, j) => s[j].p # Front(s[i + 1].p)
      BY <1>5, <3>1 DEF Sorted
    <3>3. ASSUME NEW j \in 1 .. Len(s2), j > i, About(s2, j) PROVE s2[j].p # Front(s2[i].p)
      <4>1. j + 1 \in 1 .. Len(s) /\ j + 1 > i + 1 /\ About(s, j + 1) /\ s2[j] = s[j + 1]
        BY <1>13, <3>3 DEF About
      <4> QED BY <3>1, <3>2, <4>1
    <3> QED BY <1>10, <3>1, <3>2, <3>3
  <2> QED BY <2>1 DEF Sorted
<1>18. \A p : Coming(o, n, s, f, p) =>
         Coming(o, n, s2, g, p)' \/ (m.t \in NodeTypes /\ f[1] = 4 /\ m.p = p)
  <2>1. \A p : Pending(s, f, 4, p) =>
          Pending(s2, g, 4, p) \/ (m.t \in NodeTypes /\ f[1] = 4 /\ m.p = p)
    <3>1. s2 = Tail(s) /\ s # << >> /\ m = Head(s)
      BY <1>9, <1>10
    <3>2. \A i \in 1 .. Len(Tail(s)) : g[i] = f[i + 1]
      BY <1>8 DEF Takes
    <3>3. \A a, p : Pending(s, f, a, p) =>
            \/ Pending(Tail(s), g, a, p)
            \/ Head(s).t \in NodeTypes /\ f[1] = a /\ Head(s).p = p
      BY <3>1, <3>2, PendingTail
    <3> QED BY <3>1, <3>3
  <2>2. \A p : Pending(s2, g, 4, p)' <=> Pending(s2, g, 4, p)
    BY DEF Pending, About
  <2> QED BY <1>10, <2>1, <2>2 DEF Coming
(* Nothing that the client has found goes, and what is said is done.       *)
<1>19. ASSUME g[1] <= 1 => Has(T, o),
              pc["client"] # "scan" => \A p \in Paths : n[p] # "none" =>
                /\ Kind(S[p]) = n[p] => Kind(T[p]) = n[p]
                /\ m.t \in NodeTypes /\ f[1] = 4 /\ m.p = p => Kind(T[p]) = n[p]
       PROVE  ClientTelling'
  <2>1. pc'["client"] # "scan" => \A p \in Paths : n[p] # "none" =>
          Kind(T[p]) = n[p] \/ Coming(o, n, s2, g, p)'
    BY <1>5, <1>10, <1>18, <1>19
  <2>2. Telling(o, n, s2, g)'
    BY <1>5, <1>10, <1>12, <1>15, <1>16, <1>17, <1>19, <2>1 DEF Telling
  <2> QED BY <1>10, <1>14, <1>15, <2>2 DEF ClientTelling
<1>20. g[1] <= 1 => f[1] <= 1
  BY <1>10 DEF Says
<1>21. CASE m.t \notin NodeTypes /\ UNCHANGED disk
  BY <1>4, <1>5, <1>12, <1>19, <1>20, <1>21
<1>22. CASE m.t \in NodeTypes
  <2>1. Did("server", f[1], m) /\ Agrees(o, n, f[1], m) /\ m.p \in Paths
    <3>1. m.p \in Paths
      BY <1>22, MessageParts
    <3>2. About(s, 1)
      BY <1>10, <1>22 DEF About
    <3> QED BY <1>5, <1>10, <1>11, <1>22, <3>1, <3>2
  <2>2. PICK p \in Paths : p = m.p
    BY <2>1
  <2>3. CASE /\ f[1] = 0 /\ S[p] \in FileData
             /\ disk' = [disk EXCEPT !["server"] = [disk["server"] EXCEPT ![p] = UpdateText(m.c)]]
    <3>1. UpdateText(m.c) \in FileData
      BY MessageParts DEF UpdateText, FileData
    <3>2. T = [S EXCEPT ![p] = UpdateText(m.c)]
      BY <1>1, <1>4, <1>12, <2>3, BothHosts
    <3>3. Kind(UpdateText(m.c)) = "file" /\ Kind(S[p]) = "file"
      BY <2>3, <3>1, KindOf
    <3>4. \A q \in Paths : Kind(T[q]) = Kind(S[q])
      BY <1>4, <3>2, <3>3
    <3> QED BY <1>5, <1>19, <2>3, <3>4 DEF Has
  <2>4. CASE f[1] = 2 /\ disk' = [disk EXCEPT !["server"] = RemoveTree(disk["server"], p)]
    <3>1. T = RemoveTree(S, p)
      BY <1>1, <1>4, <1>12, <2>4, BothHosts
    <3>2. n[p] = "none" /\ WellFormed(n)
      BY <1>3, <2>1, <2>2, <2>4 DEF Agrees, Walking
    <3>3. ASSUME NEW q \in Paths, n[q] # "none" PROVE T[q] = S[q]
      <4>1. ~IsPrefix(p, q)
        BY <3>2, <3>3, NothingBelow
      <4> QED BY <3>1, <4>1 DEF RemoveTree
    <3>4. ~(g[1] <= 1)
      BY <1>20, <2>4
    <3> QED BY <1>19, <2>4, <3>3, <3>4
  <2>5. CASE f[1] = 4
    <3>1. pc["client"] # "scan" /\ ~(g[1] <= 1) /\ 4 <= Stage("client", pc["client"])
      <4>1. f[1] <= f[Len(s) + 1]
        <5>1. Len(s) + 1 \in 1 .. Len(s) + 1
          BY <1>13
        <5> QED BY <1>5, <5>1, LabelParts
      <4>2. pc["client"] # "scan"
        BY <1>5, <2>5, <4>1 DEF Stage
      <4> QED BY <1>5, <1>20, <2>5, <4>1, <4>2
    <3>2. /\ n[p] = (IF m.t = "SYNC_FOLDER" THEN "dir" ELSE "file")
          /\ WellFormed(n) /\ OfKind(p, n[p]) /\ OfKind(p, Kind(S[p]))
      BY <1>3, <1>4, <2>1, <2>2, <2>5, BothHosts
         DEF Agrees, Walking, KindsKept, DiskKinds
    <3>3. S[p] = "none" \/ Kind(S[p]) = n[p]
      <4>1. Kind(S[p]) = "none" <=> S[p] = "none"
        BY <1>4, KindOf
      <4>2. n[p] # "none"
        BY <3>2
      <4>3. Kind(S[p]) # "none" => Kind(S[p]) = n[p]
        BY <3>2, <4>2, OneKind
      <4> QED BY <4>1, <4>3
    <3>4. InFolder(S, p)
      <4> SUFFICES ASSUME Len(p) # 1 PROVE S[Front(p)] = "dir"
        BY DEF InFolder
      <4>1. Front(p) \in Paths /\ Front(p) # p /\ n[Front(p)] = "dir"
        <5>1. Len(p) > 1 /\ Front(p) \in Paths
          BY PathSize
        <5>2. n[p] # "none"
          BY <3>2
        <5> QED BY <3>2, <5>1, <5>2, FolderAbove, FrontPrefix
      <4>2. Sorted("client", s, f) /\ About(s, 1) /\ s[1].p = p
        BY <1>5, <1>10, <1>22, <2>2 DEF About
      <4>3. /\ pc["client"] = "create" => Front(p) \notin todo["client"]
            /\ \A j \in 1 .. Len(s) : j > 1 /\ About(s, j) => s[j].p # Front(p)
        BY <1>10, <2>5, <4>2 DEF Sorted
      <4>4. ~Pending(s, f, 4, Front(p))
        <5> SUFFICES ASSUME NEW i \in 1 .. Len(s), About(s, i), s[i].p = Front(p) PROVE FALSE
          BY DEF Pending
        <5>1. i = 1 \/ i > 1
          BY <1>13
        <5> QED BY <4>1, <4>2, <4>3, <5>1
      <4>5. ~Coming(o, n, s, f, Front(p))
        BY <3>1, <4>3, <4>4 DEF Coming, Stage
      <4>6. Kind(S[Front(p)]) = "dir"
        BY <1>5, <3>1, <4>1, <4>5
      <4> QED BY <1>4, <4>1, <4>6, KindOf
    <3>5. /\ Kind(T[p]) = n[p]
          /\ \A q \in Paths : q # p => T[q] = S[q]
      <4>1. CASE /\ m.t = "SYNC_FOLDER"
                 /\ disk' = [disk EXCEPT !["server"] = MakeFolder(disk["server"], p)]
        <5>1. T = MakeFolder(S, p) /\ n[p] = "dir"
          BY <1>1, <1>4, <1>12, <3>2, <4>1, BothHosts
        <5>2. CASE S[p] = "none"
          <6>1. T = [S EXCEPT ![p] = "dir"]
            BY <3>4, <5>1, <5>2 DEF MakeFolder
          <6> QED BY <1>4, <5>1, <6>1, KindOf
        <5>3. CASE S[p] # "none"
          <6>1. T = S
            BY <5>1, <5>3 DEF MakeFolder
          <6> QED BY <3>3, <5>3, <6>1
        <5> QED BY <5>2, <5>3
      <4>2. CASE /\ m.t = "SYNC_FILE"
                 /\ disk' = [disk EXCEPT !["server"] = MakeFile(disk["server"], p, m.c)]
        <5>1. T = MakeFile(S, p, m.c) /\ n[p] = "file"
          BY <1>1, <1>4, <1>12, <3>2, <4>2, BothHosts
        <5>2. CanWrite(S, p)
          BY <3>3, <3>4, <5>1, KindOf DEF CanWrite
        <5>3. T = [S EXCEPT ![p] = m.c] /\ Kind(m.c) = "file"
          BY <5>1, <5>2, MessageParts, KindOf DEF MakeFile
        <5> QED BY <1>4, <5>1, <5>3
      <4> QED BY <1>22, <2>1, <2>2, <2>5, <4>1, <4>2 DEF Did
    <3> QED BY <1>19, <2>2, <3>1, <3>5
  <2>6. \/ f[1] = 4
        \/ /\ f[1] = 0 /\ S[p] \in FileData
           /\ disk' = [disk EXCEPT !["server"] = [disk["server"] EXCEPT ![p] = UpdateText(m.c)]]
        \/ f[1] = 2 /\ disk' = [disk EXCEPT !["server"] = RemoveTree(disk["server"], p)]
    BY <1>4, <1>22, <2>1, <2>2 DEF Did
  <2> QED BY <2>3, <2>4, <2>5, <2>6
<1>23. m.t \in NodeTypes \/ (m.t \notin NodeTypes /\ UNCHANGED disk)
  <2>1. m.t \notin NodeTypes => m.p = << >>
    BY DEF Message
  <2>2. m.p \in Paths => m.t \in NodeTypes
    BY <2>1, PathsAssumption
  <2> QED BY <1>11, <2>2 DEF Did
<1> QED BY <1>21, <1>22, <1>23

(* When the server rebuilds its tree nothing is on its way any more.       *)
LEMMA AllCame ==
  ASSUME TypeOK, ClientTelling, Rebuild PROVE Known'
<1>1. PICK s \in Seq(Message) : s = chan["server"]
  BY BothHosts DEF TypeOK
<1>2. PICK o, n, f : Walking(o, n) /\ Telling(o, n, s, f)
  BY <1>1 DEF ClientTelling
<1>3. /\ Labelling(f, s) /\ f[1] = 6 /\ f[Len(s) + 1] = Stage("client", pc["client"])
      /\ pc["client"] # "scan" => \A p \in Paths : n[p] # "none" =>
           Kind(disk["server"][p]) = n[p] \/ Coming(o, n, s, f, p)
  BY <1>2 DEF Telling, Reads, ReadsAt, Rebuild
<1>4. \A i \in 1 .. Len(s) + 1 : 6 <= f[i]
  BY <1>3, LabelParts
<1>5. 6 <= Stage("client", pc["client"])
  <2>1. Len(s) + 1 \in 1 .. Len(s) + 1
    OBVIOUS
  <2> QED BY <1>3, <1>4, <2>1
<1>6. pc["client"] \notin {"scan", "startDelete", "delete", "startCreate", "create"}
  BY <1>5 DEF Stage
<1>7. \A p : ~Pending(s, f, 4, p)
  <2> SUFFICES ASSUME NEW i \in 1 .. Len(s), f[i] = 4 PROVE FALSE
    BY DEF Pending
  <2>1. i \in 1 .. Len(s) + 1
    OBVIOUS
  <2> QED BY <1>4, <2>1
<1>8. \A p \in Paths : n[p] # "none" => Kind(disk["server"][p]) = n[p]
  BY <1>3, <1>6, <1>7 DEF Coming
<1>9. tree["client"] = n /\ new["client"] = NoTree
  BY <1>2, <1>6 DEF Walking, Writing
<1>10. tree'["client"] = n /\ UNCHANGED << disk, new >>
  BY <1>9, BothHosts DEF Rebuild, TypeOK
<1> QED BY <1>8, <1>9, <1>10 DEF Known, Has

-----------------------------------------------------------------------------
(* The whole.                                                              *)

(* The programs start with the same in both directories, and the client    *)
(* remembers a part of it.                                                 *)
LEMMA SurvivesInit == ASSUME ClientOnly, Init PROVE Survives
<1>1. PICK dk \in [Paths -> {"none", "dir"} \cup Data] :
        /\ \A p \in Paths : IF Hidden(p) THEN dk[p] = "none"
                            ELSE dk[p] = "none" \/ Kind(dk[p]) \in Kinds[p]
        /\ disk = [server |-> [p \in Paths |-> IF p = << LogName >> THEN "log" ELSE dk[p]],
                   client |-> dk]
        /\ \E had \in SUBSET {p \in Paths : dk[p] # "none"} :
             tree = [server |-> TreeOf(dk),
                     client |-> [p \in Paths |-> IF p \in had THEN Kind(dk[p]) ELSE "none"]]
  BY DEF Init
<1>2. PICK had \in SUBSET {p \in Paths : dk[p] # "none"} :
        tree = [server |-> TreeOf(dk),
                client |-> [p \in Paths |-> IF p \in had THEN Kind(dk[p]) ELSE "none"]]
  BY <1>1
<1>3. /\ \A h \in Hosts : new[h] = NoTree /\ stale[h] = {} /\ pc[h] \notin {"exited", "create"}
      /\ pc["server"] = "wait" /\ chan["client"] = << >>
      /\ chan["server"] = << Token("DONE_CONTROL") >>
  BY BothHosts DEF Init
<1>4. /\ disk["server"] = [p \in Paths |-> IF p = << LogName >> THEN "log" ELSE dk[p]]
      /\ disk["client"] = dk
      /\ tree["server"] = TreeOf(dk)
      /\ tree["client"] = [p \in Paths |-> IF p \in had THEN Kind(dk[p]) ELSE "none"]
  BY <1>1, <1>2
<1>5. \A p \in Paths : OfKind(p, Kind(dk[p]))
  BY <1>1, KindOf DEF OfKind
<1>6. ASSUME NEW p \in Paths, p = << LogName >> PROVE Hidden(p)
  <2>1. 1 \in DOMAIN p /\ p[1] = LogName
    BY <1>6
  <2> QED BY <2>1 DEF Hidden
<1>7. DiskKinds
  <2>1. Kind("log") = "file"
    BY KindOf DEF FileData
  <2> QED BY <1>4, <1>5, <2>1, BothHosts DEF DiskKinds, OfKind, ClientOnly
<1>8. TreeKinds
  <2>1. \A p \in Paths : OfKind(p, tree["server"][p])
    BY <1>4, <1>5 DEF TreeOf, OfKind
  <2>2. \A p \in Paths : OfKind(p, tree["client"][p])
    BY <1>4, <1>5 DEF OfKind
  <2>3. \A h \in Hosts, p \in Paths : OfKind(p, new[h][p])
    BY <1>3 DEF NoTree, OfKind
  <2> QED BY <2>1, <2>2, <2>3, BothHosts DEF TreeKinds
<1>9. MessageKinds
  <2>1. Fitting(Token("DONE_CONTROL"))
    BY DEF Fitting, Token
  <2>2. \A i \in 1 .. Len(chan["server"]) : Fitting(chan["server"][i])
    BY <1>3, <2>1
  <2>3. \A i \in 1 .. Len(chan["client"]) : Fitting(chan["client"][i])
    BY <1>3
  <2> QED BY <2>2, <2>3, BothHosts DEF MessageKinds
<1>10. KindsKept
  BY <1>3, <1>7, <1>8, <1>9 DEF KindsKept, ListKinds
<1>11. Known
  <2> SUFFICES ASSUME NEW p \in Paths, tree["client"][p] # "none"
               PROVE  Kind(disk["server"][p]) = tree["client"][p]
    BY <1>3, BothHosts DEF Known, Has
  <2>1. p \in had /\ tree["client"][p] = Kind(dk[p])
    BY <1>4
  <2>2. dk[p] # "none"
    BY <2>1
  <2>3. p # << LogName >>
    BY <1>1, <1>6, <2>2
  <2> QED BY <1>4, <2>1, <2>3
<1> QED BY <1>3, <1>10, <1>11, BothHosts DEF Survives, Down, NothingNew

(* ... stays as it is while the user of the client edits.                  *)
LEMMA EditStays ==
  ASSUME ClientOnly, TypeOK, Edit
  PROVE  /\ ServerTelling => ServerTelling'
         /\ ClientTelling => ClientTelling'
<1>1. UNCHANGED << tree, new, todo, chan, mode, pc >> /\ disk'["server"] = disk["server"]
  BY EditBeside
<1>2. ASSUME ServerTelling PROVE ServerTelling'
  BY <1>1, <1>2 DEF ServerTelling, Known, Has, Labelling, Reads, About
<1>3. ASSUME ClientTelling PROVE ClientTelling'
  <2>1. PICK o, n, f : Walking(o, n) /\ Telling(o, n, chan["server"], f)
    BY <1>3 DEF ClientTelling
  <2>2. Walking(o, n)'
    BY <1>1, <2>1 DEF Walking, Writing
  <2>3. \A p : Coming(o, n, chan["server"], f, p) => Coming(o, n, chan["server"], f, p)'
    BY <1>1 DEF Coming, Pending, About
  <2>4. Sorted("client", chan["server"], f)'
    BY <1>1, <2>1 DEF Telling, Sorted, About
  <2>5. Telling(o, n, chan["server"], f)'
    BY <1>1, <2>1, <2>3, <2>4 DEF Telling, Labelling, Reads, About, Has, Agrees
  <2> QED BY <1>1, <1>3, <2>2, <2>5 DEF ClientTelling
<1> QED BY <1>2, <1>3

(* While the server tells.                                                 *)
LEMMA TellingStep ==
  ASSUME ClientOnly, TypeOK, ProtoInv, ~Down, KindsKept, NothingNew, ServerTelling, Next
  PROVE  /\ \A h \in Hosts : ~RecvUpdateFails(h)
         /\ ServerTelling' \/ ClientTelling'
<1>1. /\ chan["server"] = << >> /\ pc["server"] \in Sending \cup {"recv"}
      /\ pc["client"] = "recv" /\ \A h \in Hosts : pc[h] # "exited"
  BY TellingTurn DEF ServerTelling, Down
<1>2. ~Receive("server")
  BY <1>1, BothHosts DEF Receive, RecvUpdate, RecvUpdateFails, RecvToken, RecvDelete,
       RecvCreate, RecvListEnd, RecvDone, RecvEOF, TopCase, Incoming
<1>3. ~Walk("client")
  BY <1>1 DEF Walk, Visit, SendUpdate, Miss, SendDelete, SendCreate, UpdatesDone,
       StartDeletes, DeletesDone, StartCreates, CreatesDone, Finish, AskAgain, BrokenPipe,
       Sending
<1>4. ~ServerLoop
  BY <1>1 DEF ServerLoop, Rebuild, HandleRequest, SpinAtEOF, Wake, Sending
<1>5. ~Over
  BY <1>1, BothHosts DEF Over
<1>6. \A h \in Hosts : ~RecvUpdateFails(h)
  <2>1. RecvUpdateFails("client") => Receive("client")
    BY DEF Receive
  <2> QED BY <1>2, <2>1, BothHosts, ClientHears DEF Receive
<1>7. CASE Edit
  BY <1>6, <1>7, EditStays
<1>8. CASE Walk("server")
  BY <1>6, <1>8, ServerWalks
<1>9. CASE Receive("client")
  BY <1>6, <1>9, ClientHears
<1> QED BY <1>2, <1>3, <1>4, <1>5, <1>7, <1>8, <1>9, BothHosts DEF Next

(* While the client tells, and when the server rebuilds its tree after it. *)
LEMMA AnswerStep ==
  ASSUME ClientOnly, TypeOK, ProtoInv, ~Down, KindsKept, ClientTelling, Next
  PROVE  /\ \A h \in Hosts : ~RecvUpdateFails(h)
         /\ IF pc'["server"] \in {"wait", "sleep"} THEN Known' ELSE ClientTelling'
<1>1. /\ pc["server"] \in {"recv", "rebuild"} /\ \A h \in Hosts : pc[h] # "exited"
      /\ pc \in [Hosts -> Labels]
  BY DEF ClientTelling, Down, TypeOK
<1>2. ~Receive("client")
  BY <1>1, AnswerTurn, BothHosts DEF Receive, RecvUpdate, RecvUpdateFails, RecvToken,
       RecvDelete, RecvCreate, RecvListEnd, RecvDone, RecvEOF, TopCase
<1>3. ~Walk("server")
  BY <1>1 DEF Walk, Visit, SendUpdate, Miss, SendDelete, SendCreate, UpdatesDone,
       StartDeletes, DeletesDone, StartCreates, CreatesDone, Finish, AskAgain, BrokenPipe,
       Sending
<1>4. ~HandleRequest /\ ~SpinAtEOF /\ ~Wake
  BY <1>1 DEF HandleRequest, SpinAtEOF, Wake
<1>5. ~Over
  BY <1>1, BothHosts DEF Over
<1>6. \A h \in Hosts : ~RecvUpdateFails(h)
  <2>1. RecvUpdateFails("server") => Receive("server")
    BY DEF Receive
  <2> QED BY <1>2, <2>1, BothHosts, ServerHears DEF Receive
<1>7. CASE Rebuild
  <2>1. pc'["server"] = "wait"
    BY <1>1, <1>7, BothHosts DEF Rebuild, Goto
  <2> QED BY <1>6, <1>7, <2>1, AllCame
<1>8. ASSUME ClientTelling' PROVE pc'["server"] \notin {"wait", "sleep"}
  BY <1>8 DEF ClientTelling
<1>9. CASE Edit
  BY <1>6, <1>8, <1>9, EditStays
<1>10. CASE Walk("client")
  BY <1>6, <1>8, <1>10, ClientWalks
<1>11. CASE Receive("server")
  BY <1>6, <1>8, <1>11, ServerHears
<1> QED BY <1>2, <1>3, <1>4, <1>5, <1>7, <1>9, <1>10, <1>11, BothHosts
        DEF Next, ServerLoop

(* Every step keeps the invariant.                                         *)
LEMMA SurvivesStep ==
  ClientOnly /\ TypeOK /\ ProtoInv /\ Survives /\ [Next]_vars => Survives'
<1> SUFFICES ASSUME ClientOnly, TypeOK, ProtoInv, Survives, [Next]_vars PROVE Survives'
  OBVIOUS
<1>1. CASE UNCHANGED vars
  <2>1. UNCHANGED << disk, tree, new, stale, todo, chan, mode, pc >>
    BY <1>1 DEF vars
  <2>2. ~Down' /\ NothingNew' /\ (Known => Known')
    BY <2>1 DEF Survives, Down, NothingNew, Known, Has
  <2>3. KindsKept'
    BY <2>1 DEF Survives, KindsKept, DiskKinds, TreeKinds, OfKind, MessageKinds, Fitting,
                ListKinds, Created
  <2>4. ServerTelling => ServerTelling'
    BY <2>1 DEF ServerTelling, Known, Has, Labelling, Reads, About
  <2>5. ASSUME ClientTelling PROVE ClientTelling'
    <3>1. PICK o, n, f : Walking(o, n) /\ Telling(o, n, chan["server"], f)
      BY <2>5 DEF ClientTelling
    <3>2. Walking(o, n)'
      BY <2>1, <3>1 DEF Walking, Writing
    <3>3. \A p : Coming(o, n, chan["server"], f, p) => Coming(o, n, chan["server"], f, p)'
      BY <2>1 DEF Coming, Pending, About
    <3>4. Sorted("client", chan["server"], f)'
      BY <2>1, <3>1 DEF Telling, Sorted, About
    <3>5. Telling(o, n, chan["server"], f)'
      BY <2>1, <3>1, <3>3, <3>4 DEF Telling, Labelling, Reads, About, Has, Agrees
    <3> QED BY <2>1, <2>5, <3>2, <3>5 DEF ClientTelling
  <2> QED BY <2>1, <2>2, <2>3, <2>4, <2>5 DEF Survives
<1>2. CASE Next
  <2>1. ~Down /\ KindsKept /\ NothingNew
    BY DEF Survives
  <2>2. /\ \A h \in Hosts : ~RecvUpdateFails(h)
        /\ IF pc'["server"] \in {"wait", "sleep"} THEN Known'
           ELSE ServerTelling' \/ ClientTelling'
    <3>1. CASE pc["server"] \in {"wait", "sleep"}
      BY <1>2, <2>1, <3>1, NapStep DEF Survives
    <3>2. CASE ServerTelling
      <4>1. ServerTelling' => pc'["server"] \notin {"wait", "sleep"}
        BY DEF ServerTelling, Sending
      <4>2. ClientTelling' => pc'["server"] \notin {"wait", "sleep"}
        BY DEF ClientTelling
      <4> QED BY <1>2, <2>1, <3>2, <4>1, <4>2, TellingStep
    <3>3. CASE ClientTelling
      BY <1>2, <2>1, <3>3, AnswerStep
    <3> QED BY <3>1, <3>2, <3>3 DEF Survives
  <2>3. ~Down'
    BY <1>2, <2>1, <2>2, StaysUp
  <2>4. NothingNew'
    BY <1>2, <2>1, NothingNewStep
  <2>5. KindsKept'
    <3>1. ASSUME NEW h \in Hosts, Walk(h) PROVE KindsKept'
      <4>1. ~BrokenPipe(h)
        BY <2>1, TwoHosts DEF BrokenPipe, Down
      <4> QED BY <2>1, <3>1, <4>1, KindsWalk
    <3>2. ASSUME NEW h \in Hosts, Receive(h) PROVE KindsKept'
      BY <2>1, <3>2, KindsReceive
    <3>3. CASE ServerLoop \/ Edit
      BY <2>1, <3>3, KindsRest
    <3>4. ~Over
      BY <2>1, BothHosts DEF Over, Down
    <3> QED BY <1>2, <3>1, <3>2, <3>3, <3>4 DEF Next
  <2> QED BY <2>2, <2>3, <2>4, <2>5 DEF Survives
<1> QED BY <1>1, <1>2

-----------------------------------------------------------------------------
(* The server thread outlives every client: whatever the client's user     *)
(* does at any moment, also in the middle of a walk, and however often the *)
(* clock hides it, syncReceiveFile never fails to open the file it is told *)
(* of, for any paths, contents and socket sizes, if only clients edit and  *)
(* no name changes between a file's and a folder's.                        *)
THEOREM ServerOutlives == ClientOnly => (Spec => []ServerSurvives)
<1> SUFFICES ASSUME ClientOnly PROVE Spec => []ServerSurvives
  OBVIOUS
<1>1. Init => Survives
  BY SurvivesInit
<1>2. TypeOK /\ ProtoInv /\ Survives /\ [Next]_vars => Survives'
  BY SurvivesStep
<1>3. Survives => ServerSurvives
  BY BothHosts DEF Survives, Down, ServerSurvives
<1>4. Spec => []TypeOK
  BY TypeCorrect
<1>5. Spec => []ProtoInv
  BY TurnsHold
<1> QED BY <1>1, <1>2, <1>3, <1>4, <1>5, PTL DEF Spec
=============================================================================
