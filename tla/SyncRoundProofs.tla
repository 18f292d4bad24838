-------------------------- MODULE SyncRoundProofs --------------------------
(***************************************************************************)
(* Proofs about SyncRound, for any paths, contents, socket sizes and       *)
(* users' edits: every variable keeps its type, the parsers stay in step   *)
(* with the writers, and one side writes at a time.                        *)
(***************************************************************************)
EXTENDS SyncRound, SequenceTheorems, TLAPS

-----------------------------------------------------------------------------
(* Types.                                                                  *)

(* Every node has a kind.                                                  *)
LEMMA KindKinded == ASSUME NEW n \in Node PROVE Kind(n) \in Kinded
  BY DEF Node, Kind, Kinded

(* What has the kind of a file holds the content of one.                   *)
LEMMA FileKind == ASSUME NEW n \in Node, Kind(n) = "file" PROVE n \in FileData
  BY DEF Node, Kind

(* buildTree makes a tree of kinds.                                        *)
LEMMA TreeOfKinded ==
  ASSUME NEW dk \in [Paths -> Node] PROVE TreeOf(dk) \in [Paths -> Kinded]
<1>1. ASSUME NEW p \in Paths PROVE Kind(dk[p]) \in Kinded
  BY KindKinded
<1>2. "none" \in Kinded
  BY DEF Kinded
<1>3. QED
  BY <1>1, <1>2 DEF TreeOf

(* A record of the two hosts is a function on them.                        *)
LEMMA HostRecord ==
  ASSUME NEW S, NEW s \in S, NEW c \in S
  PROVE  [server |-> s, client |-> c] \in [Hosts -> S]
  BY DEF Hosts

(* The programs start with every variable in its type.                     *)
LEMMA InitTypeOK == Init => TypeOK
<1> SUFFICES ASSUME Init PROVE TypeOK
  OBVIOUS
<1>1. PICK dk \in [Paths -> {"none", "dir"} \cup Data] :
        /\ disk = [server |-> [p \in Paths |-> IF p = << LogName >> THEN "log"
                                                                   ELSE dk[p]],
                   client |-> dk]
        /\ \E had \in SUBSET {p \in Paths : dk[p] # "none"} :
             tree = [server |-> TreeOf(dk),
                     client |-> [p \in Paths |-> IF p \in had THEN Kind(dk[p])
                                                              ELSE "none"]]
  BY DEF Init
<1>2. dk \in [Paths -> Node]
  BY DEF Node, FileData
<1>3. disk \in [Hosts -> [Paths -> Node]]
  <2>1. [p \in Paths |-> IF p = << LogName >> THEN "log" ELSE dk[p]]
          \in [Paths -> Node]
    BY <1>2 DEF Node, FileData
  <2>2. QED
    BY <1>1, <1>2, <2>1 DEF Hosts
<1>4. tree \in [Hosts -> [Paths -> Kinded]]
  <2>1. PICK had \in SUBSET {p \in Paths : dk[p] # "none"} :
          tree = [server |-> TreeOf(dk),
                  client |-> [p \in Paths |-> IF p \in had THEN Kind(dk[p])
                                                           ELSE "none"]]
    BY <1>1
  <2>2. ASSUME NEW p \in Paths PROVE Kind(dk[p]) \in Kinded
    BY <1>2, KindKinded
  <2>3. "none" \in Kinded
    BY DEF Kinded
  <2>4. [p \in Paths |-> IF p \in had THEN Kind(dk[p]) ELSE "none"]
          \in [Paths -> Kinded]
    BY <2>2, <2>3
  <2>5. QED
    BY <2>1, <2>4, <1>2, TreeOfKinded DEF Hosts
<1>5. new \in [Hosts -> [Paths -> Kinded]]
  BY DEF Init, NoTree, Kinded
<1>6. chan \in [Hosts -> Seq(Message)]
  <2>1. Token("DONE_CONTROL") \in Message
    BY DEF Token, Message, Tokens
  <2>2. << Token("DONE_CONTROL") >> \in Seq(Message) /\ << >> \in Seq(Message)
    BY <2>1
  <2>3. QED
    BY <2>2, HostRecord DEF Init
<1>7. /\ stale \in [Hosts -> SUBSET Paths] /\ todo \in [Hosts -> SUBSET Paths]
      /\ mode \in [Hosts -> {"top", "delete", "create", "jammed"}]
      /\ pc \in [Hosts -> Labels]
      /\ edits \in Nat
  BY DEF Init, Hosts, Labels, Sending
<1>8. QED
  BY <1>3, <1>4, <1>5, <1>6, <1>7 DEF TypeOK

-----------------------------------------------------------------------------
(* A message sent is one more message at the other host.                   *)
LEMMA SendTyped ==
  ASSUME TypeOK, NEW h \in Hosts, NEW m \in Message, Send(h, m)
  PROVE  chan' \in [Hosts -> Seq(Message)]
<1>1. Peer(h) \in Hosts
  BY DEF Peer, Hosts
<1>2. Append(chan[Peer(h)], m) \in Seq(Message)
  BY <1>1 DEF TypeOK
<1>3. QED
  BY <1>1, <1>2 DEF TypeOK, Send

(* A message consumed is a message, and leaves a channel of messages.      *)
LEMMA ConsumeTyped ==
  ASSUME TypeOK, NEW h \in Hosts, chan[h] # << >>
  PROVE  Msg(h) \in Message /\ (Consume(h) => chan' \in [Hosts -> Seq(Message)])
<1>1. chan[h] \in Seq(Message)
  BY DEF TypeOK
<1>2. Head(chan[h]) \in Message /\ Tail(chan[h]) \in Seq(Message)
  BY <1>1, HeadTailProperties
<1>3. QED
  BY <1>2 DEF TypeOK, Msg, Consume

(* Messages are made of their parts.                                       *)
LEMMA MessageTyped ==
  /\ \A t \in Tokens : Token(t) \in Message
  /\ \A p \in Paths, c \in FileData : FileMsg(p, c) \in Message
  /\ \A p \in Paths : FolderMsg(p) \in Message /\ PathMsg(p) \in Message
  BY DEF Message, Token, FileMsg, FolderMsg, PathMsg, NodeTypes, FileData

(* What the messages about nodes hold.                                     *)
LEMMA MessageParts ==
  ASSUME NEW m \in Message
  PROVE  /\ m.t \in Tokens \cup NodeTypes
         /\ m.c \in FileData
         /\ m.t \in NodeTypes => m.p \in Paths
  BY DEF Message, Tokens, NodeTypes, FileData

(* Changes of a directory leave a directory.                               *)
LEMMA ChangedDirectory ==
  ASSUME NEW dk \in [Paths -> Node], NEW p \in Paths
  PROVE  /\ RemoveTree(dk, p) \in [Paths -> Node]
         /\ MakeFolder(dk, p) \in [Paths -> Node]
         /\ \A c \in FileData : MakeFile(dk, p, c) \in [Paths -> Node]
         /\ UserFile(dk, p) \subseteq [Paths -> Node]
         /\ UserFolder(dk, p) \subseteq [Paths -> Node]
         /\ UserDelete(dk, p) \subseteq [Paths -> Node]
<1>1. RemoveTree(dk, p) \in [Paths -> Node]
  BY DEF RemoveTree, Node
<1>2. MakeFolder(dk, p) \in [Paths -> Node] /\ UserFolder(dk, p) \subseteq [Paths -> Node]
  BY DEF MakeFolder, UserFolder, Node
<1>3. \A c \in FileData : MakeFile(dk, p, c) \in [Paths -> Node]
  BY DEF MakeFile, Node
<1>4. UserFile(dk, p) \subseteq [Paths -> Node]
  BY DEF UserFile, Node, FileData
<1>5. UserDelete(dk, p) \subseteq [Paths -> Node]
  BY <1>1 DEF UserDelete
<1>6. QED
  BY <1>1, <1>2, <1>3, <1>4, <1>5

(* A step of a walk keeps the types.                                       *)
LEMMA WalkTypeOK ==
  ASSUME TypeOK, NEW h \in Hosts, Walk(h) PROVE TypeOK'
<1> USE DEF TypeOK, Goto, Labels, Sending
<1>1. ASSUME NEW p \in Paths, Record(h, p)
      PROVE  /\ new' \in [Hosts -> [Paths -> Kinded]]
             /\ stale' \in [Hosts -> SUBSET Paths]
             /\ todo' \in [Hosts -> SUBSET Paths]
  BY <1>1, KindKinded DEF Record, Walked
<1>2. ASSUME NEW p \in Paths, Visit(h, p) PROVE TypeOK'
  BY <1>1, <1>2 DEF Visit
<1>3. ASSUME NEW p \in Paths, SendUpdate(h, p) PROVE TypeOK'
  <2>1. disk[h][p] \in FileData
    BY <1>3, FileKind DEF SendUpdate, Changed
  <2>2. chan' \in [Hosts -> Seq(Message)]
    BY <1>3, <2>1, MessageTyped, SendTyped DEF SendUpdate
  <2>3. QED
    BY <1>1, <1>3, <2>2 DEF SendUpdate
<1>4. ASSUME NEW p \in Paths, Miss(h, p) PROVE TypeOK'
  BY <1>4 DEF Miss, Walked
<1>5. ASSUME NEW p \in Paths, SendDelete(h, p) PROVE TypeOK'
  BY <1>5, MessageTyped, SendTyped DEF SendDelete, Walked
<1>6. ASSUME NEW p \in Paths, SendCreate(h, p) PROVE TypeOK'
  <2>1. ContentNow(h, p) \in FileData
    BY DEF ContentNow, FileData
  <2>2. chan' \in [Hosts -> Seq(Message)]
    BY <1>6, <2>1, MessageTyped, SendTyped DEF SendCreate
  <2>3. QED
    BY <1>6, <2>2 DEF SendCreate, Walked
<1>7. ASSUME NEW t \in Tokens, Send(h, Token(t))
      PROVE  chan' \in [Hosts -> Seq(Message)]
  BY <1>7, MessageTyped, SendTyped
<1>8. CASE UpdatesDone(h)
  BY <1>7, <1>8 DEF UpdatesDone, Tokens
<1>9. CASE StartDeletes(h)
  BY <1>7, <1>9 DEF StartDeletes, Tokens, Deleted
<1>10. CASE DeletesDone(h)
  BY <1>7, <1>10 DEF DeletesDone, Tokens
<1>11. CASE StartCreates(h)
  BY <1>7, <1>11 DEF StartCreates, Tokens, Created
<1>12. CASE CreatesDone(h)
  BY <1>7, <1>12 DEF CreatesDone, Tokens, NoTree, Kinded
<1>13. CASE Finish(h)
  BY <1>7, <1>13 DEF Finish, Tokens
<1>14. CASE AskAgain(h)
  BY <1>7, <1>14 DEF AskAgain, Tokens
<1>15. CASE BrokenPipe(h)
  BY <1>15 DEF BrokenPipe
<1>16. QED
  BY <1>2, <1>3, <1>4, <1>5, <1>6, <1>8, <1>9, <1>10, <1>11, <1>12, <1>13,
     <1>14, <1>15 DEF Walk

(* A step of a receiver keeps the types.                                   *)
LEMMA ReceiveTypeOK ==
  ASSUME TypeOK, NEW h \in Hosts, Receive(h) PROVE TypeOK'
<1> USE DEF TypeOK, Goto, Labels, Sending
<1>1. ASSUME Incoming(h), Consume(h)
      PROVE  /\ chan' \in [Hosts -> Seq(Message)]
             /\ Msg(h).t \in Tokens \cup NodeTypes
             /\ Msg(h).c \in FileData
             /\ Msg(h).t \in NodeTypes => Msg(h).p \in Paths
  BY <1>1, ConsumeTyped, MessageParts DEF Incoming
<1>2. ASSUME AfterReceive(h)
      PROVE  pc' \in [Hosts -> Labels] /\ todo' \in [Hosts -> SUBSET Paths]
  BY <1>2 DEF AfterReceive
<1>3. CASE RecvUpdate(h)
  <2>1. Msg(h).p \in Paths /\ UpdateText(Msg(h).c) \in FileData
    BY <1>1, <1>3 DEF RecvUpdate, TopCase, NodeTypes, UpdateText, FileData
  <2>2. UpdateText(Msg(h).c) \in Node
    BY <2>1 DEF Node
  <2>3. QED
    BY <1>1, <1>3, <2>1, <2>2 DEF RecvUpdate, TopCase
<1>4. CASE RecvUpdateFails(h)
  BY <1>1, <1>4 DEF RecvUpdateFails, TopCase
<1>5. CASE RecvToken(h)
  BY <1>1, <1>5 DEF RecvToken, TopMode
<1>6. CASE RecvDelete(h)
  <2>1. disk[h] \in [Paths -> Node]
    OBVIOUS
  <2>2. (IF Msg(h).p \in Paths THEN RemoveTree(disk[h], Msg(h).p) ELSE disk[h])
          \in [Paths -> Node]
    BY <2>1, ChangedDirectory
  <2>3. disk' = [disk EXCEPT ![h] = IF Msg(h).p \in Paths
                                    THEN RemoveTree(disk[h], Msg(h).p)
                                    ELSE disk[h]]
    BY <1>6 DEF RecvDelete
  <2>4. disk' \in [Hosts -> [Paths -> Node]]
    BY <2>2, <2>3
  <2>5. /\ Incoming(h) /\ Consume(h)
        /\ UNCHANGED << tree, new, stale, todo, mode, pc, edits >>
    BY <1>6 DEF RecvDelete
  <2>6. QED
    BY <1>1, <2>4, <2>5
<1>7. CASE RecvCreate(h)
  <2>1. Incoming(h) /\ Consume(h)
    BY <1>7 DEF RecvCreate
  <2> DEFINE p == Msg(h).p
             dk == disk[h]
             dk2 == CASE Msg(h).t = "SYNC_FOLDER" -> MakeFolder(dk, p)
                      [] Msg(h).t = "SYNC_FILE" -> MakeFile(dk, p, Msg(h).c)
                      [] OTHER -> dk
             st2 == IF Msg(h).t = "SYNC_FILE" /\ CanWrite(dk, p)
                    THEN stale[h] \cup {p} ELSE stale[h]
  <2>2. dk2 \in [Paths -> Node]
    BY <1>1, <2>1, ChangedDirectory DEF NodeTypes
  <2>3. st2 \in SUBSET Paths
    BY <1>1, <2>1 DEF NodeTypes
  <2>4. disk' = [disk EXCEPT ![h] = dk2] /\ stale' = [stale EXCEPT ![h] = st2]
    BY <1>7 DEF RecvCreate
  <2> HIDE DEF dk2, st2
  <2>5. QED
    BY <1>1, <1>7, <2>1, <2>2, <2>3, <2>4 DEF RecvCreate
<1>8. CASE RecvListEnd(h)
  BY <1>1, <1>8 DEF RecvListEnd
<1>9. CASE RecvDone(h)
  BY <1>1, <1>2, <1>9 DEF RecvDone, TopCase
<1>10. CASE RecvEOF(h)
  BY <1>2, <1>10 DEF RecvEOF
<1>11. QED
  BY <1>3, <1>4, <1>5, <1>6, <1>7, <1>8, <1>9, <1>10 DEF Receive

(* A step of handleRequest's loop keeps the types.                         *)
LEMMA ServerLoopTypeOK == ASSUME TypeOK, ServerLoop PROVE TypeOK'
<1> USE DEF TypeOK, Goto, Labels, Sending
<1>1. "server" \in Hosts
  BY DEF Hosts
<1>2. CASE Rebuild
  BY <1>1, <1>2, TreeOfKinded DEF Rebuild
<1>3. CASE HandleRequest
  BY <1>1, <1>3, ConsumeTyped DEF HandleRequest
<1>4. CASE SpinAtEOF
  BY <1>1, <1>4 DEF SpinAtEOF
<1>5. CASE Wake
  BY <1>1, <1>5 DEF Wake
<1>6. QED
  BY <1>2, <1>3, <1>4, <1>5 DEF ServerLoop

(* A user's edit keeps the types.                                          *)
LEMMA EditTypeOK == ASSUME TypeOK, Edit PROVE TypeOK'
<1> SUFFICES ASSUME NEW h \in Hosts, NEW p \in Paths,
                    EditFile(h, p) \/ EditFolder(h, p) \/ EditDelete(h, p)
             PROVE  TypeOK'
  BY DEF Edit
<1>1. disk' \in [Hosts -> [Paths -> Node]]
  <2>1. PICK dk \in UserFile(disk[h], p) \cup UserFolder(disk[h], p)
                       \cup UserDelete(disk[h], p) :
          disk' = [disk EXCEPT ![h] = dk]
    BY DEF EditFile, EditFolder, EditDelete
  <2>2. disk[h] \in [Paths -> Node]
    BY DEF TypeOK
  <2>3. dk \in [Paths -> Node]
    BY <2>2, ChangedDirectory
  <2>4. QED
    BY <2>1, <2>3 DEF TypeOK
<1>2. stale' \in [Hosts -> SUBSET Paths]
  BY DEF TypeOK, EditFile, EditFolder, EditDelete, Touch
<1>3. QED
  BY <1>1, <1>2 DEF TypeOK, EditFile, EditFolder, EditDelete

(* No step of the system takes a variable out of its type.                 *)
LEMMA NextTypeOK == TypeOK /\ [Next]_vars => TypeOK'
<1> SUFFICES ASSUME TypeOK, [Next]_vars PROVE TypeOK'
  OBVIOUS
<1>1. CASE UNCHANGED vars
  BY <1>1 DEF vars, TypeOK
<1>2. CASE Over
  BY <1>2 DEF Over, vars, TypeOK
<1>3. QED
  BY <1>1, <1>2, WalkTypeOK, ReceiveTypeOK, ServerLoopTypeOK, EditTypeOK DEF Next

(* Every variable keeps its type, whatever users do and however the two    *)
(* programs are interleaved.                                               *)
THEOREM TypeCorrect == Spec => []TypeOK
  BY InitTypeOK, NextTypeOK, PTL DEF Spec

-----------------------------------------------------------------------------
(* The protocol.                                                           *)
(*                                                                         *)
(* A turn of a host is a script of eight stages: its updates (0), the end  *)
(* of its updates (1), its deletions (2), their end (3), its creations     *)
(* (4), their end (5), {DONE_CONTROL} sent (6), and the client's second    *)
(* {DONE_CONTROL} sent (7). The reader is at one stage, the writer at the  *)
(* same or a later one, and the messages between them take the reader from *)
(* its stage to the writer's.                                              *)

(* A message of type t takes the script from stage a to stage b.           *)
Says(a, t, b) ==
  \/ a = 0 /\ b = 0 /\ t = "SYNC_FILE"
  \/ a = 0 /\ b = 1 /\ t = "SYNC_UPDATE_DONE"
  \/ a = 1 /\ b = 2 /\ t = "SYNC_DELETE"
  \/ a = 2 /\ b = 2 /\ t = "PATH"
  \/ a = 2 /\ b = 3 /\ t = "SYNC_DELETE_DONE"
  \/ a = 3 /\ b = 4 /\ t = "SYNC_CREATE"
  \/ a = 4 /\ b = 4 /\ t \in {"SYNC_FILE", "SYNC_FOLDER"}
  \/ a = 4 /\ b = 5 /\ t = "SYNC_CREATE_DONE"
  \/ a = 5 /\ b = 6 /\ t = "DONE_CONTROL"
  \/ a = 6 /\ b = 7 /\ t = "DONE_CONTROL"

(* f gives the stage before each of the messages s and after the last.     *)
Labelling(f, s) ==
  /\ f \in [1 .. Len(s) + 1 -> 0 .. 7]
  /\ \A i \in 1 .. Len(s) : Says(f[i], s[i].t, f[i + 1])
  /\ \A i, j \in 1 .. Len(s) + 1 : i <= j => f[i] <= f[j]

(* The messages s take the script from stage a to stage b.                 *)
Script(s, a, b) ==
  \E f \in [1 .. Len(s) + 1 -> 0 .. 7] :
    Labelling(f, s) /\ f[1] = a /\ f[Len(s) + 1] = b

(* The stage of a host that writes, or has written, its turn.              *)
Stage(h, l) ==
  CASE l = "scan" -> 0
    [] l = "startDelete" -> 1
    [] l = "delete" -> 2
    [] l = "startCreate" -> 3
    [] l = "create" -> 4
    [] l = "finish" -> 5
    [] l = "again" -> 6
    [] l = "recv" /\ h = "server" -> 6
    [] OTHER -> 7

(* A host at label l, in receive loop m, reads its peer's turn at stage a. *)
ModeAt(a) == IF a = 2 THEN "delete" ELSE IF a = 4 THEN "create" ELSE "top"
ReadsAt(h, l, m, a) ==
  \/ l = "recv" /\ a \in 0 .. 5 /\ m = ModeAt(a)
  \/ h = "server" /\ l \in {"rebuild", "wait"} /\ a = 6 /\ m = "top"
  \/ h = "server" /\ l = "sleep" /\ a = 7 /\ m = "top"
Reads(h, a) == ReadsAt(h, pc[h], mode[h], a)

Quiet(h) == chan[h] = << >> /\ mode[h] = "top"

(* It is w's turn to write, and its peer's to read.                        *)
Turn(w) ==
  /\ pc[w] \in Sending \cup {"recv"}
  /\ Quiet(w)
  /\ \E a \in 0 .. 7 : /\ Reads(Peer(w), a)
                       /\ Script(chan[Peer(w)], a, Stage(w, pc[w]))

(* h goes on after its peer has exited, perhaps in the middle of a turn;   *)
(* the server only ever wrote the client one {DONE_CONTROL} for it.        *)
Gone(h) ==
  /\ pc[h] \in Sending \cup {"sleep"} => Quiet(h)
  /\ pc[h] \in {"recv", "rebuild", "wait"} =>
       \E a, b \in 0 .. 7 : /\ Reads(h, a) /\ Script(chan[h], a, b)
                            /\ h = "client" => b <= 6

ProtoInv ==
  /\ pc["server"] # "again"
  /\ ~Down => \E w \in Hosts : Turn(w)
  /\ \A h \in Hosts : pc[Peer(h)] = "exited" => Gone(h)

-----------------------------------------------------------------------------
(* Nothing in between: reader and writer are at the same stage.            *)
LEMMA EmptyScript ==
  /\ \A a \in 0 .. 7 : Script(<< >>, a, a)
  /\ \A a, b : Script(<< >>, a, b) => a = b
<1>1. ASSUME NEW a \in 0 .. 7 PROVE Script(<< >>, a, a)
  <2> DEFINE f == [i \in 1 .. 1 |-> a]
  <2>1. Labelling(f, << >>) /\ f[1] = a /\ f \in [1 .. Len(<< >>) + 1 -> 0 .. 7]
    BY DEF Labelling
  <2>2. QED
    BY <2>1 DEF Script
<1>2. ASSUME NEW a, NEW b, Script(<< >>, a, b) PROVE a = b
  BY <1>2 DEF Script
<1>3. QED
  BY <1>1, <1>2

(* The reader is never ahead of the writer, and with nothing left to say   *)
(* at its stage there is nothing in between.                               *)
LEMMA ScriptOrder ==
  ASSUME NEW s \in Seq(Message), NEW a, NEW b, Script(s, a, b)
  PROVE  /\ a \in 0 .. 7 /\ b \in 0 .. 7 /\ a <= b
         /\ a = 7 => s = << >>
         /\ a = 6 /\ b = 6 => s = << >>
<1>1. PICK f \in [1 .. Len(s) + 1 -> 0 .. 7] :
        Labelling(f, s) /\ f[1] = a /\ f[Len(s) + 1] = b
  BY DEF Script
<1>2. Len(s) \in Nat
  OBVIOUS
<1>3. a \in 0 .. 7 /\ b \in 0 .. 7 /\ a <= b
  BY <1>1, <1>2 DEF Labelling
<1>4. ASSUME s # << >>
      PROVE  Says(a, s[1].t, f[2]) /\ f[2] <= b /\ a <= f[2] /\ f[2] \in 0 .. 7
  BY <1>1, <1>2, <1>4 DEF Labelling
<1>5. ASSUME s # << >>, a \in {6, 7} PROVE a = 6 /\ b = 7
  BY <1>3, <1>4, <1>5 DEF Says
<1>6. QED
  BY <1>3, <1>5

(* The writer says something.                                              *)
LEMMA ScriptAppend ==
  ASSUME NEW s \in Seq(Message), NEW a, NEW b, Script(s, a, b),
         NEW m \in Message, NEW c \in 0 .. 7, Says(b, m.t, c)
  PROVE  Script(Append(s, m), a, c)
<1>1. PICK f \in [1 .. Len(s) + 1 -> 0 .. 7] :
        Labelling(f, s) /\ f[1] = a /\ f[Len(s) + 1] = b
  BY DEF Script
<1> DEFINE g == [i \in 1 .. Len(s) + 2 |-> IF i = Len(s) + 2 THEN c ELSE f[i]]
           s2 == Append(s, m)
<1>2. Len(s) \in Nat /\ Len(s2) = Len(s) + 1
  BY AppendProperties
<1>3. g \in [1 .. Len(s2) + 1 -> 0 .. 7]
  BY <1>1, <1>2
<1>4. b \in 0 .. 7 /\ b <= c
  BY <1>1, <1>2 DEF Says
<1>5. ASSUME NEW i \in 1 .. Len(s2) PROVE Says(g[i], s2[i].t, g[i + 1])
  <2>1. CASE i = Len(s) + 1
    <3>1. s2[i] = m /\ g[i] = b /\ g[i + 1] = c
      BY <1>1, <1>2, <2>1, AppendProperties
    <3>2. QED
      BY <3>1
  <2>2. CASE i \in 1 .. Len(s)
    <3>1. s2[i] = s[i] /\ g[i] = f[i] /\ g[i + 1] = f[i + 1]
      BY <1>2, <2>2, AppendProperties
    <3>2. QED
      BY <1>1, <2>2, <3>1 DEF Labelling
  <2>3. QED
    BY <1>2, <2>1, <2>2
<1>6. ASSUME NEW i \in 1 .. Len(s2) + 1, NEW j \in 1 .. Len(s2) + 1, i <= j
      PROVE  g[i] <= g[j]
  <2>1. \A k \in 1 .. Len(s) + 1 : f[k] <= b /\ f[k] \in 0 .. 7
    BY <1>1, <1>2 DEF Labelling
  <2>2. CASE j \in 1 .. Len(s) + 1
    <3>1. i \in 1 .. Len(s) + 1 /\ g[i] = f[i] /\ g[j] = f[j]
      BY <1>2, <1>6, <2>2
    <3>2. QED
      BY <1>1, <1>6, <2>2, <3>1 DEF Labelling
  <2>3. CASE j = Len(s) + 2
    <3>1. g[j] = c
      BY <1>2, <2>3
    <3>2. g[i] = c \/ (g[i] \in 0 .. 7 /\ g[i] <= b)
      BY <1>2, <1>6, <2>1
    <3>3. QED
      BY <1>4, <3>1, <3>2
  <2>4. QED
    BY <1>2, <2>2, <2>3
<1>7. g[1] = a /\ g[Len(s2) + 1] = c
  BY <1>1, <1>2
<1> HIDE DEF g, s2
<1>8. Labelling(g, s2)
  BY <1>3, <1>5, <1>6 DEF Labelling
<1>9. Script(s2, a, c)
  BY <1>3, <1>7, <1>8 DEF Script
<1>10. QED
  BY <1>9 DEF s2

(* The reader takes the first message.                                     *)
LEMMA ScriptTail ==
  ASSUME NEW s \in Seq(Message), s # << >>, NEW a, NEW b, Script(s, a, b)
  PROVE  \E c \in 0 .. 7 : Says(a, Head(s).t, c) /\ Script(Tail(s), c, b)
<1>1. PICK f \in [1 .. Len(s) + 1 -> 0 .. 7] :
        Labelling(f, s) /\ f[1] = a /\ f[Len(s) + 1] = b
  BY DEF Script
<1> DEFINE g == [i \in 1 .. Len(s) |-> f[i + 1]]
           s2 == Tail(s)
<1>2. /\ Len(s) \in Nat \ {0} /\ s2 \in Seq(Message) /\ Len(s2) = Len(s) - 1
      /\ Head(s) = s[1]
      /\ \A i \in 1 .. Len(s2) : s2[i] = s[i + 1]
  BY HeadTailProperties
<1>3. g \in [1 .. Len(s2) + 1 -> 0 .. 7]
  BY <1>1, <1>2
<1>4. \A i \in 1 .. Len(s2) : Says(g[i], s2[i].t, g[i + 1])
  BY <1>1, <1>2 DEF Labelling
<1>5. \A i, j \in 1 .. Len(s2) + 1 : i <= j => g[i] <= g[j]
  BY <1>1, <1>2 DEF Labelling
<1>6. g[1] = f[2] /\ g[Len(s2) + 1] = b /\ f[2] \in 0 .. 7
  BY <1>1, <1>2
<1>7. Says(a, Head(s).t, f[2])
  BY <1>1, <1>2 DEF Labelling
<1> HIDE DEF g, s2
<1>8. Labelling(g, s2)
  BY <1>3, <1>4, <1>5 DEF Labelling
<1>9. Script(s2, f[2], b)
  BY <1>3, <1>6, <1>8 DEF Script
<1>10. QED
  BY <1>6, <1>7, <1>9 DEF s2

-----------------------------------------------------------------------------
(* There are two hosts.                                                    *)
LEMMA TwoHosts ==
  ASSUME NEW h \in Hosts
  PROVE  /\ Peer(h) \in Hosts /\ Peer(h) # h /\ Peer(Peer(h)) = h
         /\ \A w \in Hosts : w = h \/ w = Peer(h)
  BY DEF Hosts, Peer

(* Every label stands for a stage.                                         *)
LEMMA StageTyped == \A h, l : Stage(h, l) \in 0 .. 7
  BY DEF Stage

(* The programs start at the end of the client's turn.                     *)
LEMMA InitProto == Init => ProtoInv
<1> SUFFICES ASSUME Init PROVE ProtoInv
  OBVIOUS
<1>1. pc["server"] # "again" /\ \A h \in Hosts : pc[h] # "exited"
  BY DEF Init, Hosts
<1>2. Script(chan["server"], 6, 7)
  <2>1. Script(<< >>, 6, 6)
    BY EmptyScript
  <2>2. Token("DONE_CONTROL") \in Message
    BY MessageTyped DEF Tokens
  <2>3. Says(6, Token("DONE_CONTROL").t, 7)
    BY DEF Says, Token
  <2>4. << >> \in Seq(Message)
    OBVIOUS
  <2>5. Script(Append(<< >>, Token("DONE_CONTROL")), 6, 7)
    <3>1. 7 \in 0 .. 7
      OBVIOUS
    <3>2. QED
      BY <2>1, <2>2, <2>3, <2>4, <3>1, ScriptAppend, Zenon
  <2>6. chan["server"] = Append(<< >>, Token("DONE_CONTROL"))
    BY DEF Init
  <2>7. QED
    BY <2>5, <2>6
<1>3. Turn("client")
  <2>1. Quiet("client") /\ pc["client"] = "recv" /\ Stage("client", "recv") = 7
    BY DEF Init, Quiet, Hosts, Stage
  <2>2. Peer("client") = "server" /\ Reads("server", 6)
    BY DEF Init, Peer, Reads, ReadsAt, Hosts
  <2>3. QED
    BY <1>2, <2>1, <2>2 DEF Turn
<1>4. QED
  BY <1>1, <1>3, TwoHosts DEF ProtoInv, Down, Hosts

(* A host that says the next thing of its turn keeps the invariant.        *)
LEMMA WriterStep ==
  ASSUME TypeOK, ProtoInv, NEW h \in Hosts, NEW m \in Message,
         pc[h] \in Sending, Send(h, m), mode' = mode,
         NEW l \in Sending \cup {"recv"}, pc' = [pc EXCEPT ![h] = l],
         l = "again" => h = "client",
         Says(Stage(h, pc[h]), m.t, Stage(h, l))
  PROVE  ProtoInv'
<1> DEFINE w == Peer(h)
<1>1. w \in Hosts /\ w # h /\ Peer(w) = h /\ \A k \in Hosts : k = h \/ k = w
  BY TwoHosts
<1>2. /\ pc'[h] = l /\ pc'[w] = pc[w] /\ mode'[h] = mode[h] /\ mode'[w] = mode[w]
      /\ chan'[h] = chan[h] /\ chan'[w] = Append(chan[w], m)
      /\ chan[w] \in Seq(Message)
  BY <1>1 DEF TypeOK, Send
<1>3. l # "exited" /\ pc[h] # "exited"
  BY DEF Sending
<1>4. ~Turn(w)
  BY <1>1 DEF Turn, Reads, ReadsAt, Sending
<1>5. ASSUME Turn(h) PROVE Turn(h)'
  <2>1. PICK a \in 0 .. 7 : Reads(w, a) /\ Script(chan[w], a, Stage(h, pc[h]))
    BY <1>5 DEF Turn
  <2>2. Script(chan'[w], a, Stage(h, l))
    BY <1>2, <2>1, ScriptAppend, StageTyped
  <2>3. Quiet(h)' /\ Reads(w, a)'
    BY <1>2, <1>5, <2>1 DEF Turn, Quiet, Reads
  <2>4. QED
    BY <1>2, <2>2, <2>3 DEF Turn
<1>6. ASSUME pc[w] = "exited" PROVE Gone(h)'
  <2>1. Quiet(h) /\ Quiet(h)'
    BY <1>1, <1>2, <1>6 DEF ProtoInv, Gone, Quiet
  <2>2. CASE l = "recv"
    <3>1. Reads(h, 0)' /\ Script(chan'[h], 0, 0)
      BY <1>2, <2>1, <2>2, EmptyScript DEF Reads, ReadsAt, ModeAt, Quiet
    <3>2. QED
      BY <1>2, <2>1, <2>2, <3>1 DEF Gone
  <2>3. CASE l \in Sending
    BY <1>2, <2>1, <2>3 DEF Gone, Sending
  <2>4. QED
    BY <2>2, <2>3
<1>7. pc'["server"] # "again"
  BY <1>1, <1>2 DEF ProtoInv, Hosts
<1>8. ASSUME ~Down' PROVE Turn(h)'
  BY <1>1, <1>2, <1>3, <1>4, <1>5, <1>8 DEF ProtoInv, Down
<1>9. \A k \in Hosts : pc'[Peer(k)] = "exited" => Gone(k)'
  BY <1>1, <1>2, <1>3, <1>6
<1>10. QED
  BY <1>7, <1>8, <1>9 DEF ProtoInv

-----------------------------------------------------------------------------
(* A host that takes the next thing of its peer's turn, and goes on to     *)
(* label l and loop md as that thing says, keeps the invariant.            *)
LEMMA ReaderStep ==
  ASSUME TypeOK, ProtoInv, NEW h \in Hosts,
         pc[h] \in {"recv", "wait"}, chan[h] # << >>, Consume(h),
         NEW l \in {"recv", "rebuild", "wait", "sleep"},
         pc' = [pc EXCEPT ![h] = l],
         NEW md, mode' = [mode EXCEPT ![h] = md],
         \A a, c \in 0 .. 7 :
           Reads(h, a) /\ Says(a, Msg(h).t, c) => ReadsAt(h, l, md, c)
  PROVE  ProtoInv'
<1> DEFINE w == Peer(h)
<1>1. w \in Hosts /\ w # h /\ Peer(w) = h /\ \A k \in Hosts : k = h \/ k = w
  BY TwoHosts
<1>2. /\ pc'[h] = l /\ pc'[w] = pc[w] /\ mode'[h] = md /\ mode'[w] = mode[w]
      /\ chan'[w] = chan[w] /\ chan'[h] = Tail(chan[h])
      /\ chan[h] \in Seq(Message) /\ chan'[h] \in Seq(Message)
  BY <1>1, HeadTailProperties DEF TypeOK, Consume
<1>3. ~Turn(h)
  BY DEF Turn, Quiet
<1>4. ASSUME NEW a \in 0 .. 7, NEW b, Reads(h, a), Script(chan[h], a, b)
      PROVE  \E c \in 0 .. 7 : Reads(h, c)' /\ Script(chan'[h], c, b)
  <2>1. PICK c \in 0 .. 7 : Says(a, Msg(h).t, c) /\ Script(chan'[h], c, b)
    BY <1>2, <1>4, ScriptTail DEF Msg
  <2>2. ReadsAt(h, l, md, c)
    BY <1>4, <2>1
  <2>3. QED
    BY <1>2, <2>1, <2>2 DEF Reads
<1>5. ASSUME Turn(w) PROVE Turn(w)'
  <2>1. PICK a \in 0 .. 7 : Reads(h, a) /\ Script(chan[h], a, Stage(w, pc[w]))
    BY <1>1, <1>5 DEF Turn
  <2>2. PICK c \in 0 .. 7 : Reads(h, c)' /\ Script(chan'[h], c, Stage(w, pc[w]))
    BY <1>4, <2>1
  <2>3. pc'[w] \in Sending \cup {"recv"} /\ Quiet(w)'
    BY <1>2, <1>5 DEF Turn, Quiet
  <2>4. QED
    BY <1>1, <1>2, <2>2, <2>3 DEF Turn
<1>6. ASSUME pc[w] = "exited" PROVE Gone(h)'
  <2>1. PICK a \in 0 .. 7, b \in 0 .. 7 :
          Reads(h, a) /\ Script(chan[h], a, b) /\ (h = "client" => b <= 6)
    BY <1>1, <1>6 DEF ProtoInv, Gone
  <2>2. PICK c \in 0 .. 7 : Reads(h, c)' /\ Script(chan'[h], c, b)
    BY <1>4, <2>1
  <2>3. CASE l = "sleep"
    <3>1. c = 7 /\ mode'[h] = "top"
      BY <1>2, <2>2, <2>3 DEF Reads, ReadsAt
    <3>2. chan'[h] = << >>
      BY <1>2, <2>2, <3>1, ScriptOrder
    <3>3. QED
      BY <1>2, <2>3, <3>1, <3>2 DEF Gone, Quiet
  <2>4. CASE l # "sleep"
    BY <1>2, <2>1, <2>2, <2>4 DEF Gone, Sending
  <2>5. QED
    BY <2>3, <2>4
<1>7. pc'["server"] # "again"
  BY <1>1, <1>2 DEF ProtoInv, Hosts
<1>8. ASSUME ~Down' PROVE Turn(w)'
  BY <1>1, <1>2, <1>3, <1>5, <1>8 DEF ProtoInv, Down
<1>9. \A k \in Hosts : pc'[Peer(k)] = "exited" => Gone(k)'
  BY <1>1, <1>2, <1>6
<1>10. QED
  BY <1>1, <1>7, <1>8, <1>9 DEF ProtoInv

(* A host that exits, on an error or a broken pipe, keeps the invariant:   *)
(* its peer may go on, in the middle of a turn or between two.             *)
LEMMA ExitStep ==
  ASSUME TypeOK, ProtoInv, NEW h \in Hosts,
         \/ pc[h] \in Sending /\ pc[Peer(h)] = "exited"
         \/ pc[h] = "recv" /\ chan[h] # << >>,
         pc' = [pc EXCEPT ![h] = "exited"], mode' = mode,
         chan'[Peer(h)] = chan[Peer(h)]
  PROVE  ProtoInv'
<1> DEFINE w == Peer(h)
<1>1. w \in Hosts /\ w # h /\ Peer(w) = h /\ \A k \in Hosts : k = h \/ k = w
  BY TwoHosts
<1>2. /\ pc'[h] = "exited" /\ pc'[w] = pc[w] /\ mode'[w] = mode[w]
      /\ chan'[w] = chan[w]
  BY <1>1 DEF TypeOK
<1>3. Down'
  BY <1>2 DEF Down
<1>4. Gone(h)'
  BY <1>2 DEF Gone, Sending
<1>5. Gone(w)'
  <2>1. CASE pc[w] = "exited"
    BY <1>2, <2>1 DEF Gone, Sending
  <2>2. CASE pc[w] # "exited"
    <3>1. pc[h] = "recv" /\ chan[h] # << >>
      BY <2>2
    <3>2. ~Down
      BY <1>1, <2>2, <3>1 DEF Down
    <3>3. Turn(w)
      BY <1>1, <3>1, <3>2 DEF ProtoInv, Turn, Quiet
    <3>4. CASE pc[w] \in Sending
      BY <1>2, <3>3, <3>4 DEF Turn, Gone, Sending, Quiet
    <3>5. CASE pc[w] = "recv"
      <4>1. Reads(w, 0)' /\ Script(chan'[w], 0, 0)
        BY <1>2, <3>3, <3>5, EmptyScript DEF Reads, ReadsAt, ModeAt, Turn, Quiet
      <4>2. QED
        BY <1>2, <3>5, <4>1 DEF Gone, Sending
    <3>6. QED
      BY <3>3, <3>4, <3>5 DEF Turn
  <2>3. QED
    BY <2>1, <2>2
<1>6. pc'["server"] # "again"
  BY <1>1, <1>2 DEF ProtoInv, Hosts
<1>7. QED
  BY <1>1, <1>3, <1>4, <1>5, <1>6 DEF ProtoInv

(* A step that reads, writes and goes nowhere keeps the invariant.         *)
LEMMA LocalStep ==
  ASSUME ProtoInv, UNCHANGED << chan, mode, pc >> PROVE ProtoInv'
  BY DEF ProtoInv, Down, Turn, Gone, Quiet, Reads

-----------------------------------------------------------------------------
(* Every step of a walk keeps the invariant.                               *)
LEMMA WalkProto ==
  ASSUME TypeOK, ProtoInv, NEW h \in Hosts, Walk(h) PROVE ProtoInv'
<1>1. pc[h] \in Labels /\ (pc[h] = "again" => h = "client")
  BY DEF TypeOK, ProtoInv, Hosts
<1>2. ASSUME NEW m \in Message, pc[h] \in Sending, Send(h, m),
             UNCHANGED << mode, pc >>, Says(Stage(h, pc[h]), m.t, Stage(h, pc[h]))
      PROVE  ProtoInv'
  <2>1. pc' = [pc EXCEPT ![h] = pc[h]]
    BY <1>2 DEF TypeOK
  <2>2. QED
    BY <1>1, <1>2, <2>1, WriterStep
<1>3. ASSUME NEW t \in Tokens, NEW l \in Sending \cup {"recv"},
             pc[h] \in Sending, Send(h, Token(t)), Goto(h, l), mode' = mode,
             l = "again" => h = "client", Says(Stage(h, pc[h]), t, Stage(h, l))
      PROVE  ProtoInv'
  <2>1. Token(t) \in Message /\ Token(t).t = t
    BY MessageTyped DEF Token
  <2>2. QED
    BY <1>3, <2>1, WriterStep DEF Goto
<1>4. ASSUME NEW p \in Paths, Visit(h, p) \/ Miss(h, p) PROVE ProtoInv'
  BY <1>4, LocalStep DEF Visit, Miss
<1>5. ASSUME NEW p \in Paths, SendUpdate(h, p) PROVE ProtoInv'
  <2>1. disk[h][p] \in FileData
    BY <1>5, FileKind DEF SendUpdate, Changed, TypeOK
  <2>2. /\ FileMsg(p, disk[h][p]) \in Message
        /\ FileMsg(p, disk[h][p]).t = "SYNC_FILE"
    BY <2>1, MessageTyped DEF FileMsg
  <2>3. pc[h] = "scan" /\ Says(Stage(h, "scan"), "SYNC_FILE", Stage(h, "scan"))
    BY <1>5 DEF SendUpdate, Says, Stage
  <2>4. QED
    BY <1>2, <1>5, <2>2, <2>3 DEF SendUpdate, Sending
<1>6. ASSUME NEW p \in Paths, SendDelete(h, p) PROVE ProtoInv'
  <2>1. PathMsg(p) \in Message /\ PathMsg(p).t = "PATH"
    BY MessageTyped DEF PathMsg
  <2>2. pc[h] = "delete" /\ Says(Stage(h, "delete"), "PATH", Stage(h, "delete"))
    BY <1>6 DEF SendDelete, Says, Stage
  <2>3. QED
    BY <1>2, <1>6, <2>1, <2>2 DEF SendDelete, Sending
<1>7. ASSUME NEW p \in Paths, SendCreate(h, p) PROVE ProtoInv'
  <2> DEFINE m == IF new[h][p] = "dir" THEN FolderMsg(p)
                                       ELSE FileMsg(p, ContentNow(h, p))
  <2>1. ContentNow(h, p) \in FileData
    BY DEF ContentNow, FileData
  <2>2. m \in Message /\ m.t \in {"SYNC_FILE", "SYNC_FOLDER"}
    BY <2>1, MessageTyped DEF FolderMsg, FileMsg
  <2>3. pc[h] = "create" /\ Says(Stage(h, "create"), m.t, Stage(h, "create"))
    BY <1>7, <2>2 DEF SendCreate, Says, Stage
  <2>4. Send(h, m) /\ UNCHANGED << mode, pc >>
    BY <1>7 DEF SendCreate
  <2> HIDE DEF m
  <2>5. QED
    BY <1>2, <2>2, <2>3, <2>4 DEF Sending
<1>8. CASE UpdatesDone(h)
  <2>1. /\ pc[h] = "scan"
        /\ Says(Stage(h, "scan"), "SYNC_UPDATE_DONE", Stage(h, "startDelete"))
    BY <1>8 DEF UpdatesDone, Says, Stage
  <2>2. QED
    BY <1>3, <1>8, <2>1 DEF UpdatesDone, Sending, Tokens
<1>9. CASE StartDeletes(h)
  <2>1. /\ pc[h] = "startDelete"
        /\ Says(Stage(h, "startDelete"), "SYNC_DELETE", Stage(h, "delete"))
    BY <1>9 DEF StartDeletes, Says, Stage
  <2>2. QED
    BY <1>3, <1>9, <2>1 DEF StartDeletes, Sending, Tokens
<1>10. CASE DeletesDone(h)
  <2>1. /\ pc[h] = "delete"
        /\ Says(Stage(h, "delete"), "SYNC_DELETE_DONE", Stage(h, "startCreate"))
    BY <1>10 DEF DeletesDone, Says, Stage
  <2>2. QED
    BY <1>3, <1>10, <2>1 DEF DeletesDone, Sending, Tokens
<1>11. CASE StartCreates(h)
  <2>1. /\ pc[h] = "startCreate"
        /\ Says(Stage(h, "startCreate"), "SYNC_CREATE", Stage(h, "create"))
    BY <1>11 DEF StartCreates, Says, Stage
  <2>2. QED
    BY <1>3, <1>11, <2>1 DEF StartCreates, Sending, Tokens
<1>12. CASE CreatesDone(h)
  <2>1. /\ pc[h] = "create"
        /\ Says(Stage(h, "create"), "SYNC_CREATE_DONE", Stage(h, "finish"))
    BY <1>12 DEF CreatesDone, Says, Stage
  <2>2. QED
    BY <1>3, <1>12, <2>1 DEF CreatesDone, Sending, Tokens
<1>13. CASE Finish(h)
  <2> DEFINE l == IF h = "server" THEN "recv" ELSE "again"
  <2>1. pc[h] = "finish" /\ Says(Stage(h, "finish"), "DONE_CONTROL", Stage(h, l))
    BY <1>13 DEF Finish, Says, Stage
  <2>2. l \in Sending \cup {"recv"} /\ (l = "again" => h = "client")
    BY DEF Sending, Hosts
  <2>3. Send(h, Token("DONE_CONTROL")) /\ Goto(h, l) /\ mode' = mode
    BY <1>13 DEF Finish
  <2> HIDE DEF l
  <2>4. QED
    BY <1>3, <2>1, <2>2, <2>3 DEF Sending, Tokens
<1>14. CASE AskAgain(h)
  <2>1. /\ pc[h] = "again" /\ h = "client"
        /\ Says(Stage(h, "again"), "DONE_CONTROL", Stage(h, "recv"))
    BY <1>1, <1>14 DEF AskAgain, Says, Stage
  <2>2. QED
    BY <1>3, <1>14, <2>1 DEF AskAgain, Sending, Tokens
<1>15. CASE BrokenPipe(h)
  <2>1. /\ pc[h] \in Sending /\ pc[Peer(h)] = "exited"
        /\ pc' = [pc EXCEPT ![h] = "exited"] /\ UNCHANGED << chan, mode >>
    BY <1>15 DEF BrokenPipe, Goto
  <2>2. QED
    BY <2>1, ExitStep
<1>16. QED
  BY <1>4, <1>5, <1>6, <1>7, <1>8, <1>9, <1>10, <1>11, <1>12, <1>13, <1>14,
     <1>15 DEF Walk

(* The client has read the server's whole turn and begins its own.         *)
LEMMA ClientTurn ==
  ASSUME TypeOK, ProtoInv, RecvDone("client") PROVE ProtoInv'
<1>1. /\ pc["client"] = "recv" /\ mode["client"] = "top" /\ chan["client"] # << >>
      /\ Msg("client").t = "DONE_CONTROL"
  BY DEF RecvDone, TopCase, Incoming
<1>2. /\ pc'["client"] = "scan" /\ pc'["server"] = pc["server"] /\ mode' = mode
      /\ chan'["server"] = chan["server"] /\ chan'["client"] = Tail(chan["client"])
      /\ chan["client"] \in Seq(Message) /\ chan'["client"] \in Seq(Message)
  <2>1. /\ chan["client"] \in Seq(Message)
        /\ chan \in [Hosts -> Seq(Message)] /\ pc \in [Hosts -> Labels]
    BY DEF TypeOK, Hosts
  <2>2. Tail(chan["client"]) \in Seq(Message)
    BY <1>1, <2>1, HeadTailProperties
  <2>3. /\ pc' = [pc EXCEPT !["client"] = "scan"] /\ mode' = mode
        /\ chan' = [chan EXCEPT !["client"] = Tail(chan["client"])]
    BY DEF RecvDone, AfterReceive, Goto, Consume
  <2>4. QED
    BY <2>1, <2>2, <2>3 DEF Hosts
<1>3. ASSUME NEW a \in 0 .. 7, NEW b, Reads("client", a),
             Script(chan["client"], a, b), b <= 6
      PROVE  b = 6 /\ chan'["client"] = << >>
  <2>1. PICK c \in 0 .. 7 :
          Says(a, Msg("client").t, c) /\ Script(chan'["client"], c, b)
    BY <1>1, <1>2, <1>3, ScriptTail DEF Msg
  <2>2. a \in 0 .. 5
    BY <1>1, <1>3 DEF Reads, ReadsAt
  <2>3. c = 6
    BY <1>1, <2>1, <2>2 DEF Says
  <2>4. b \in 0 .. 7 /\ 6 <= b /\ (b = 6 => chan'["client"] = << >>)
    BY <1>2, <2>1, <2>3, ScriptOrder
  <2>5. QED
    BY <1>3, <2>4
<1>4. ASSUME ~Down PROVE Turn("client")'
  <2>1. Turn("server")
    BY <1>1, <1>4 DEF ProtoInv, Turn, Quiet, Hosts
  <2>2. PICK a \in 0 .. 7 : /\ Reads("client", a)
                            /\ Script(chan["client"], a, Stage("server", pc["server"]))
    BY <2>1 DEF Turn, Peer
  <2>3. Stage("server", pc["server"]) <= 6
    BY <2>1 DEF Turn, ProtoInv, Stage, Sending
  <2>4. Stage("server", pc["server"]) = 6 /\ chan'["client"] = << >>
    BY <1>3, <2>2, <2>3
  <2>5. pc["server"] = "recv"
    BY <2>1, <2>4 DEF Turn, ProtoInv, Stage, Sending
  <2>6. Reads("server", 0)' /\ chan'["server"] = << >>
    BY <1>2, <2>1, <2>5 DEF Turn, Quiet, Reads, ReadsAt, ModeAt
  <2>7. Script(chan'["server"], 0, Stage("client", "scan"))
    BY <2>6, EmptyScript DEF Stage
  <2>8. pc'["client"] \in Sending /\ Quiet("client")' /\ Peer("client") = "server"
    BY <1>1, <1>2, <2>4 DEF Quiet, Sending, Peer
  <2>9. QED
    BY <1>2, <2>6, <2>7, <2>8 DEF Turn
<1>5. ASSUME pc["server"] = "exited" PROVE Gone("client")'
  <2>1. PICK a \in 0 .. 7, b \in 0 .. 7 :
          Reads("client", a) /\ Script(chan["client"], a, b) /\ b <= 6
    BY <1>1, <1>5 DEF ProtoInv, Gone, Peer, Hosts
  <2>2. chan'["client"] = << >>
    BY <1>3, <2>1
  <2>3. QED
    BY <1>1, <1>2, <2>2 DEF Gone, Quiet, Sending
<1>6. QED
  BY <1>1, <1>2, <1>4, <1>5 DEF ProtoInv, Down, Hosts, Peer
(* Every step of a receiver keeps the invariant.                           *)
LEMMA ReceiveProto ==
  ASSUME TypeOK, ProtoInv, NEW h \in Hosts, Receive(h) PROVE ProtoInv'
<1>1. /\ pc \in [Hosts -> Labels]
      /\ mode \in [Hosts -> {"top", "delete", "create", "jammed"}]
  BY DEF TypeOK
<1>2. ASSUME NEW a \in 0 .. 7, Reads(h, a), pc[h] = "recv"
      PROVE  a \in 0 .. 5 /\ mode[h] = ModeAt(a)
  BY <1>2 DEF Reads, ReadsAt
<1>3. ASSUME NEW md, Incoming(h), Consume(h), pc' = pc,
             mode' = [mode EXCEPT ![h] = md],
             \A a \in 0 .. 5, c \in 0 .. 7 :
               mode[h] = ModeAt(a) /\ Says(a, Msg(h).t, c)
                 => c \in 0 .. 5 /\ md = ModeAt(c)
      PROVE  ProtoInv'
  <2>1. pc[h] = "recv" /\ chan[h] # << >> /\ pc' = [pc EXCEPT ![h] = "recv"]
    BY <1>1, <1>3 DEF Incoming
  <2>2. \A a, c \in 0 .. 7 :
          Reads(h, a) /\ Says(a, Msg(h).t, c) => ReadsAt(h, "recv", md, c)
    BY <1>2, <1>3, <2>1 DEF ReadsAt
  <2>3. QED
    BY <1>3, <2>1, <2>2, ReaderStep
<1>4. ASSUME Incoming(h), Consume(h), UNCHANGED << mode, pc >>,
             \A a \in 0 .. 5, c \in 0 .. 7 :
               mode[h] = ModeAt(a) /\ Says(a, Msg(h).t, c) => c = a
      PROVE  ProtoInv'
  <2>1. mode' = [mode EXCEPT ![h] = mode[h]]
    BY <1>1, <1>4
  <2>2. QED
    BY <1>3, <1>4, <2>1
<1>5. CASE RecvUpdate(h)
  BY <1>4, <1>5 DEF RecvUpdate, TopCase, ModeAt, Says
<1>6. CASE RecvUpdateFails(h)
  <2>1. /\ pc[h] = "recv" /\ chan[h] # << >> /\ Goto(h, "exited")
        /\ mode' = mode /\ Consume(h)
    BY <1>6 DEF RecvUpdateFails, TopCase, Incoming
  <2>2. chan'[Peer(h)] = chan[Peer(h)]
    BY <2>1, TwoHosts DEF Consume, TypeOK
  <2>3. QED
    BY <2>1, <2>2, ExitStep DEF Goto
<1>7. CASE RecvToken(h)
  <2> DEFINE md == TopMode(mode[h], Msg(h).t)
  <2>1. /\ Incoming(h) /\ Consume(h) /\ pc' = pc
        /\ mode' = [mode EXCEPT ![h] = md]
        /\ mode[h] \in {"top", "jammed"}
        /\ mode[h] = "top" => Msg(h).t \notin {"SYNC_FILE", "DONE_CONTROL"}
    BY <1>7 DEF RecvToken, TopCase
  <2>2. ASSUME NEW a \in 0 .. 5, NEW c \in 0 .. 7,
               mode[h] = ModeAt(a), Says(a, Msg(h).t, c)
        PROVE  c \in 0 .. 5 /\ md = ModeAt(c)
    BY <2>1, <2>2 DEF ModeAt, Says, TopMode
  <2> HIDE DEF md
  <2>3. QED
    BY <1>3, <2>1, <2>2
<1>8. CASE RecvDelete(h)
  BY <1>4, <1>8 DEF RecvDelete, ModeAt, Says
<1>9. CASE RecvCreate(h)
  BY <1>4, <1>9 DEF RecvCreate, ModeAt, Says
<1>10. CASE RecvListEnd(h)
  <2>1. /\ Incoming(h) /\ Consume(h) /\ pc' = pc
        /\ mode' = [mode EXCEPT ![h] = "top"]
        /\ \/ mode[h] = "delete" /\ Msg(h).t = "SYNC_DELETE_DONE"
           \/ mode[h] = "create" /\ Msg(h).t = "SYNC_CREATE_DONE"
    BY <1>10 DEF RecvListEnd
  <2>2. ASSUME NEW a \in 0 .. 5, NEW c \in 0 .. 7,
               mode[h] = ModeAt(a), Says(a, Msg(h).t, c)
        PROVE  c \in 0 .. 5 /\ "top" = ModeAt(c)
    BY <2>1, <2>2 DEF ModeAt, Says
  <2>3. QED
    BY <1>3, <2>1, <2>2
<1>11. CASE RecvDone(h)
  <2>1. CASE h = "client"
    BY <1>11, <2>1, ClientTurn
  <2>2. CASE h = "server"
    <3>1. /\ pc[h] = "recv" /\ chan[h] # << >> /\ Consume(h)
          /\ pc' = [pc EXCEPT ![h] = "rebuild"] /\ mode' = mode
          /\ mode[h] = "top" /\ Msg(h).t = "DONE_CONTROL"
      BY <1>11, <2>2 DEF RecvDone, TopCase, Incoming, AfterReceive, Goto
    <3>2. mode' = [mode EXCEPT ![h] = "top"]
      BY <1>1, <3>1
    <3>3. ASSUME NEW a \in 0 .. 7, NEW c \in 0 .. 7,
                 Reads(h, a), Says(a, Msg(h).t, c)
          PROVE  ReadsAt(h, "rebuild", "top", c)
      BY <1>2, <2>2, <3>1, <3>3 DEF Says, ReadsAt
    <3>4. QED
      BY <3>1, <3>2, <3>3, ReaderStep
  <2>3. QED
    BY <2>1, <2>2 DEF Hosts
<1>12. CASE RecvEOF(h)
  <2>1. /\ pc[h] = "recv" /\ chan[h] = << >> /\ pc[Peer(h)] = "exited"
        /\ Peer(h) \in Hosts /\ Peer(h) # h /\ Peer(Peer(h)) = h
        /\ \A k \in Hosts : k = h \/ k = Peer(h)
    BY <1>12, TwoHosts DEF RecvEOF
  <2>2. /\ pc'[h] = IF h = "server" THEN "rebuild" ELSE "scan"
        /\ pc'[Peer(h)] = pc[Peer(h)] /\ mode'[h] = "top" /\ chan'[h] = << >>
    BY <1>1, <1>12, <2>1 DEF RecvEOF, AfterReceive, Goto
  <2>3. Down'
    BY <2>1, <2>2 DEF Down
  <2>4. Gone(h)'
    <3>1. CASE h = "client"
      BY <2>2, <3>1 DEF Gone, Quiet, Sending
    <3>2. CASE h = "server"
      <4>1. Reads(h, 6)' /\ Script(chan'[h], 6, 6)
        BY <2>2, <3>2, EmptyScript DEF Reads, ReadsAt
      <4>2. QED
        BY <2>2, <3>2, <4>1 DEF Gone, Sending
    <3>3. QED
      BY <3>1, <3>2 DEF Hosts
  <2>5. pc'[h] # "exited" /\ pc'["server"] # "again"
    BY <2>1, <2>2 DEF Hosts
  <2>6. \A k \in Hosts : pc'[Peer(k)] = "exited" => Gone(k)'
    BY <2>1, <2>4, <2>5
  <2>7. QED
    BY <2>3, <2>5, <2>6 DEF ProtoInv
<1>13. QED
  BY <1>5, <1>6, <1>7, <1>8, <1>9, <1>10, <1>11, <1>12 DEF Receive
(* Every step of the server's loop keeps the invariant.                    *)
LEMMA ServerLoopProto == ASSUME TypeOK, ProtoInv, ServerLoop PROVE ProtoInv'
<1>1. /\ pc \in [Hosts -> Labels] /\ "server" \in Hosts /\ "client" \in Hosts
      /\ mode \in [Hosts -> {"top", "delete", "create", "jammed"}]
  BY DEF TypeOK, Hosts
<1>2. CASE Rebuild
  <2>1. /\ pc["server"] = "rebuild" /\ UNCHANGED << chan, mode >>
        /\ pc'["server"] = "wait" /\ pc'["client"] = pc["client"]
    BY <1>1, <1>2 DEF Rebuild, Goto
  <2>2. \A a \in 0 .. 7 : Reads("server", a) => Reads("server", a)'
    BY <2>1 DEF Reads, ReadsAt
  <2>3. ASSUME ~Down PROVE Turn("client")'
    BY <2>1, <2>2, <2>3 DEF ProtoInv, Turn, Quiet, Sending, Hosts, Peer
  <2>4. pc["client"] = "exited" => Gone("server")'
    BY <2>1, <2>2 DEF ProtoInv, Gone, Sending, Hosts, Peer
  <2>5. QED
    BY <2>1, <2>3, <2>4 DEF ProtoInv, Down, Hosts, Peer
<1>3. CASE HandleRequest
  <2>1. PICK h \in Hosts : h = "server"
    BY <1>1
  <2>2. PICK l \in {"wait", "sleep"} :
          l = IF Msg("server").t = "DONE_CONTROL" THEN "sleep" ELSE "wait"
    OBVIOUS
  <2>3. /\ pc[h] = "wait" /\ chan[h] # << >> /\ Consume(h)
        /\ pc' = [pc EXCEPT ![h] = l] /\ mode' = mode
    BY <1>3, <2>1, <2>2 DEF HandleRequest, Goto
  <2>4. PICK md : md = mode[h]
    OBVIOUS
  <2>5. mode' = [mode EXCEPT ![h] = md]
    BY <1>1, <2>3, <2>4
  <2>6. ASSUME NEW a \in 0 .. 7, NEW c \in 0 .. 7, Reads(h, a), Says(a, Msg(h).t, c)
        PROVE  ReadsAt(h, l, md, c)
    BY <2>1, <2>2, <2>3, <2>4, <2>6 DEF Reads, ReadsAt, Says
  <2>7. pc[h] \in {"recv", "wait"} /\ l \in {"recv", "rebuild", "wait", "sleep"}
    BY <2>3
  <2>8. chan[h] # << >> /\ Consume(h) /\ pc' = [pc EXCEPT ![h] = l]
    BY <2>3
  <2>9. QED
    BY <2>5, <2>6, <2>7, <2>8, ReaderStep
<1>4. CASE SpinAtEOF
  <2>1. /\ pc["client"] = "exited" /\ pc'["client"] = "exited"
        /\ pc'["server"] = "spin"
    BY <1>1, <1>4 DEF SpinAtEOF, Goto
  <2>2. Down' /\ Gone("server")'
    BY <1>1, <2>1 DEF Down, Gone, Sending
  <2>3. QED
    BY <2>1, <2>2 DEF ProtoInv, Hosts, Peer
<1>5. CASE Wake
  <2>1. /\ pc["server"] = "sleep" /\ UNCHANGED << chan, mode >>
        /\ pc'["server"] = "scan" /\ pc'["client"] = pc["client"]
    BY <1>1, <1>5 DEF Wake, Goto
  <2>2. ASSUME ~Down PROVE Turn("server")'
    <3>1. Turn("client")
      BY <2>1, <2>2 DEF ProtoInv, Turn, Sending, Hosts
    <3>2. PICK a \in 0 .. 7 :
            /\ Reads("server", a)
            /\ Script(chan["server"], a, Stage("client", pc["client"]))
      BY <3>1 DEF Turn, Peer
    <3>3. a = 7 /\ mode["server"] = "top"
      BY <2>1, <3>2 DEF Reads, ReadsAt
    <3>4. /\ chan["server"] = << >> /\ 7 <= Stage("client", pc["client"])
          /\ Stage("client", pc["client"]) \in 0 .. 7
      BY <1>1, <3>2, <3>3, ScriptOrder DEF TypeOK
    <3>5. pc["client"] = "recv"
      BY <3>1, <3>4 DEF Turn, Stage, Sending
    <3>6. Reads("client", 0)' /\ chan'["client"] = << >>
      BY <2>1, <3>1, <3>5 DEF Turn, Quiet, Reads, ReadsAt, ModeAt
    <3>7. Script(chan'["client"], 0, Stage("server", "scan"))
      BY <3>6, EmptyScript DEF Stage
    <3>8. Quiet("server")'
      BY <2>1, <3>3, <3>4 DEF Quiet
    <3>9. QED
      BY <2>1, <3>6, <3>7, <3>8 DEF Turn, Peer, Sending
  <2>3. pc["client"] = "exited" => Gone("server")'
    BY <2>1 DEF ProtoInv, Gone, Quiet, Sending, Hosts, Peer
  <2>4. QED
    BY <1>1, <2>1, <2>2, <2>3 DEF ProtoInv, Down, Hosts, Peer
<1>6. QED
  BY <1>2, <1>3, <1>4, <1>5 DEF ServerLoop

(* The invariant of the turns is inductive, with the types.                *)
LEMMA NextProto == TypeOK /\ ProtoInv /\ [Next]_vars => ProtoInv'
<1> SUFFICES ASSUME TypeOK, ProtoInv, [Next]_vars PROVE ProtoInv'
  OBVIOUS
<1>1. CASE UNCHANGED vars
  BY <1>1, LocalStep DEF vars
<1>2. CASE Over
  BY <1>2, LocalStep DEF Over, vars
<1>3. CASE Edit
  BY <1>3, LocalStep DEF Edit, EditFile, EditFolder, EditDelete
<1>4. QED
  BY <1>1, <1>2, <1>3, WalkProto, ReceiveProto, ServerLoopProto DEF Next

(* In every reachable state there is a writer and a reader, and the        *)
(* messages between them are the next ones of the script.                  *)
THEOREM TurnsHold == Spec => []ProtoInv
<1>1. Spec => []TypeOK
  BY TypeCorrect
<1>2. QED
  BY <1>1, InitProto, NextProto, PTL DEF Spec

-----------------------------------------------------------------------------
(* The next message is the next thing of the script.                       *)
LEMMA NextOfScript ==
  ASSUME TypeOK, ProtoInv, NEW h \in Hosts,
         pc[h] \in {"recv", "wait"}, chan[h] # << >>
  PROVE  \E a, c \in 0 .. 7 : Reads(h, a) /\ Says(a, Msg(h).t, c)
<1> DEFINE w == Peer(h)
<1>1. w \in Hosts /\ w # h /\ Peer(w) = h /\ \A k \in Hosts : k = h \/ k = w
  BY TwoHosts
<1>2. PICK a \in 0 .. 7, b \in 0 .. 7 : Reads(h, a) /\ Script(chan[h], a, b)
  <2>1. CASE pc[w] = "exited"
    BY <1>1, <2>1 DEF ProtoInv, Gone
  <2>2. CASE pc[w] # "exited"
    <3>1. ~Down
      BY <1>1, <2>2 DEF Down
    <3>2. Turn(w)
      BY <1>1, <3>1 DEF ProtoInv, Turn, Quiet
    <3>3. QED
      BY <1>1, <3>2, StageTyped DEF Turn
  <2>3. QED
    BY <2>1, <2>2
<1>3. chan[h] \in Seq(Message)
  BY DEF TypeOK
<1>4. QED
  BY <1>2, <1>3, ScriptTail DEF Msg

(* Whatever a receive loop or handleRequest reads next is something it     *)
(* understands, in every round, for every pace of the two programs and of  *)
(* their users, and after one of them has exited.                          *)
THEOREM ParsersAligned == Spec => []Aligned
<1>1. ASSUME TypeOK, ProtoInv, NEW h \in Hosts, Incoming(h)
      PROVE  Msg(h).t \in Understood(mode[h])
  <2>1. PICK a \in 0 .. 7, c \in 0 .. 7 : Reads(h, a) /\ Says(a, Msg(h).t, c)
    BY <1>1, NextOfScript DEF Incoming
  <2>2. QED
    BY <1>1, <2>1 DEF Incoming, Reads, ReadsAt, ModeAt, Says, Understood, Tokens
<1>2. ASSUME TypeOK, ProtoInv, pc["server"] = "wait", chan["server"] # << >>
      PROVE  Msg("server").t = "DONE_CONTROL"
  <2>1. PICK a \in 0 .. 7, c \in 0 .. 7 :
          Reads("server", a) /\ Says(a, Msg("server").t, c)
    BY <1>2, NextOfScript DEF Hosts
  <2>2. QED
    BY <1>2, <2>1 DEF Reads, ReadsAt, Says
<1>3. TypeOK /\ ProtoInv => Aligned
  BY <1>1, <1>2 DEF Aligned
<1>4. Spec => []TypeOK /\ []ProtoInv
  BY TypeCorrect, TurnsHold
<1>5. QED
  BY <1>3, <1>4, PTL

(* While a host walks and sends, its peer is in its receive loop and       *)
(* nothing is on its way to the walking host, or the peer has exited.      *)
THEOREM OneWriter == Spec => []TurnTaking
<1>1. ASSUME TypeOK, ProtoInv, NEW h \in Hosts, pc[h] \in Sending \ {"again"},
             pc[Peer(h)] # "exited"
      PROVE  pc[Peer(h)] = "recv" /\ chan[h] = << >>
  <2>1. /\ Peer(h) \in Hosts /\ Peer(h) # h /\ Peer(Peer(h)) = h
        /\ \A k \in Hosts : k = h \/ k = Peer(h)
    BY TwoHosts
  <2>2. ~Down
    BY <1>1, <2>1 DEF Down, Sending
  <2>3. Turn(h)
    BY <1>1, <2>1, <2>2 DEF ProtoInv, Turn, Reads, ReadsAt, Sending
  <2>4. PICK a \in 0 .. 7 :
          /\ Reads(Peer(h), a)
          /\ Script(chan[Peer(h)], a, Stage(h, pc[h]))
    BY <2>3 DEF Turn
  <2>5. chan[Peer(h)] \in Seq(Message)
    BY <1>1, <2>1 DEF TypeOK
  <2>6. a <= Stage(h, pc[h])
    BY <2>4, <2>5, ScriptOrder
  <2>7. Stage(h, pc[h]) \in 0 .. 5
    BY <1>1 DEF Stage, Sending
  <2>8. pc[Peer(h)] = "recv"
    BY <2>4, <2>6, <2>7 DEF Reads, ReadsAt
  <2>9. QED
    BY <2>3, <2>8 DEF Turn, Quiet
<1>2. TypeOK /\ ProtoInv => TurnTaking
  BY <1>1 DEF TurnTaking
<1>3. Spec => []TypeOK /\ []ProtoInv
  BY TypeCorrect, TurnsHold
<1>4. QED
  BY <1>2, <1>3, PTL
=============================================================================
