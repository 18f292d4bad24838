-------------------------- MODULE SyncMergeProofs --------------------------
(***************************************************************************)
(* Proofs that a round of SyncRound is the merge of DirectorySync and that *)
(* it makes both directories the same, for any paths, contents and socket  *)
(* sizes, when users edit between rounds.                                  *)
(*                                                                         *)
(* In a half of a round one host writes and the other reads. The messages  *)
(* between them are labelled with the stages of the writer's script (see   *)
(* SyncRoundProofs). What the reader's directory still lacks of what it    *)
(* will be is owed to it: on its way, or something the writer has yet to   *)
(* come to in its walk.                                                    *)
(***************************************************************************)
EXTENDS SyncMerge, SyncRoundProofs, WellFoundedInduction

(* The rounds this is about: users edit while the server naps and in       *)
(* different seconds, write no empty files, use a name for files only or   *)
(* for folders only and not the log's; and the client has fetched nothing  *)
(* that it does not remember, or its user does not edit.                   *)
Calm ==
  /\ ~AnyTime /\ ~SameSecond /\ "" \notin Data
  /\ \A p \in Paths : ~Hidden(p) /\ Kinds[p] # {"file", "dir"}
  /\ Fetched = {} \/ "client" \notin Editors

(* A directory that users make.                                            *)
Proper(dk) ==
  /\ dk \in [Paths -> {"none", "dir"} \cup Data] /\ WellFormed(dk)
  /\ \A p \in Paths : dk[p] = "none" \/ Kind(dk[p]) \in Kinds[p]

-----------------------------------------------------------------------------
(* What a round comes to. Here and below ag is the directory both hosts    *)
(* had when the last round ended, be[h] that of h when the nap ended, and  *)
(* to the paths whose mtime at the server had changed then.                *)

DeletedAbove(ag, be, p) ==
  \E q \in Paths, h \in Hosts : IsPrefix(q, p) /\ ag[q] # "none" /\ be[h][q] = "none"
Heard(ag, be, to, p) ==
  \/ ag[p] = "none" /\ be["server"][p] # "none"
  \/ p \in to /\ be["server"][p] \in FileData
Merge(ag, be, to) ==
  [p \in Paths |-> IF DeletedAbove(ag, be, p) THEN "none"
                   ELSE IF Heard(ag, be, to, p) THEN be["server"][p]
                                                ELSE be["client"][p]]

(* The files the client must have for an update, and those it has deleted. *)
Written(ag, to) == {p \in Paths : ag[p] # "none" /\ p \in to}
Clashes(ag, be, to) ==
  {p \in Paths : ag[p] # "none" /\ Heard(ag, be, to, p) /\ be["client"][p] = "none"}

-----------------------------------------------------------------------------
(* The invariant between rounds.                                           *)

(* What the client remembers was so at the end of the last round.          *)
Remembers(ag) ==
  \A p \in Paths :
    /\ tree["client"][p] \in {"none", Kind(ag[p])}
    /\ "client" \in Editors => tree["client"][p] = Kind(ag[p])

(* An edit of a file that both had changes its mtime.                      *)
Noticed(ag, dk, st) ==
  \A p \in Paths : dk[p] # "none" /\ ag[p] # "none" /\ p \notin st => dk[p] = ag[p]

Open(ag, be, to) ==
  /\ \A h \in Hosts : Proper(disk[h]) /\ Noticed(ag, disk[h], stale[h]) /\ new[h] = NoTree
  /\ \A p \in Paths : tree["server"][p] = Kind(ag[p])
  /\ Remembers(ag)
  /\ "client" \notin Editors => disk["client"] = ag
  /\ IF pc["server"] = "wait"
     THEN (\A h \in Hosts : disk[h] = ag) /\ stale["server"] = {}
     ELSE be = disk /\ to = stale["server"]

-----------------------------------------------------------------------------
(* The invariant in a round.                                               *)

Writing(w) == pc[w] \in {"scan", "startDelete", "delete", "startCreate", "create"}

(* The tree of a walk is that of the directory, as far as it has come.     *)
Scanned(w) ==
  /\ pc[w] = "scan" =>
       \A p \in Paths : IF p \in todo[w]
                        THEN new[w][p] = "none"
                        ELSE new[w][p] = Kind(disk[w][p]) /\ Front(p) \notin todo[w]
  /\ Writing(w) /\ pc[w] # "scan" => \A p \in Paths : new[w][p] = Kind(disk[w][p])
  /\ ~Writing(w) => new[w] = NoTree
  /\ pc[w] = "delete" => todo[w] \subseteq Deleted(w)
  /\ pc[w] = "create" => todo[w] \subseteq Created(w)

(* What the writer w will send yet.                                        *)
DueUpdate(w, p) == pc[w] = "scan" /\ p \in todo[w] /\ Changed(w, p)
DueDelete(w, p) ==
  \/ pc[w] \in {"scan", "startDelete"} /\ tree[w][p] # "none" /\ disk[w][p] = "none"
  \/ pc[w] = "delete" /\ p \in todo[w]
DueCreate(w, p) ==
  \/ Writing(w) /\ pc[w] # "create" /\ tree[w][p] = "none" /\ disk[w][p] # "none"
  \/ pc[w] = "create" /\ p \in todo[w]

(* f labels the messages s; one about p is among them, said at stage a.    *)
About(s, i) == i \in 1 .. Len(s) /\ s[i].t \in NodeTypes
Pending(s, f, a, p) == \E i \in 1 .. Len(s) : About(s, i) /\ f[i] = a /\ s[i].p = p

Owed(w, s, f, p) ==
  \/ DueUpdate(w, p) \/ Pending(s, f, 0, p)
  \/ \E q \in Paths : IsPrefix(q, p) /\ (DueDelete(w, q) \/ Pending(s, f, 2, q))
  \/ DueCreate(w, p) \/ Pending(s, f, 4, p)

(* What is on its way is so at the writer, W; the round is going to M, and *)
(* the reader began with R.                                                *)
Lost(M, R, p) == M[p] = "none" /\ R[p] = "none"
UpdateTrue(W, M, R, A, m) ==
  /\ W[m.p] \in FileData /\ m.c = W[m.p] /\ m.p \in A
  /\ M[m.p] = W[m.p] \/ Lost(M, R, m.p)
CreateTrue(W, M, R, m) ==
  /\ W[m.p] # "none"
  /\ m = (IF W[m.p] = "dir" THEN FolderMsg(m.p) ELSE FileMsg(m.p, W[m.p]))
  /\ \/ M[m.p] = W[m.p]
     \/ \E q \in Paths : IsPrefix(q, m.p) /\ q # m.p /\ Lost(M, R, q)
True(W, M, R, A, a, m) ==
  /\ a = 0 => UpdateTrue(W, M, R, A, m)
  /\ a = 2 => M[m.p] = "none"
  /\ a = 4 => CreateTrue(W, M, R, m)

(* Folders are created before what is in them.                             *)
Sorted(w, s, f) ==
  \A i \in 1 .. Len(s) : About(s, i) /\ f[i] = 4 =>
    /\ pc[w] = "create" => Front(s[i].p) \notin todo[w]
    /\ \A j \in 1 .. Len(s) : j > i /\ About(s, j) => s[j].p # Front(s[i].p)

UnderWay(w, s, f, W, M, R, A, X) ==
  /\ Labelling(f, s) /\ Reads(Peer(w), f[1]) /\ f[1] <= 6
  /\ f[Len(s) + 1] = Stage(w, pc[w])
  /\ \A i \in 1 .. Len(s) : About(s, i) => True(W, M, R, A, f[i], s[i])
  /\ Sorted(w, s, f)
  /\ \A p \in Paths : \/ disk[Peer(w)][p] = M[p]
                      \/ disk[Peer(w)][p] = R[p] /\ Owed(w, s, f, p)
  /\ \A p \in X : DueUpdate(w, p) \/ Pending(s, f, 0, p)

Half(w, W, M, R, A, X) ==
  /\ pc[w] \in Sending \cup {"recv"} /\ disk[w] = W /\ Scanned(w)
  /\ \E f : UnderWay(w, chan[Peer(w)], f, W, M, R, A, X)

(* What the walk of w will come upon yet.                                  *)
Honest(w, W, M, R, A) ==
  /\ \A p \in Paths : DueUpdate(w, p) => p \in A /\ (M[p] = W[p] \/ Lost(M, R, p))
  /\ Writing(w) => \A p \in Paths :
       /\ tree[w][p] # "none" /\ W[p] = "none" => M[p] = "none"
       /\ tree[w][p] = "none" /\ W[p] # "none" =>
            \/ M[p] = W[p]
            \/ \E q \in Paths : IsPrefix(q, p) /\ q # p /\ Lost(M, R, q)

ServerHalf(ag, be, to) ==
  /\ Half("server", be["server"], Merge(ag, be, to), be["client"],
          Written(ag, to), Clashes(ag, be, to))
  /\ Writing("server") => \A p \in Paths : tree["server"][p] = Kind(ag[p])
  /\ pc["server"] = "scan" => \A p \in todo["server"] : p \in stale["server"] <=> p \in to
  /\ pc["client"] = "recv" /\ new["client"] = NoTree
  /\ Remembers(ag) /\ ("client" \notin Editors => be["client"] = ag)
  /\ Noticed(ag, be["client"], stale["client"])

There(dk) == {p \in Paths : dk[p] # "none"}
ClientHalf(ag, be, to) ==
  LET M == Merge(ag, be, to) IN
  /\ Half("client", M, M, be["server"], There(be["server"]), {})
  /\ Clashes(ag, be, to) = {}
  /\ pc["server"] \in {"recv", "rebuild"} /\ new["server"] = NoTree
  /\ IF Writing("client")
     THEN \A p \in Paths : tree["client"][p] # "none" /\ M[p] # "none" =>
                             p \in There(be["server"])
     ELSE \A p \in Paths : tree["client"][p] = Kind(M[p])

Round(ag, be, to) ==
  /\ \A h \in Hosts : Proper(be[h]) /\ Proper(disk[h])
  /\ Noticed(ag, be["server"], to)
  /\ ServerHalf(ag, be, to) \/ ClientHalf(ag, be, to)

RoundInv(ag, be, to) ==
  ~Down => /\ Proper(ag)
           /\ IF pc["server"] \in {"wait", "sleep"}
              THEN Open(ag, be, to) ELSE Round(ag, be, to)

(* When the client has exited nothing of a round happens any more.         *)
Broken ==
  Down => /\ pc["client"] = "exited" /\ chan["server"] = << >>
          /\ pc["server"] # "sleep"

-----------------------------------------------------------------------------
(* Paths.                                                                  *)

(* A path is a sequence of names, and its folder is a path.                *)
LEMMA PathParts ==
  ASSUME NEW p \in Paths
  PROVE  /\ p \in Seq(STRING) /\ Len(p) \in Nat \ {0} /\ SubSeq(p, 1, Len(p)) = p
         /\ Len(p) > 1 => Front(p) \in Paths /\ Front(p) = SubSeq(p, 1, Len(p) - 1)
<1>1. p \in Seq(STRING) /\ p # << >> /\ (Len(p) > 1 => Front(p) \in Paths)
  BY PathsAssumption
<1>2. Len(p) \in Nat \ {0}
  BY <1>1, EmptySeq, LenProperties
<1>3. SubSeq(p, 1, Len(p)) = p
  BY <1>1, SubSeqFull
<1> QED BY <1>1, <1>2, <1>3 DEF Front

(* A path at the top has one name, any other lies in a folder.             *)
LEMMA PathSize ==
  \A p \in Paths : Len(p) \in Nat \ {0} /\ (Len(p) # 1 => Len(p) > 1 /\ Front(p) \in Paths)
<1> SUFFICES ASSUME NEW p \in Paths
             PROVE  Len(p) \in Nat \ {0} /\ (Len(p) # 1 => Len(p) > 1 /\ Front(p) \in Paths)
  OBVIOUS
<1>1. Len(p) \in Nat \ {0} /\ (Len(p) > 1 => Front(p) \in Paths)
  BY PathParts
<1>2. PICK n \in Nat \ {0} : n = Len(p)
  BY <1>1
<1>3. n # 1 => n > 1
  OBVIOUS
<1> QED BY <1>1, <1>2, <1>3

(* A path is a prefix of itself.                                           *)
LEMMA PrefixSelf == \A p \in Paths : IsPrefix(p, p)
BY PathParts DEF IsPrefix

(* The folder of p is a proper prefix of p.                                *)
LEMMA FrontPrefix ==
  ASSUME NEW p \in Paths, Len(p) > 1
  PROVE  Front(p) \in Paths /\ IsPrefix(Front(p), p) /\ Front(p) # p
         /\ Len(Front(p)) = Len(p) - 1
<1>1. p \in Seq(STRING) /\ Len(p) \in Nat \ {0} /\ Front(p) \in Paths
  BY PathParts
<1>2. Len(Front(p)) = Len(p) - 1 /\ Front(p) \in Seq(STRING)
  BY <1>1, PathParts, SubSeqProperties
<1>3. SubSeq(Front(p), 1, Len(Front(p))) = Front(p)
  BY <1>1, PathParts
<1>4. Front(p) = SubSeq(p, 1, Len(p) - 1)
  BY PathParts
<1> QED BY <1>1, <1>2, <1>3, <1>4 DEF IsPrefix

(* What lies at a prefix of the folder of p lies at a prefix of p.         *)
LEMMA PrefixOfFront ==
  ASSUME NEW p \in Paths, Len(p) > 1, NEW q \in Paths
  PROVE  IsPrefix(q, Front(p)) => IsPrefix(q, p) /\ q # p
<1> SUFFICES ASSUME IsPrefix(q, Front(p)) PROVE IsPrefix(q, p) /\ q # p
  OBVIOUS
<1>1. /\ p \in Seq(STRING) /\ Len(p) \in Nat \ {0} /\ q \in Seq(STRING) /\ Len(q) \in Nat \ {0}
      /\ Front(p) = SubSeq(p, 1, Len(p) - 1) /\ Len(Front(p)) = Len(p) - 1
      /\ Front(p) \in Seq(STRING)
  BY PathParts, FrontPrefix
<1>2. Len(q) <= Len(p) - 1 /\ SubSeq(q, 1, Len(q)) = SubSeq(Front(p), 1, Len(q))
  BY <1>1 DEF IsPrefix
<1>3. SubSeq(Front(p), 1, Len(q)) = SubSeq(p, 1, Len(q))
  <2> DEFINE a == SubSeq(Front(p), 1, Len(q))
             b == SubSeq(p, 1, Len(q))
  <2>1. a \in Seq(STRING) /\ Len(a) = Len(q) /\ \A i \in 1 .. Len(q) : a[i] = Front(p)[i]
    BY <1>1, <1>2, SubSeqProperties
  <2>2. b \in Seq(STRING) /\ Len(b) = Len(q) /\ \A i \in 1 .. Len(q) : b[i] = p[i]
    BY <1>1, <1>2, SubSeqProperties
  <2>3. \A i \in 1 .. Len(q) : Front(p)[i] = p[i]
    BY <1>1, <1>2, SubSeqProperties
  <2> HIDE DEF a, b
  <2>4. a = b
    BY <2>1, <2>2, <2>3, SeqEqual
  <2> QED BY <2>4 DEF a, b
<1> QED BY <1>1, <1>2, <1>3 DEF IsPrefix

(* A prefix is the path itself or a prefix of its folder.                  *)
LEMMA PrefixCases ==
  ASSUME NEW p \in Paths, NEW q \in Paths, IsPrefix(q, p), q # p
  PROVE  Len(p) > 1 /\ IsPrefix(q, Front(p))
<1>1. /\ p \in Seq(STRING) /\ Len(p) \in Nat \ {0} /\ q \in Seq(STRING) /\ Len(q) \in Nat \ {0}
      /\ SubSeq(p, 1, Len(p)) = p /\ SubSeq(q, 1, Len(q)) = q
  BY PathParts
<1>2. Len(q) <= Len(p) /\ q = SubSeq(p, 1, Len(q))
  BY <1>1 DEF IsPrefix
<1>3. Len(q) <= Len(p) - 1 /\ Len(p) > 1
  BY <1>1, <1>2
<1>4. /\ Front(p) = SubSeq(p, 1, Len(p) - 1) /\ Len(Front(p)) = Len(p) - 1
      /\ Front(p) \in Seq(STRING)
  BY <1>1, <1>3, PathParts, FrontPrefix
<1>5. SubSeq(Front(p), 1, Len(q)) = SubSeq(p, 1, Len(q))
  <2> DEFINE a == SubSeq(Front(p), 1, Len(q))
             b == SubSeq(p, 1, Len(q))
  <2>1. a \in Seq(STRING) /\ Len(a) = Len(q) /\ \A i \in 1 .. Len(q) : a[i] = Front(p)[i]
    BY <1>1, <1>3, <1>4, SubSeqProperties
  <2>2. b \in Seq(STRING) /\ Len(b) = Len(q) /\ \A i \in 1 .. Len(q) : b[i] = p[i]
    BY <1>1, <1>2, SubSeqProperties
  <2>3. \A i \in 1 .. Len(q) : Front(p)[i] = p[i]
    BY <1>1, <1>3, <1>4, SubSeqProperties
  <2> HIDE DEF a, b
  <2>4. a = b
    BY <2>1, <2>2, <2>3, SeqEqual
  <2> QED BY <2>4 DEF a, b
<1> QED BY <1>1, <1>2, <1>3, <1>4, <1>5 DEF IsPrefix

(* In a directory the folder of what is there is a folder.                 *)
LEMMA FolderAbove ==
  ASSUME NEW dk, WellFormed(dk), NEW p \in Paths, dk[p] # "none", Len(p) > 1
  PROVE  Front(p) \in Paths /\ dk[Front(p)] = "dir"
BY FrontPrefix, PathParts DEF WellFormed, InFolder

(* What leads to a node are folders: by the shortest longer path.          *)
LEMMA Ancestors ==
  ASSUME NEW dk, WellFormed(dk), NEW p \in Paths, dk[p] # "none",
         NEW q \in Paths, IsPrefix(q, p), q # p
  PROVE  dk[q] = "dir"
<1> DEFINE Below == {x \in Paths : IsPrefix(q, x) /\ x # q /\ dk[x] # "none"}
           Sizes == {n \in Nat : \E x \in Below : Len(x) = n}
<1>1. p \in Below /\ Len(p) \in Sizes
  BY PathParts
<1>2. PICK n \in Sizes : \A m \in Sizes : ~(<< m, n >> \in OpToRel(<, Nat))
  <2>1. Sizes \subseteq Nat /\ Sizes # {}
    BY <1>1
  <2> HIDE DEF Sizes
  <2> QED BY <2>1, NatLessThanWellFounded, WFMin, Zenon
<1>3. PICK x \in Below : Len(x) = n
  OBVIOUS
<1>4. Len(x) > 1 /\ IsPrefix(q, Front(x))
  BY PrefixCases
<1>5. Front(x) \in Paths /\ dk[Front(x)] = "dir" /\ Len(Front(x)) = Len(x) - 1
  BY <1>4, FolderAbove, FrontPrefix
<1>6. Front(x) = q
  <2> SUFFICES ASSUME Front(x) # q PROVE FALSE
    OBVIOUS
  <2>1. Front(x) \in Below /\ Len(x) - 1 \in Sizes /\ n \in Nat
    BY <1>3, <1>4, <1>5, PathParts
  <2>2. << n - 1, n >> \in OpToRel(<, Nat)
    BY <1>3, <1>5, <2>1, PathParts DEF OpToRel
  <2> QED BY <1>2, <1>3, <2>1, <2>2
<1> QED BY <1>5, <1>6

(* Below nothing there is nothing.                                         *)
LEMMA NothingBelow ==
  ASSUME NEW dk, WellFormed(dk), NEW p \in Paths, NEW q \in Paths, IsPrefix(q, p),
         dk[q] = "none"
  PROVE  dk[p] = "none"
BY Ancestors

-----------------------------------------------------------------------------
(* Directories that users make.                                            *)

(* What users put into a directory.                                        *)
LEMMA ProperParts ==
  ASSUME NEW dk, Proper(dk)
  PROVE  /\ dk \in [Paths -> Node] /\ WellFormed(dk)
         /\ \A p \in Paths : dk[p] \in {"none", "dir"} \/ dk[p] \in Data
         /\ \A p \in Paths : dk[p] # "none" => Kind(dk[p]) \in Kinds[p]
BY DEF Proper, Node, FileData

(* What users write is a file's content, and no marker of the code's.      *)
LEMMA DataParts ==
  \A c \in Data : /\ c \in FileData /\ c \notin {"none", "dir"} /\ Kind(c) = "file"
                  /\ c # "EMPTY_FILE"
BY DataAssumption DEF FileData, Kind

(* A node and its kind tell the same.                                      *)
LEMMA KindParts ==
  ASSUME NEW dk, Proper(dk), NEW p \in Paths
  PROVE  /\ dk[p] = "none" <=> Kind(dk[p]) = "none"
         /\ dk[p] = "dir" <=> Kind(dk[p]) = "dir"
         /\ dk[p] \in FileData <=> Kind(dk[p]) = "file"
         /\ dk[p] \in FileData => dk[p] \in Data
         /\ dk[p] # "none" <=> dk[p] = "dir" \/ dk[p] \in FileData
BY ProperParts, DataAssumption DEF Kind, FileData

(* A name is a folder's everywhere or a file's everywhere.                 *)
LEMMA SameKind ==
  ASSUME Calm, NEW dk, Proper(dk), NEW dl, Proper(dl), NEW p \in Paths,
         dk[p] # "none", dl[p] # "none"
  PROVE  Kind(dk[p]) = Kind(dl[p])
<1>1. Kind(dk[p]) \in Kinds[p] /\ Kind(dl[p]) \in Kinds[p]
  BY ProperParts
<1>2. Kinds[p] \subseteq {"file", "dir"} /\ Kinds[p] # {"file", "dir"}
  BY DataAssumption DEF Calm
<1> QED BY <1>1, <1>2

(* A directory stays proper when a path is removed.                        *)
LEMMA RemoveProper ==
  ASSUME NEW dk, Proper(dk), NEW p \in Paths
  PROVE  Proper(RemoveTree(dk, p))
<1> DEFINE dl == RemoveTree(dk, p)
<1>1. /\ dl \in [Paths -> {"none", "dir"} \cup Data]
      /\ \A q \in Paths : dl[q] = IF IsPrefix(p, q) THEN "none" ELSE dk[q]
  BY DEF RemoveTree, Proper
<1>2. ASSUME NEW q \in Paths, dl[q] # "none" PROVE InFolder(dl, q)
  <2>1. dk[q] # "none" /\ ~IsPrefix(p, q)
    BY <1>1, <1>2
  <2>2. CASE Len(q) = 1
    BY <2>2 DEF InFolder
  <2>3. CASE Len(q) # 1
    <3>1. Len(q) > 1
      BY <2>3, PathSize
    <3>2. Front(q) \in Paths /\ dk[Front(q)] = "dir"
      BY <2>1, <3>1, FolderAbove DEF Proper
    <3>3. ~IsPrefix(p, Front(q))
      BY <2>1, <3>1, PrefixOfFront
    <3> QED BY <1>1, <3>2, <3>3 DEF InFolder
  <2> QED BY <2>2, <2>3
<1> HIDE DEF dl
<1>3. Proper(dl)
  BY <1>1, <1>2 DEF Proper, WellFormed
<1> QED BY <1>3 DEF dl

(* A node of the right kind in its folder.                                 *)
LEMMA PutProper ==
  ASSUME NEW dk, Proper(dk), NEW p \in Paths, NEW n \in {"dir"} \cup Data,
         Kind(n) \in Kinds[p], InFolder(dk, p), dk[p] = "dir" => n = "dir"
  PROVE  Proper([dk EXCEPT ![p] = n])
<1> DEFINE dl == [dk EXCEPT ![p] = n]
<1>1. /\ dl \in [Paths -> {"none", "dir"} \cup Data]
      /\ \A q \in Paths : dl[q] = IF p = q THEN n ELSE dk[q]
  BY DEF Proper
<1>2. ASSUME NEW q \in Paths, dl[q] # "none" PROVE InFolder(dl, q)
  <2>1. CASE Len(q) = 1
    BY <2>1 DEF InFolder
  <2>2. CASE Len(q) # 1
    <3>1. Len(q) > 1 /\ Front(q) \in Paths
      BY <2>2, PathSize
    <3>2. dk[Front(q)] = "dir"
      <4>1. CASE q = p
        BY <2>2, <4>1 DEF InFolder
      <4>2. CASE q # p
        BY <1>1, <1>2, <3>1, <4>2, FolderAbove DEF Proper
      <4> QED BY <4>1, <4>2
    <3> QED BY <1>1, <3>1, <3>2 DEF InFolder
  <2> QED BY <2>1, <2>2
<1> HIDE DEF dl
<1>3. \A q \in Paths : dl[q] = "none" \/ Kind(dl[q]) \in Kinds[q]
  BY <1>1 DEF Proper
<1>4. Proper(dl)
  BY <1>1, <1>2, <1>3 DEF Proper, WellFormed
<1> QED BY <1>4 DEF dl

(* What users do.                                                          *)
LEMMA UserProper ==
  ASSUME NEW dk, Proper(dk), NEW p \in Paths
  PROVE  /\ \A dl \in UserFile(dk, p) \cup UserFolder(dk, p) :
              Proper(dl) /\ \A q \in Paths : q # p => dl[q] = dk[q]
         /\ \A dl \in UserDelete(dk, p) :
              Proper(dl) /\ \A q \in Paths : dl[q] # "none" => dl[q] = dk[q]
<1>1. ASSUME NEW dl \in UserFile(dk, p)
      PROVE  Proper(dl) /\ \A q \in Paths : q # p => dl[q] = dk[q]
  <2>1. PICK c \in Data : dl = [dk EXCEPT ![p] = c]
    BY <1>1 DEF UserFile
  <2>2. "file" \in Kinds[p] /\ CanWrite(dk, p)
    BY <1>1 DEF UserFile
  <2>3. Proper(dl)
    BY <2>1, <2>2, PutProper, DataParts DEF CanWrite
  <2> QED BY <2>1, <2>3 DEF Proper
<1>2. ASSUME NEW dl \in UserFolder(dk, p)
      PROVE  Proper(dl) /\ \A q \in Paths : q # p => dl[q] = dk[q]
  <2>1. /\ dl = [dk EXCEPT ![p] = "dir"] /\ "dir" \in Kinds[p] /\ dk[p] = "none"
        /\ InFolder(dk, p)
    BY <1>2 DEF UserFolder
  <2>2. Kind("dir") = "dir"
    BY DataAssumption DEF Kind, FileData
  <2>3. Proper(dl)
    BY <2>1, <2>2, PutProper
  <2> QED BY <2>1, <2>3 DEF Proper
<1>3. ASSUME NEW dl \in UserDelete(dk, p)
      PROVE  Proper(dl) /\ \A q \in Paths : dl[q] # "none" => dl[q] = dk[q]
  <2>1. dl = RemoveTree(dk, p)
    BY <1>3 DEF UserDelete
  <2> QED BY <2>1, RemoveProper DEF RemoveTree
<1> QED BY <1>1, <1>2, <1>3

-----------------------------------------------------------------------------
(* The merge of two directories.                                           *)

(* Both hosts' directories have grown out of ag.                           *)
Grown(ag, be, to) ==
  /\ Proper(ag) /\ Noticed(ag, be["server"], to)
  /\ \A h \in Hosts : Proper(be[h])

(* The three cases of a merge.                                             *)
LEMMA MergeCases ==
  ASSUME NEW ag, NEW be, NEW to, NEW p \in Paths
  PROVE  LET M == Merge(ag, be, to) IN
         /\ DeletedAbove(ag, be, p) => M[p] = "none"
         /\ ~DeletedAbove(ag, be, p) /\ Heard(ag, be, to, p) => M[p] = be["server"][p]
         /\ ~DeletedAbove(ag, be, p) /\ ~Heard(ag, be, to, p) => M[p] = be["client"][p]
BY DEF Merge

(* What a host has deleted is deleted at the path itself.                  *)
LEMMA DeletedSelf ==
  ASSUME NEW ag, NEW be, NEW p \in Paths, NEW h \in Hosts, ag[p] # "none",
         be[h][p] = "none"
  PROVE  DeletedAbove(ag, be, p)
BY PrefixSelf DEF DeletedAbove

(* The client hears only of what is there at the server.                   *)
LEMMA HeardThere ==
  ASSUME NEW ag, NEW be, NEW to, NEW p \in Paths, Heard(ag, be, to, p)
  PROVE  be["server"][p] # "none"
BY DataAssumption DEF Heard, FileData

(* Users' directories merge into one that users could have made.           *)
LEMMA MergeProper ==
  ASSUME Calm, NEW ag, NEW be, NEW to, Grown(ag, be, to)
  PROVE  Proper(Merge(ag, be, to))
<1> DEFINE M == Merge(ag, be, to)
<1>1. "server" \in Hosts /\ "client" \in Hosts
  BY DEF Hosts
<1>2. ASSUME NEW p \in Paths
      PROVE  /\ M[p] \in {"none", "dir"} \cup Data
             /\ M[p] = "none" \/ Kind(M[p]) \in Kinds[p]
  <2>1. M[p] = "none" \/ \E h \in Hosts : M[p] = be[h][p]
    BY <1>1, MergeCases
  <2> HIDE DEF M
  <2> QED BY <2>1 DEF Grown, Proper
<1>3. ASSUME NEW p \in Paths, M[p] # "none", Len(p) # 1 PROVE M[Front(p)] = "dir"
  <2>1. Len(p) > 1 /\ Front(p) \in Paths
    BY <1>3, PathSize
  <2>2. ~DeletedAbove(ag, be, p)
    BY <1>3, MergeCases
  <2>3. ~DeletedAbove(ag, be, Front(p))
    BY <2>1, <2>2, PrefixOfFront DEF DeletedAbove
  <2>4. PICK h \in Hosts : M[p] = be[h][p] /\ (h = "server" <=> Heard(ag, be, to, p))
    BY <1>1, <2>2, MergeCases
  <2>5. be[h][Front(p)] = "dir"
    BY <1>3, <2>1, <2>4, FolderAbove DEF Grown, Proper
  <2>6. ASSUME NEW k \in Hosts, be[k][Front(p)] # "none" PROVE be[k][Front(p)] = "dir"
    BY <2>1, <2>5, <2>6, SameKind, KindParts DEF Grown
  <2>7. CASE Heard(ag, be, to, Front(p))
    BY <1>1, <2>1, <2>3, <2>6, <2>7, HeardThere, MergeCases
  <2>8. CASE ~Heard(ag, be, to, Front(p))
    <3>1. be["client"][Front(p)] # "none"
      <4>1. CASE h = "client"
        BY <2>5, <4>1
      <4>2. CASE h = "server"
        <5>1. ag[Front(p)] # "none"
          BY <2>5, <2>8, <4>2 DEF Heard
        <5> QED BY <1>1, <2>1, <2>3, <5>1, DeletedSelf
      <4> QED BY <4>1, <4>2 DEF Hosts
    <3> QED BY <1>1, <2>1, <2>3, <2>6, <2>8, <3>1, MergeCases
  <2> QED BY <2>7, <2>8
<1>4. M \in [Paths -> {"none", "dir"} \cup Data]
  <2>1. M = [p \in Paths |-> M[p]]
    BY DEF Merge
  <2> HIDE DEF M
  <2> QED BY <1>2, <2>1
<1> HIDE DEF M
<1>5. Proper(M)
  BY <1>2, <1>3, <1>4 DEF Proper, WellFormed, InFolder
<1> QED BY <1>5 DEF M

(* What the client lacks of the merge the server has to tell it.           *)
LEMMA ClientLacks ==
  ASSUME Calm, NEW ag, NEW be, NEW to, Grown(ag, be, to), NEW p \in Paths,
         be["client"][p] # Merge(ag, be, to)[p]
  PROVE  \/ ag[p] # "none" /\ p \in to /\ be["server"][p] \in FileData
         \/ \E q \in Paths : IsPrefix(q, p) /\ ag[q] # "none" /\ be["server"][q] = "none"
         \/ ag[p] = "none" /\ be["server"][p] # "none"
<1>1. CASE DeletedAbove(ag, be, p)
  <2>1. PICK q \in Paths, h \in Hosts :
          IsPrefix(q, p) /\ ag[q] # "none" /\ be[h][q] = "none"
    BY <1>1 DEF DeletedAbove
  <2>2. Merge(ag, be, to)[p] = "none"
    BY <1>1, MergeCases
  <2>3. h # "client"
    BY <2>1, <2>2, NothingBelow DEF Grown, Proper
  <2> QED BY <2>1, <2>3 DEF Hosts
<1>2. CASE ~DeletedAbove(ag, be, p)
  <2>1. Heard(ag, be, to, p)
    BY <1>2, MergeCases
  <2> QED BY <2>1, HeardThere DEF Heard
<1> QED BY <1>1, <1>2

(* What the server tells is so in the merge, or the client has deleted it  *)
(* or what it was in.                                                      *)
LEMMA ServerTells ==
  ASSUME Calm, NEW ag, NEW be, NEW to, Grown(ag, be, to), NEW p \in Paths
  PROVE  LET M == Merge(ag, be, to)
             W == be["server"]
             R == be["client"]
         IN  /\ ag[p] # "none" /\ p \in to /\ W[p] \in FileData =>
                  M[p] = W[p] \/ Lost(M, R, p)
             /\ ag[p] # "none" /\ W[p] = "none" => M[p] = "none"
             /\ ag[p] = "none" /\ W[p] # "none" =>
                  \/ M[p] = W[p]
                  \/ \E q \in Paths : IsPrefix(q, p) /\ q # p /\ Lost(M, R, q)
             /\ Heard(ag, be, to, p) /\ ag[p] # "none" /\ R[p] = "none" => Lost(M, R, p)
<1> DEFINE M == Merge(ag, be, to)
           W == be["server"]
           R == be["client"]
<1>1. "server" \in Hosts /\ "client" \in Hosts
  BY DEF Hosts
<1>2. ASSUME W[p] # "none", Heard(ag, be, to, p), M[p] # W[p]
      PROVE  /\ M[p] = "none"
             /\ \E q \in Paths : IsPrefix(q, p) /\ ag[q] # "none" /\ Lost(M, R, q)
  <2>1. DeletedAbove(ag, be, p)
    BY <1>2, MergeCases
  <2>2. PICK q \in Paths, h \in Hosts :
          IsPrefix(q, p) /\ ag[q] # "none" /\ be[h][q] = "none"
    BY <2>1 DEF DeletedAbove
  <2>3. h # "server"
    BY <1>2, <2>2, NothingBelow DEF Grown, Proper
  <2>4. be["client"][q] = "none"
    BY <2>2, <2>3 DEF Hosts
  <2>5. M[q] = "none"
    BY <1>1, <2>2, <2>4, DeletedSelf, MergeCases
  <2> QED BY <2>1, <2>2, <2>4, <2>5, MergeCases DEF Lost
<1>3. ASSUME ag[p] # "none", p \in to, W[p] \in FileData
      PROVE  M[p] = W[p] \/ Lost(M, R, p)
  <2>1. W[p] # "none" /\ Heard(ag, be, to, p)
    BY <1>3, DataAssumption DEF Heard, FileData
  <2>2. ASSUME M[p] # W[p] PROVE Lost(M, R, p)
    <3>1. PICK q \in Paths : IsPrefix(q, p) /\ Lost(M, R, q)
      BY <1>2, <2>1, <2>2
    <3>2. R[p] = "none"
      BY <1>1, <3>1, NothingBelow DEF Grown, Proper, Lost
    <3> QED BY <1>2, <2>1, <2>2, <3>2 DEF Lost
  <2> QED BY <2>2
<1>4. ASSUME ag[p] # "none", W[p] = "none" PROVE M[p] = "none"
  BY <1>1, <1>4, DeletedSelf, MergeCases
<1>5. ASSUME ag[p] = "none", W[p] # "none", M[p] # W[p]
      PROVE  \E q \in Paths : IsPrefix(q, p) /\ q # p /\ Lost(M, R, q)
  <2>1. Heard(ag, be, to, p)
    BY <1>5 DEF Heard
  <2> QED BY <1>2, <1>5, <2>1
<1>6. ASSUME ag[p] # "none", R[p] = "none" PROVE Lost(M, R, p)
  BY <1>1, <1>6, DeletedSelf, MergeCases DEF Lost
<1> QED BY <1>3, <1>4, <1>5, <1>6

(* What the server lacks of the merge the client has to tell it.           *)
LEMMA ServerLacks ==
  ASSUME Calm, NEW ag, NEW be, NEW to, Grown(ag, be, to), NEW p \in Paths, NEW st,
         Noticed(ag, be["client"], st), "client" \notin Editors => be["client"] = ag,
         be["server"][p] # Merge(ag, be, to)[p]
  PROVE  LET M == Merge(ag, be, to) IN
         \/ "client" \in Editors /\ ag[p] # "none" /\ p \in st /\ M[p] \in FileData
         \/ \E q \in Paths : /\ IsPrefix(q, p) /\ ag[q] # "none" /\ M[q] = "none"
                             /\ "client" \in Editors
         \/ ag[p] = "none" /\ M[p] # "none"
<1> DEFINE M == Merge(ag, be, to)
           W == be["server"]
           R == be["client"]
<1>1. "server" \in Hosts /\ "client" \in Hosts /\ Proper(W) /\ Proper(R) /\ Proper(ag)
  BY DEF Hosts, Grown
<1>2. CASE DeletedAbove(ag, be, p)
  <2>1. PICK q \in Paths, h \in Hosts :
          IsPrefix(q, p) /\ ag[q] # "none" /\ be[h][q] = "none"
    BY <1>2 DEF DeletedAbove
  <2>2. M[p] = "none"
    BY <1>2, MergeCases
  <2>3. h # "server"
    BY <1>1, <2>1, <2>2, NothingBelow DEF Proper
  <2>4. R[q] = "none" /\ M[q] = "none"
    BY <1>1, <2>1, <2>3, DeletedSelf, MergeCases DEF Hosts
  <2> QED BY <2>1, <2>4
<1>3. CASE ~DeletedAbove(ag, be, p)
  <2>1. ~Heard(ag, be, to, p) /\ M[p] = R[p]
    BY <1>3, MergeCases
  <2>2. CASE ag[p] = "none"
    <3>1. W[p] = "none"
      BY <2>1, <2>2 DEF Heard
    <3> QED BY <2>2, <3>1
  <2>3. CASE ag[p] # "none"
    <3>1. W[p] # "none" /\ R[p] # "none"
      BY <1>1, <1>3, <2>3, DeletedSelf
    <3>2. Kind(W[p]) = Kind(R[p]) /\ W[p] # R[p]
      BY <1>1, <2>1, <3>1, SameKind
    <3>3. W[p] \in FileData /\ R[p] \in FileData
      BY <1>1, <3>1, <3>2, KindParts
    <3>4. W[p] = ag[p]
      BY <2>1, <2>3, <3>1, <3>3 DEF Grown, Noticed, Heard
    <3>5. p \in st
      BY <2>3, <3>1, <3>2, <3>4 DEF Noticed
    <3>6. "client" \in Editors
      BY <3>2, <3>4
    <3> QED BY <2>1, <2>3, <3>3, <3>5, <3>6
  <2> QED BY <2>2, <2>3
<1> QED BY <1>2, <1>3

(* What both had and the merge has the server has.                         *)
LEMMA MergeKept ==
  ASSUME NEW ag, NEW be, NEW to, NEW p \in Paths, NEW h \in Hosts,
         ag[p] # "none", Merge(ag, be, to)[p] # "none"
  PROVE  be[h][p] # "none"
BY DeletedSelf, MergeCases

-----------------------------------------------------------------------------
(* Labels of the messages on their way.                                    *)

(* The stages of the messages rise from the first to the last.             *)
LEMMA LabelParts ==
  ASSUME NEW s \in Seq(Message), NEW f, Labelling(f, s)
  PROVE  /\ Len(s) \in Nat
         /\ \A i \in 1 .. Len(s) + 1 : f[i] \in 0 .. 7 /\ f[i] <= f[Len(s) + 1] /\ f[1] <= f[i]
<1>1. Len(s) \in Nat
  OBVIOUS
<1> QED BY <1>1 DEF Labelling

(* A message that is sent is labelled with the stage it leads to.          *)
LEMMA LabelAppend ==
  ASSUME NEW s \in Seq(Message), NEW f, Labelling(f, s), NEW m \in Message,
         NEW c \in 0 .. 7, Says(f[Len(s) + 1], m.t, c)
  PROVE  \E g : /\ Labelling(g, Append(s, m))
                /\ g[Len(s) + 2] = c
                /\ \A i \in 1 .. Len(s) + 1 : g[i] = f[i]
<1> DEFINE g == [i \in 1 .. Len(s) + 2 |-> IF i = Len(s) + 2 THEN c ELSE f[i]]
           s2 == Append(s, m)
<1>1. f \in [1 .. Len(s) + 1 -> 0 .. 7]
  BY DEF Labelling
<1>2. Len(s) \in Nat /\ Len(s2) = Len(s) + 1
  BY AppendProperties
<1>3. g \in [1 .. Len(s2) + 1 -> 0 .. 7]
  BY <1>1, <1>2
<1>4. f[Len(s) + 1] \in 0 .. 7 /\ f[Len(s) + 1] <= c
  BY <1>1, <1>2 DEF Says
<1>5. ASSUME NEW i \in 1 .. Len(s2) PROVE Says(g[i], s2[i].t, g[i + 1])
  <2>1. CASE i = Len(s) + 1
    <3>1. s2[i] = m /\ g[i] = f[i] /\ g[i + 1] = c
      BY <1>1, <1>2, <2>1, AppendProperties
    <3> QED BY <2>1, <3>1
  <2>2. CASE i \in 1 .. Len(s)
    <3>1. s2[i] = s[i] /\ g[i] = f[i] /\ g[i + 1] = f[i + 1]
      BY <1>2, <2>2, AppendProperties
    <3> QED BY <1>1, <2>2, <3>1 DEF Labelling
  <2> QED BY <1>2, <2>1, <2>2
<1>6. ASSUME NEW i \in 1 .. Len(s2) + 1, NEW j \in 1 .. Len(s2) + 1, i <= j
      PROVE  g[i] <= g[j]
  <2>1. \A k \in 1 .. Len(s) + 1 : f[k] <= f[Len(s) + 1] /\ f[k] \in 0 .. 7
    BY <1>1, <1>2 DEF Labelling
  <2>2. CASE j \in 1 .. Len(s) + 1
    <3>1. i \in 1 .. Len(s) + 1 /\ g[i] = f[i] /\ g[j] = f[j]
      BY <1>2, <1>6, <2>2
    <3> QED BY <1>1, <1>6, <2>2, <3>1 DEF Labelling
  <2>3. CASE j = Len(s) + 2
    <3>1. g[j] = c
      BY <1>2, <2>3
    <3>2. g[i] = c \/ (g[i] \in 0 .. 7 /\ g[i] <= f[Len(s) + 1])
      BY <1>2, <1>6, <2>1
    <3> QED BY <1>4, <3>1, <3>2
  <2> QED BY <1>2, <2>2, <2>3
<1>7. g[Len(s) + 2] = c /\ \A i \in 1 .. Len(s) + 1 : g[i] = f[i]
  BY <1>1, <1>2
<1> HIDE DEF g, s2
<1>8. Labelling(g, s2)
  BY <1>3, <1>5, <1>6 DEF Labelling
<1> QED BY <1>7, <1>8 DEF s2

(* When a message is taken the labels of the others stay.                  *)
LEMMA LabelTail ==
  ASSUME NEW s \in Seq(Message), s # << >>, NEW f, Labelling(f, s)
  PROVE  \E g : /\ Labelling(g, Tail(s)) /\ Says(f[1], Head(s).t, g[1])
                /\ g[Len(Tail(s)) + 1] = f[Len(s) + 1]
                /\ \A i \in 1 .. Len(Tail(s)) : g[i] = f[i + 1]
<1> DEFINE g == [i \in 1 .. Len(s) |-> f[i + 1]]
           s2 == Tail(s)
<1>1. f \in [1 .. Len(s) + 1 -> 0 .. 7]
  BY DEF Labelling
<1>2. /\ Len(s) \in Nat \ {0} /\ s2 \in Seq(Message) /\ Len(s2) = Len(s) - 1
      /\ Head(s) = s[1]
      /\ \A i \in 1 .. Len(s2) : s2[i] = s[i + 1]
  BY HeadTailProperties
<1>3. g \in [1 .. Len(s2) + 1 -> 0 .. 7]
  BY <1>1, <1>2
<1>4. \A i \in 1 .. Len(s2) : Says(g[i], s2[i].t, g[i + 1])
  BY <1>1, <1>2 DEF Labelling
<1>5. \A i, j \in 1 .. Len(s2) + 1 : i <= j => g[i] <= g[j]
  BY <1>1, <1>2 DEF Labelling
<1>6. g[1] = f[2] /\ g[Len(s2) + 1] = f[Len(s) + 1]
      /\ \A i \in 1 .. Len(s2) : g[i] = f[i + 1]
  BY <1>1, <1>2
<1>7. Says(f[1], Head(s).t, f[2])
  BY <1>1, <1>2 DEF Labelling
<1> HIDE DEF g, s2
<1>8. Labelling(g, s2)
  BY <1>3, <1>4, <1>5 DEF Labelling
<1> QED BY <1>6, <1>7, <1>8 DEF s2

(* What is on its way stays on its way when something more is sent.        *)
LEMMA PendingAppend ==
  ASSUME NEW s \in Seq(Message), NEW m \in Message, NEW f, NEW g,
         \A i \in 1 .. Len(s) + 1 : g[i] = f[i]
  PROVE  /\ \A a, p : Pending(s, f, a, p) => Pending(Append(s, m), g, a, p)
         /\ m.t \in NodeTypes => Pending(Append(s, m), g, f[Len(s) + 1], m.p)
<1> DEFINE s2 == Append(s, m)
<1>1. /\ Len(s) \in Nat /\ Len(s2) = Len(s) + 1 /\ s2[Len(s) + 1] = m
      /\ \A i \in 1 .. Len(s) : s2[i] = s[i]
  BY AppendProperties
<1> HIDE DEF s2
<1>2. ASSUME NEW a, NEW p, Pending(s, f, a, p) PROVE Pending(s2, g, a, p)
  <2>1. PICK i \in 1 .. Len(s) : About(s, i) /\ f[i] = a /\ s[i].p = p
    BY <1>2 DEF Pending, About
  <2>2. i \in 1 .. Len(s2) /\ i \in 1 .. Len(s) + 1 /\ s2[i] = s[i]
    BY <1>1
  <2> QED BY <2>1, <2>2 DEF Pending, About
<1>3. ASSUME m.t \in NodeTypes PROVE Pending(s2, g, f[Len(s) + 1], m.p)
  <2>1. Len(s) + 1 \in 1 .. Len(s2)
    BY <1>1
  <2> QED BY <1>1, <1>3, <2>1 DEF Pending, About
<1> QED BY <1>2, <1>3 DEF s2

(* ... and when another message is taken.                                  *)
LEMMA PendingTail ==
  ASSUME NEW s \in Seq(Message), s # << >>, NEW f, NEW g,
         \A i \in 1 .. Len(Tail(s)) : g[i] = f[i + 1]
  PROVE  \A a, p : Pending(s, f, a, p) =>
           \/ Pending(Tail(s), g, a, p)
           \/ Head(s).t \in NodeTypes /\ f[1] = a /\ Head(s).p = p
<1> DEFINE s2 == Tail(s)
<1>1. /\ Len(s) \in Nat \ {0} /\ Len(s2) = Len(s) - 1 /\ Head(s) = s[1]
      /\ \A i \in 1 .. Len(s2) : s2[i] = s[i + 1]
  BY HeadTailProperties
<1> HIDE DEF s2
<1>2. ASSUME NEW a, NEW p, Pending(s, f, a, p)
      PROVE  \/ Pending(s2, g, a, p)
             \/ Head(s).t \in NodeTypes /\ f[1] = a /\ Head(s).p = p
  <2>1. PICK i \in 1 .. Len(s) : About(s, i) /\ f[i] = a /\ s[i].p = p
    BY <1>2 DEF Pending, About
  <2>2. CASE i = 1
    BY <1>1, <2>1, <2>2 DEF About
  <2>3. CASE i # 1
    <3>1. i - 1 \in 1 .. Len(s2) /\ (i - 1) + 1 = i
      BY <1>1, <2>3
    <3>2. s2[i - 1] = s[i] /\ g[i - 1] = f[i]
      BY <1>1, <3>1 DEF s2
    <3> QED BY <2>1, <3>1, <3>2 DEF Pending, About
  <2> QED BY <2>2, <2>3
<1> QED BY <1>2 DEF s2

-----------------------------------------------------------------------------
(* The writer goes on with its turn.                                       *)

(* Without saying anything.                                                *)
LEMMA NothingSaid ==
  ASSUME NEW w \in Hosts, NEW s \in Seq(Message), NEW f, NEW W, NEW M, NEW R, NEW A, NEW X,
         UnderWay(w, s, f, W, M, R, A, X), X \subseteq Paths,
         UNCHANGED << disk, mode, pc >>,
         todo'[w] \subseteq todo[w],
         \A p \in Paths : /\ DueUpdate(w, p) => DueUpdate(w, p)'
                          /\ DueDelete(w, p) => DueDelete(w, p)'
                          /\ DueCreate(w, p) => DueCreate(w, p)'
  PROVE  UnderWay(w, s, f, W, M, R, A, X)'
<1>1. /\ Labelling(f, s) /\ Reads(Peer(w), f[1])' /\ f[1] <= 6
      /\ f[Len(s) + 1] = Stage(w, pc'[w])
      /\ \A i \in 1 .. Len(s) : About(s, i) => True(W, M, R, A, f[i], s[i])
  BY DEF UnderWay, Reads
<1>2. Sorted(w, s, f)'
  BY DEF UnderWay, Sorted
<1>3. ASSUME NEW p \in Paths, Owed(w, s, f, p) PROVE Owed(w, s, f, p)'
  BY <1>3 DEF Owed
<1>4. \A p \in Paths : \/ disk'[Peer(w)][p] = M[p]
                       \/ disk'[Peer(w)][p] = R[p] /\ Owed(w, s, f, p)'
  BY <1>3 DEF UnderWay
<1>5. \A p \in X : DueUpdate(w, p)' \/ Pending(s, f, 0, p)
  BY DEF UnderWay
<1> QED BY <1>1, <1>2, <1>4, <1>5 DEF UnderWay

(* Saying the next thing.                                                  *)
LEMMA OneSaid ==
  ASSUME NEW w \in Hosts, NEW s \in Seq(Message), NEW f, NEW W, NEW M, NEW R, NEW A, NEW X,
         UnderWay(w, s, f, W, M, R, A, X), X \subseteq Paths,
         NEW m \in Message, NEW a, a = Stage(w, pc[w]),
         UNCHANGED << disk, mode >>, pc'[Peer(w)] = pc[Peer(w)],
         Says(a, m.t, Stage(w, pc'[w])),
         m.t \in NodeTypes => True(W, M, R, A, a, m),
         m.t \in NodeTypes /\ a = 4 =>
           pc[w] = "create" /\ m.p \in todo[w] /\ Front(m.p) \notin todo[w],
         pc[w] \in {"create", "startCreate"} \/ pc'[w] # "create",
         pc[w] = "create" => todo'[w] \subseteq todo[w],
         \A p \in Paths :
           LET Now(b) == m.t \in NodeTypes /\ a = b /\ m.p = p
           IN  /\ DueUpdate(w, p) => DueUpdate(w, p)' \/ Now(0)
               /\ DueDelete(w, p) => DueDelete(w, p)' \/ Now(2)
               /\ DueCreate(w, p) => DueCreate(w, p)' \/ Now(4)
  PROVE  \E g : UnderWay(w, Append(s, m), g, W, M, R, A, X)'
<1>1. /\ Labelling(f, s) /\ Reads(Peer(w), f[1]) /\ f[1] <= 6 /\ f[Len(s) + 1] = a
      /\ Sorted(w, s, f)
  BY DEF UnderWay
<1>2. PICK c \in 0 .. 7 : c = Stage(w, pc'[w])
  BY StageTyped
<1>3. PICK g : /\ Labelling(g, Append(s, m)) /\ g[Len(s) + 2] = c
               /\ \A i \in 1 .. Len(s) + 1 : g[i] = f[i]
  BY <1>1, <1>2, LabelAppend
<1> DEFINE s2 == Append(s, m)
<1>4. /\ Len(s) \in Nat /\ Len(s2) = Len(s) + 1 /\ s2[Len(s) + 1] = m
      /\ \A i \in 1 .. Len(s) : s2[i] = s[i]
  BY AppendProperties
<1>5. /\ \A b, p : Pending(s, f, b, p) => Pending(s2, g, b, p)
      /\ m.t \in NodeTypes => Pending(s2, g, a, m.p)
  BY <1>1, <1>3, PendingAppend
<1>6. Labelling(g, s2)
  BY <1>3
<1> HIDE DEF s2
<1>7. g[1] = f[1] /\ g[Len(s2) + 1] = Stage(w, pc'[w]) /\ Reads(Peer(w), g[1])' /\ g[1] <= 6
  BY <1>1, <1>2, <1>3, <1>4 DEF Reads
<1>8. ASSUME NEW i \in 1 .. Len(s2), About(s2, i) PROVE True(W, M, R, A, g[i], s2[i])
  <2>1. CASE i = Len(s) + 1
    <3>1. s2[i] = m /\ g[i] = a
      BY <1>1, <1>3, <1>4, <2>1
    <3> QED BY <1>8, <3>1 DEF About
  <2>2. CASE i \in 1 .. Len(s)
    <3>1. s2[i] = s[i] /\ g[i] = f[i] /\ About(s, i)
      BY <1>3, <1>4, <1>8, <2>2 DEF About
    <3> QED BY <2>2, <3>1 DEF UnderWay
  <2> QED BY <1>4, <2>1, <2>2
<1>9. m.t \in NodeTypes => a \in {0, 2, 4}
  BY DEF Says, NodeTypes
<1>10. ASSUME NEW i \in 1 .. Len(s2), About(s2, i), g[i] = 4
       PROVE  /\ pc'[w] = "create" => Front(s2[i].p) \notin todo'[w]
              /\ \A j \in 1 .. Len(s2) : j > i /\ About(s2, j) => s2[j].p # Front(s2[i].p)
  <2>1. CASE i = Len(s) + 1
    <3>1. s2[i] = m /\ a = 4 /\ m.t \in NodeTypes
      BY <1>1, <1>3, <1>4, <1>10, <2>1 DEF About
    <3>2. Front(m.p) \notin todo'[w]
      BY <3>1
    <3>3. \A j \in 1 .. Len(s2) : ~(j > i)
      BY <1>4, <2>1
    <3> QED BY <3>1, <3>2, <3>3
  <2>2. CASE i \in 1 .. Len(s)
    <3>1. s2[i] = s[i] /\ About(s, i) /\ f[i] = 4
      BY <1>3, <1>4, <1>10, <2>2 DEF About
    <3>2. 4 <= a /\ a \in 0 .. 7
      BY <1>1, <1>4, <2>2, <3>1, LabelParts
    <3>3. /\ pc[w] = "create" => Front(s[i].p) \notin todo[w]
          /\ \A j \in 1 .. Len(s) : j > i /\ About(s, j) => s[j].p # Front(s[i].p)
      BY <1>1, <2>2, <3>1 DEF Sorted
    <3>4. pc[w] # "startCreate"
      BY <3>2 DEF Stage
    <3>5. ASSUME NEW j \in 1 .. Len(s2), j > i, About(s2, j) PROVE s2[j].p # Front(s[i].p)
      <4>1. CASE j = Len(s) + 1
        <5>1. s2[j] = m /\ m.t \in NodeTypes
          BY <1>4, <3>5, <4>1 DEF About
        <5>2. a = 4
          BY <1>9, <3>2, <5>1
        <5> QED BY <3>3, <5>1, <5>2
      <4>2. CASE j \in 1 .. Len(s)
        <5>1. s2[j] = s[j] /\ About(s, j)
          BY <1>4, <3>5, <4>2 DEF About
        <5> QED BY <3>3, <3>5, <4>2, <5>1
      <4> QED BY <1>4, <4>1, <4>2
    <3> QED BY <3>1, <3>3, <3>4, <3>5
  <2> QED BY <1>4, <2>1, <2>2
<1>11. Sorted(w, s2, g)'
  BY <1>10 DEF Sorted
<1>12. ASSUME NEW p \in Paths
       PROVE  /\ DueUpdate(w, p) => DueUpdate(w, p)' \/ Pending(s2, g, 0, p)
              /\ DueDelete(w, p) => DueDelete(w, p)' \/ Pending(s2, g, 2, p)
              /\ DueCreate(w, p) => DueCreate(w, p)' \/ Pending(s2, g, 4, p)
  BY <1>5
<1>13. ASSUME NEW p \in Paths, Owed(w, s, f, p) PROVE Owed(w, s2, g, p)'
  BY <1>5, <1>12, <1>13 DEF Owed
<1>14. \A p \in Paths : \/ disk'[Peer(w)][p] = M[p]
                        \/ disk'[Peer(w)][p] = R[p] /\ Owed(w, s2, g, p)'
  BY <1>13 DEF UnderWay
<1>15. \A p \in X : DueUpdate(w, p)' \/ Pending(s2, g, 0, p)
  BY <1>5, <1>12 DEF UnderWay
<1>16. UnderWay(w, s2, g, W, M, R, A, X)'
  BY <1>6, <1>7, <1>8, <1>11, <1>14, <1>15 DEF UnderWay
<1> QED BY <1>16 DEF s2

(* A writer that tells what is so keeps to its half of a round.            *)
LEMMA WalkHalf ==
  ASSUME Calm, TypeOK, NEW w \in Hosts, NEW W, NEW M, NEW R, NEW A, NEW X,
         Proper(W), X \subseteq Paths,
         Half(w, W, M, R, A, X), Honest(w, W, M, R, A), Walk(w), pc'[w] # "exited",
         pc["server"] # "again"
  PROVE  Half(w, W, M, R, A, X)'
<1>1. /\ Peer(w) \in Hosts /\ Peer(w) # w
      /\ pc \in [Hosts -> Labels] /\ chan \in [Hosts -> Seq(Message)]
      /\ todo \in [Hosts -> SUBSET Paths] /\ new \in [Hosts -> [Paths -> Kinded]]
      /\ stale \in [Hosts -> SUBSET Paths] /\ tree \in [Hosts -> [Paths -> Kinded]]
  BY TwoHosts DEF TypeOK
<1>2. PICK s \in Seq(Message) : s = chan[Peer(w)]
  BY <1>1
<1>3. PICK f : UnderWay(w, s, f, W, M, R, A, X)
  BY <1>2 DEF Half
<1>4. disk[w] = W /\ Scanned(w)
  BY DEF Half
<1>5. PICK a : a = Stage(w, pc[w])
  OBVIOUS
<1>6. \A p \in Paths : /\ W[p] = "none" <=> Kind(W[p]) = "none"
                       /\ W[p] = "dir" <=> Kind(W[p]) = "dir"
                       /\ W[p] \in FileData <=> Kind(W[p]) = "file"
  BY KindParts
<1>7. ASSUME pc[w] \in {"startDelete", "delete", "startCreate", "create"}
      PROVE  /\ Deleted(w) = {p \in Paths : tree[w][p] # "none" /\ W[p] = "none"}
             /\ Created(w) = {p \in Paths : tree[w][p] = "none" /\ W[p] # "none"}
  <2>1. \A p \in Paths : new[w][p] = Kind(W[p])
    BY <1>4, <1>7 DEF Scanned, Writing
  <2> QED BY <1>6, <2>1 DEF Deleted, Created
(* The action sends m, and goes to l.                                      *)
<1>8. ASSUME NEW m \in Message, Send(w, m), UNCHANGED << disk, mode >>,
             NEW l \in Sending \cup {"recv"}, pc' = [pc EXCEPT ![w] = l],
             Says(a, m.t, Stage(w, l)),
             m.t \in NodeTypes => True(W, M, R, A, a, m),
             m.t \in NodeTypes /\ a = 4 =>
               pc[w] = "create" /\ m.p \in todo[w] /\ Front(m.p) \notin todo[w],
             pc[w] \in {"create", "startCreate"} \/ l # "create",
             pc[w] = "create" => todo'[w] \subseteq todo[w],
             \A p \in Paths :
               LET Now(b) == m.t \in NodeTypes /\ a = b /\ m.p = p
               IN  /\ DueUpdate(w, p) => DueUpdate(w, p)' \/ Now(0)
                   /\ DueDelete(w, p) => DueDelete(w, p)' \/ Now(2)
                   /\ DueCreate(w, p) => DueCreate(w, p)' \/ Now(4),
             Scanned(w)'
      PROVE  Half(w, W, M, R, A, X)'
  <2>1. chan'[Peer(w)] = Append(s, m) /\ disk'[w] = W
    BY <1>1, <1>2, <1>4, <1>8 DEF Send
  <2>2. pc'[w] = l /\ pc'[Peer(w)] = pc[Peer(w)]
    BY <1>1, <1>8
  <2>3. \E g : UnderWay(w, Append(s, m), g, W, M, R, A, X)'
    BY <1>3, <1>5, <1>8, <2>2, OneSaid
  <2>4. \E g : UnderWay(w, chan[Peer(w)], g, W, M, R, A, X)'
    BY <2>1, <2>3 DEF UnderWay
  <2> QED BY <1>8, <2>1, <2>2, <2>4 DEF Half
<1>9. ASSUME NEW p \in Paths, Visit(w, p) \/ Miss(w, p) PROVE Half(w, W, M, R, A, X)'
  <2>1. /\ pc[w] = "scan" /\ InWalk(w, p) /\ UNCHANGED << disk, tree, chan, mode, pc >>
        /\ todo'[w] = todo[w] \ {p}
    BY <1>1, <1>9 DEF Visit, Miss, Record, Walked
  <2>2. \A q \in Paths : IF q \in todo[w]
                         THEN new[w][q] = "none"
                         ELSE new[w][q] = Kind(W[q]) /\ Front(q) \notin todo[w]
    BY <1>4, <2>1 DEF Scanned
  <2>3. /\ ~Changed(w, p) /\ new'[w][p] = Kind(W[p])
        /\ \A q \in Paths : q # p =>
             new'[w][q] = new[w][q] /\ (q \in stale'[w] <=> q \in stale[w])
    <3>1. CASE Visit(w, p)
      BY <1>1, <1>4, <3>1 DEF Visit, Record
    <3>2. CASE Miss(w, p)
      <4>1. ~Seen(w, p) /\ UNCHANGED << new, stale >>
        BY <3>2 DEF Miss
      <4>2. W[p] = "none"
        <5> SUFFICES ASSUME W[p] # "none" PROVE FALSE
          OBVIOUS
        <5>1. ~InFolder(new[w], p)
          BY <1>4, <4>1 DEF Seen, Calm
        <5>2. Len(p) # 1 /\ new[w][Front(p)] # "dir"
          BY <5>1 DEF InFolder
        <5>3. Len(p) > 1 /\ Front(p) \in Paths
          BY <5>2, PathSize
        <5>4. W[Front(p)] = "dir"
          BY <5>3, FolderAbove DEF Proper
        <5>5. new[w][Front(p)] = Kind(W[Front(p)])
          BY <2>1, <2>2, <5>3 DEF InWalk
        <5> QED BY <1>6, <5>2, <5>3, <5>4, <5>5
      <4> QED BY <1>4, <1>6, <2>1, <2>2, <4>1, <4>2 DEF Changed, InWalk
    <3> QED BY <1>9, <3>1, <3>2
  <2>4. ASSUME NEW q \in Paths
        PROVE  /\ DueUpdate(w, q) => DueUpdate(w, q)'
               /\ DueDelete(w, q) => DueDelete(w, q)'
               /\ DueCreate(w, q) => DueCreate(w, q)'
    <3>1. DueUpdate(w, q) => DueUpdate(w, q)'
      BY <1>1, <2>1, <2>3 DEF DueUpdate, Changed
    <3>2. (DueDelete(w, q) => DueDelete(w, q)') /\ (DueCreate(w, q) => DueCreate(w, q)')
      BY <1>1, <2>1 DEF DueDelete, DueCreate, Writing
    <3> QED BY <3>1, <3>2
  <2>5. UnderWay(w, s, f, W, M, R, A, X)'
    BY <1>3, <2>1, <2>4, NothingSaid
  <2>6. UnderWay(w, chan[Peer(w)], f, W, M, R, A, X)'
    BY <1>2, <2>1, <2>5 DEF UnderWay
  <2>7. Scanned(w)'
    BY <1>1, <1>4, <2>1, <2>2, <2>3 DEF Scanned, Writing, InWalk
  <2> QED BY <1>4, <2>1, <2>6, <2>7 DEF Half
<1>10. ASSUME NEW p \in Paths, SendUpdate(w, p) PROVE Half(w, W, M, R, A, X)'
  <2>1. /\ pc[w] = "scan" /\ InWalk(w, p) /\ UNCHANGED << disk, tree, mode, pc >>
        /\ todo'[w] = todo[w] \ {p} /\ Changed(w, p)
        /\ new'[w][p] = Kind(W[p]) /\ Send(w, FileMsg(p, W[p]))
        /\ \A q \in Paths : q # p =>
             new'[w][q] = new[w][q] /\ (q \in stale'[w] <=> q \in stale[w])
    BY <1>1, <1>4, <1>10 DEF SendUpdate, Record, Walked
  <2>2. \A q \in Paths : IF q \in todo[w]
                         THEN new[w][q] = "none"
                         ELSE new[w][q] = Kind(W[q]) /\ Front(q) \notin todo[w]
    BY <1>4, <2>1 DEF Scanned
  <2>3. W[p] \in FileData /\ DueUpdate(w, p)
    BY <1>4, <1>6, <2>1 DEF Changed, DueUpdate, InWalk
  <2>4. PICK m \in Message : m = FileMsg(p, W[p])
    BY <2>3, MessageTyped
  <2>5. m.t = "SYNC_FILE" /\ m.p = p /\ m.c = W[p] /\ m.t \in NodeTypes
    BY <2>4 DEF FileMsg, NodeTypes
  <2>6. a = 0 /\ Says(a, m.t, Stage(w, "scan"))
    BY <1>5, <2>1, <2>5 DEF Stage, Says
  <2>7. True(W, M, R, A, a, m)
    BY <2>3, <2>5, <2>6 DEF True, UpdateTrue, Honest
  <2>8. ASSUME NEW q \in Paths
        PROVE  /\ DueUpdate(w, q) => DueUpdate(w, q)' \/ q = p
               /\ DueDelete(w, q) => DueDelete(w, q)'
               /\ DueCreate(w, q) => DueCreate(w, q)'
    <3>1. DueUpdate(w, q) => DueUpdate(w, q)' \/ q = p
      BY <1>1, <2>1 DEF DueUpdate, Changed
    <3>2. (DueDelete(w, q) => DueDelete(w, q)') /\ (DueCreate(w, q) => DueCreate(w, q)')
      BY <1>1, <2>1 DEF DueDelete, DueCreate, Writing
    <3> QED BY <3>1, <3>2
  <2>9. Scanned(w)'
    BY <1>1, <1>4, <2>1, <2>2 DEF Scanned, Writing, InWalk
  <2>10. pc' = [pc EXCEPT ![w] = "scan"] /\ "scan" \in Sending /\ pc[w] # "create"
    BY <1>1, <2>1 DEF Sending
  <2>11. Send(w, m)
    BY <2>1, <2>4
  <2>12. \A q \in Paths :
           LET Now(b) == m.t \in NodeTypes /\ a = b /\ m.p = q
           IN  /\ DueUpdate(w, q) => DueUpdate(w, q)' \/ Now(0)
               /\ DueDelete(w, q) => DueDelete(w, q)' \/ Now(2)
               /\ DueCreate(w, q) => DueCreate(w, q)' \/ Now(4)
    BY <2>5, <2>6, <2>8
  <2>13. a # 4 /\ UNCHANGED << disk, mode >>
    BY <2>1, <2>6
  <2> QED BY <1>8, <2>6, <2>7, <2>9, <2>10, <2>11, <2>12, <2>13
<1>11. ASSUME NEW p \in Paths, SendDelete(w, p) PROVE Half(w, W, M, R, A, X)'
  <2>1. /\ pc[w] = "delete" /\ InWalk(w, p)
        /\ UNCHANGED << disk, tree, new, stale, mode, pc >>
        /\ todo'[w] = todo[w] \ {p} /\ Send(w, PathMsg(p))
    BY <1>1, <1>11 DEF SendDelete, Walked
  <2>2. todo[w] \subseteq Deleted(w)
    BY <1>4, <2>1 DEF Scanned
  <2>3. M[p] = "none"
    BY <1>7, <2>1, <2>2 DEF Honest, InWalk, Writing
  <2>4. PICK m \in Message : m = PathMsg(p)
    BY MessageTyped
  <2>5. m.t = "PATH" /\ m.p = p /\ m.t \in NodeTypes
    BY <2>4 DEF PathMsg, NodeTypes
  <2>6. a = 2 /\ Says(a, m.t, Stage(w, "delete"))
    BY <1>5, <2>1, <2>5 DEF Stage, Says
  <2>7. True(W, M, R, A, a, m)
    BY <2>3, <2>5, <2>6 DEF True
  <2>8. ASSUME NEW q \in Paths
        PROVE  /\ ~DueUpdate(w, q)
               /\ DueDelete(w, q) => DueDelete(w, q)' \/ q = p
               /\ DueCreate(w, q) => DueCreate(w, q)'
    BY <1>1, <2>1 DEF DueUpdate, DueDelete, DueCreate, Writing
  <2>9. Scanned(w)'
    BY <1>1, <1>4, <2>1, <2>2 DEF Scanned, Writing, Deleted
  <2>10. pc' = [pc EXCEPT ![w] = "delete"] /\ "delete" \in Sending /\ pc[w] # "create"
    BY <1>1, <2>1 DEF Sending
  <2>11. Send(w, m)
    BY <2>1, <2>4
  <2>12. \A q \in Paths :
           LET Now(b) == m.t \in NodeTypes /\ a = b /\ m.p = q
           IN  /\ DueUpdate(w, q) => DueUpdate(w, q)' \/ Now(0)
               /\ DueDelete(w, q) => DueDelete(w, q)' \/ Now(2)
               /\ DueCreate(w, q) => DueCreate(w, q)' \/ Now(4)
    BY <2>5, <2>6, <2>8
  <2>13. a # 4 /\ UNCHANGED << disk, mode >>
    BY <2>1, <2>6
  <2> QED BY <1>8, <2>6, <2>7, <2>9, <2>10, <2>11, <2>12, <2>13
<1>12. ASSUME NEW p \in Paths, SendCreate(w, p) PROVE Half(w, W, M, R, A, X)'
  <2>1. /\ pc[w] = "create" /\ InWalk(w, p)
        /\ UNCHANGED << disk, tree, new, stale, mode, pc >>
        /\ todo'[w] = todo[w] \ {p}
        /\ Send(w, IF new[w][p] = "dir" THEN FolderMsg(p) ELSE FileMsg(p, ContentNow(w, p)))
    BY <1>1, <1>12 DEF SendCreate, Walked
  <2>2. todo[w] \subseteq Created(w) /\ new[w][p] = Kind(W[p])
    BY <1>4, <2>1 DEF Scanned, Writing
  <2>3. tree[w][p] = "none" /\ W[p] # "none"
    BY <1>7, <2>1, <2>2 DEF InWalk
  <2>4. W[p] = "dir" \/ W[p] \in FileData
    BY <2>3, KindParts
  <2>5. PICK m \in Message : m = IF W[p] = "dir" THEN FolderMsg(p) ELSE FileMsg(p, W[p])
    BY <2>4, MessageTyped
  <2>6. m.t \in {"SYNC_FILE", "SYNC_FOLDER"} /\ m.p = p /\ m.t \in NodeTypes
    BY <2>5 DEF FileMsg, FolderMsg, NodeTypes
  <2>7. Send(w, m)
    BY <1>4, <1>6, <2>1, <2>2, <2>4, <2>5 DEF ContentNow
  <2>8. a = 4 /\ Says(a, m.t, Stage(w, "create"))
    BY <1>5, <2>1, <2>6 DEF Stage, Says
  <2>9. True(W, M, R, A, a, m)
    <3>1. M[p] = W[p] \/ \E q \in Paths : IsPrefix(q, p) /\ q # p /\ Lost(M, R, q)
      BY <2>1, <2>3 DEF Honest, Writing
    <3> QED BY <2>3, <2>5, <2>6, <2>8, <3>1 DEF True, CreateTrue
  <2>10. ASSUME NEW q \in Paths
        PROVE  /\ ~DueUpdate(w, q)
               /\ DueDelete(w, q) => DueDelete(w, q)'
               /\ DueCreate(w, q) => DueCreate(w, q)' \/ q = p
    BY <1>1, <2>1 DEF DueUpdate, DueDelete, DueCreate, Writing
  <2>11. Scanned(w)'
    BY <1>1, <1>4, <2>1, <2>2 DEF Scanned, Writing, Created
  <2>12. pc' = [pc EXCEPT ![w] = "create"] /\ "create" \in Sending
    BY <1>1, <2>1 DEF Sending
  <2>13. m.p \in todo[w] /\ Front(m.p) \notin todo[w] /\ todo'[w] \subseteq todo[w]
    BY <2>1, <2>6 DEF InWalk
  <2> QED BY <1>8, <2>1, <2>6, <2>7, <2>8, <2>9, <2>10, <2>11, <2>12, <2>13
(* The tokens.                                                             *)
<1>13. ASSUME NEW t \in Tokens, Send(w, Token(t)), UNCHANGED << disk, mode >>,
              NEW l \in Sending \cup {"recv"}, pc' = [pc EXCEPT ![w] = l],
              Says(a, t, Stage(w, l)),
              pc[w] = "startCreate" \/ l # "create",
              pc[w] = "create" => todo'[w] \subseteq todo[w],
              \A p \in Paths : /\ DueUpdate(w, p) => DueUpdate(w, p)'
                               /\ DueDelete(w, p) => DueDelete(w, p)'
                               /\ DueCreate(w, p) => DueCreate(w, p)',
              Scanned(w)'
       PROVE  Half(w, W, M, R, A, X)'
  <2>1. PICK m \in Message : m = Token(t)
    BY MessageTyped
  <2>2. m.t = t /\ m.t \notin NodeTypes
    BY <2>1 DEF Token, Tokens, NodeTypes
  <2>3. Send(w, m)
    BY <1>13, <2>1
  <2> QED BY <1>8, <1>13, <2>2, <2>3
<1>14. CASE UpdatesDone(w)
  <2>1. /\ pc[w] = "scan" /\ todo[w] = {} /\ Send(w, Token("SYNC_UPDATE_DONE"))
        /\ pc' = [pc EXCEPT ![w] = "startDelete"] /\ pc'[w] = "startDelete"
        /\ UNCHANGED << disk, tree, new, stale, todo, mode >>
    BY <1>1, <1>14 DEF UpdatesDone, Goto
  <2>2. Scanned(w)'
    BY <1>4, <2>1 DEF Scanned, Writing
  <2>3. Says(a, "SYNC_UPDATE_DONE", Stage(w, "startDelete"))
    BY <1>5, <2>1 DEF Stage, Says
  <2>4. \A p \in Paths : /\ ~DueUpdate(w, p)
                         /\ DueDelete(w, p) => DueDelete(w, p)'
                         /\ DueCreate(w, p) => DueCreate(w, p)'
    BY <2>1 DEF DueUpdate, DueDelete, DueCreate, Writing
  <2>5. "SYNC_UPDATE_DONE" \in Tokens /\ "startDelete" \in Sending
    BY DEF Tokens, Sending
  <2> QED BY <1>13, <2>1, <2>2, <2>3, <2>4, <2>5
<1>15. CASE StartDeletes(w)
  <2>1. /\ pc[w] = "startDelete" /\ Send(w, Token("SYNC_DELETE"))
        /\ todo'[w] = Deleted(w)
        /\ pc' = [pc EXCEPT ![w] = "delete"] /\ pc'[w] = "delete"
        /\ UNCHANGED << disk, tree, new, stale, mode >>
    BY <1>1, <1>15 DEF StartDeletes, Goto
  <2>2. Scanned(w)'
    BY <1>4, <2>1 DEF Scanned, Writing, Deleted
  <2>3. Says(a, "SYNC_DELETE", Stage(w, "delete"))
    BY <1>5, <2>1 DEF Stage, Says
  <2>4. \A p \in Paths : /\ ~DueUpdate(w, p)
                         /\ DueDelete(w, p) => DueDelete(w, p)'
                         /\ DueCreate(w, p) => DueCreate(w, p)'
    BY <1>4, <1>7, <2>1 DEF DueUpdate, DueDelete, DueCreate, Writing
  <2>5. "SYNC_DELETE" \in Tokens /\ "delete" \in Sending
    BY DEF Tokens, Sending
  <2> QED BY <1>13, <2>1, <2>2, <2>3, <2>4, <2>5
<1>16. CASE DeletesDone(w)
  <2>1. /\ pc[w] = "delete" /\ todo[w] = {} /\ Send(w, Token("SYNC_DELETE_DONE"))
        /\ pc' = [pc EXCEPT ![w] = "startCreate"] /\ pc'[w] = "startCreate"
        /\ UNCHANGED << disk, tree, new, stale, todo, mode >>
    BY <1>1, <1>16 DEF DeletesDone, Goto
  <2>2. Scanned(w)'
    BY <1>4, <2>1 DEF Scanned, Writing
  <2>3. Says(a, "SYNC_DELETE_DONE", Stage(w, "startCreate"))
    BY <1>5, <2>1 DEF Stage, Says
  <2>4. \A p \in Paths : /\ ~DueUpdate(w, p)
                         /\ ~DueDelete(w, p)
                         /\ DueCreate(w, p) => DueCreate(w, p)'
    BY <2>1 DEF DueUpdate, DueDelete, DueCreate, Writing
  <2>5. "SYNC_DELETE_DONE" \in Tokens /\ "startCreate" \in Sending
    BY DEF Tokens, Sending
  <2> QED BY <1>13, <2>1, <2>2, <2>3, <2>4, <2>5
<1>17. CASE StartCreates(w)
  <2>1. /\ pc[w] = "startCreate" /\ Send(w, Token("SYNC_CREATE"))
        /\ todo'[w] = Created(w)
        /\ pc' = [pc EXCEPT ![w] = "create"] /\ pc'[w] = "create"
        /\ UNCHANGED << disk, tree, new, stale, mode >>
    BY <1>1, <1>17 DEF StartCreates, Goto
  <2>2. Scanned(w)'
    BY <1>4, <2>1 DEF Scanned, Writing, Created
  <2>3. Says(a, "SYNC_CREATE", Stage(w, "create"))
    BY <1>5, <2>1 DEF Stage, Says
  <2>4. \A p \in Paths : /\ ~DueUpdate(w, p)
                         /\ ~DueDelete(w, p)
                         /\ DueCreate(w, p) => DueCreate(w, p)'
    BY <1>4, <1>7, <2>1 DEF DueUpdate, DueDelete, DueCreate, Writing
  <2>5. "SYNC_CREATE" \in Tokens /\ "create" \in Sending
    BY DEF Tokens, Sending
  <2> QED BY <1>13, <2>1, <2>2, <2>3, <2>4, <2>5
<1>18. CASE CreatesDone(w)
  <2>1. /\ pc[w] = "create" /\ todo[w] = {} /\ Send(w, Token("SYNC_CREATE_DONE"))
        /\ pc' = [pc EXCEPT ![w] = "finish"] /\ pc'[w] = "finish"
        /\ new'[w] = NoTree /\ UNCHANGED << disk, stale, todo, mode >>
    BY <1>1, <1>18 DEF CreatesDone, Goto
  <2>2. Scanned(w)'
    BY <2>1 DEF Scanned, Writing
  <2>3. Says(a, "SYNC_CREATE_DONE", Stage(w, "finish"))
    BY <1>5, <2>1 DEF Stage, Says
  <2>4. \A p \in Paths : ~DueUpdate(w, p) /\ ~DueDelete(w, p) /\ ~DueCreate(w, p)
    BY <2>1 DEF DueUpdate, DueDelete, DueCreate, Writing
  <2>5. "SYNC_CREATE_DONE" \in Tokens /\ "finish" \in Sending
    BY DEF Tokens, Sending
  <2> QED BY <1>13, <2>1, <2>2, <2>3, <2>4, <2>5
<1>19. CASE Finish(w) \/ AskAgain(w)
  <2>1. PICK l \in {"recv", "again"} : pc' = [pc EXCEPT ![w] = l] /\ pc'[w] = l
            /\ (pc[w] = "finish" => l = IF w = "server" THEN "recv" ELSE "again")
            /\ (pc[w] = "again" => l = "recv")
    BY <1>1, <1>19 DEF Finish, AskAgain, Goto
  <2>2. /\ pc[w] \in {"finish", "again"} /\ Send(w, Token("DONE_CONTROL"))
        /\ UNCHANGED << disk, tree, new, stale, todo, mode >>
    BY <1>19 DEF Finish, AskAgain
  <2>3. Scanned(w)'
    BY <1>4, <2>1, <2>2 DEF Scanned, Writing
  <2>4. Says(a, "DONE_CONTROL", Stage(w, l))
    BY <1>5, <2>1, <2>2 DEF Stage, Says
  <2>5. \A p \in Paths : ~DueUpdate(w, p) /\ ~DueDelete(w, p) /\ ~DueCreate(w, p)
    BY <2>2 DEF DueUpdate, DueDelete, DueCreate, Writing
  <2>6. "DONE_CONTROL" \in Tokens /\ l \in Sending \cup {"recv"}
    BY DEF Tokens, Sending
  <2> QED BY <1>13, <2>1, <2>2, <2>3, <2>4, <2>5, <2>6
<1>20. ~BrokenPipe(w)
  BY <1>1 DEF BrokenPipe, Goto
<1> QED BY <1>9, <1>10, <1>11, <1>12, <1>14, <1>15, <1>16, <1>17, <1>18, <1>19,
           <1>20 DEF Walk

-----------------------------------------------------------------------------
(* The reader takes the next message.                                      *)

(* The message m, said at stage a, is about p.                             *)
Touches(a, m, p) ==
  /\ m.t \in NodeTypes
  /\ \/ a \in {0, 4} /\ m.p = p
     \/ a = 2 /\ IsPrefix(m.p, p)

(* When the reader has done what the message says, the others are as       *)
(* before.                                                                 *)
LEMMA OneTaken ==
  ASSUME NEW w \in Hosts, NEW s \in Seq(Message), s # << >>, NEW f, NEW g,
         NEW W, NEW M, NEW R, NEW A, NEW X,
         UnderWay(w, s, f, W, M, R, A, X), X \subseteq Paths,
         Labelling(g, Tail(s)), g[Len(Tail(s)) + 1] = f[Len(s) + 1],
         \A i \in 1 .. Len(Tail(s)) : g[i] = f[i + 1],
         UNCHANGED tree, todo'[w] = todo[w], pc'[w] = pc[w], disk'[w] = disk[w],
         stale'[w] = stale[w],
         Reads(Peer(w), g[1])', g[1] <= 6,
         \A p \in Paths : \/ disk'[Peer(w)][p] = M[p]
                          \/ /\ disk'[Peer(w)][p] = disk[Peer(w)][p]
                             /\ ~Touches(f[1], Head(s), p),
         \A p \in X : ~(f[1] = 0 /\ Touches(0, Head(s), p))
  PROVE  UnderWay(w, Tail(s), g, W, M, R, A, X)'
<1> DEFINE s2 == Tail(s)
<1>1. /\ Len(s) \in Nat \ {0} /\ Len(s2) = Len(s) - 1 /\ Head(s) = s[1]
      /\ \A i \in 1 .. Len(s2) : s2[i] = s[i + 1] /\ i + 1 \in 1 .. Len(s) /\ g[i] = f[i + 1]
  BY HeadTailProperties
<1>2. \A b, p : Pending(s, f, b, p) =>
        \/ Pending(s2, g, b, p)
        \/ Head(s).t \in NodeTypes /\ f[1] = b /\ Head(s).p = p
  BY PendingTail
<1>3. Labelling(g, s2) /\ g[Len(s2) + 1] = Stage(w, pc'[w])
  BY DEF UnderWay
<1> HIDE DEF s2
<1>4. ASSUME NEW i \in 1 .. Len(s2), About(s2, i) PROVE True(W, M, R, A, g[i], s2[i])
  <2>1. About(s, i + 1) /\ s2[i] = s[i + 1] /\ g[i] = f[i + 1]
    BY <1>1, <1>4 DEF About
  <2> QED BY <1>1, <2>1 DEF UnderWay
<1>5. ASSUME NEW i \in 1 .. Len(s2), About(s2, i), g[i] = 4
      PROVE  /\ pc'[w] = "create" => Front(s2[i].p) \notin todo'[w]
             /\ \A j \in 1 .. Len(s2) : j > i /\ About(s2, j) => s2[j].p # Front(s2[i].p)
  <2>1. About(s, i + 1) /\ s2[i] = s[i + 1] /\ f[i + 1] = 4 /\ i + 1 \in 1 .. Len(s)
    BY <1>1, <1>5 DEF About
  <2>2. /\ pc[w] = "create" => Front(s[i + 1].p) \notin todo[w]
        /\ \A j \in 1 .. Len(s) : j > i + 1 /\ About(s, j) => s[j].p # Front(s[i + 1].p)
    BY <2>1 DEF UnderWay, Sorted
  <2>3. ASSUME NEW j \in 1 .. Len(s2), j > i, About(s2, j) PROVE s2[j].p # Front(s2[i].p)
    <3>1. j + 1 \in 1 .. Len(s) /\ j + 1 > i + 1 /\ s2[j] = s[j + 1] /\ About(s, j + 1)
      BY <1>1, <2>3 DEF About
    <3> QED BY <2>1, <2>2, <3>1
  <2> QED BY <2>1, <2>2, <2>3
<1>6. Sorted(w, s2, g)'
  BY <1>5 DEF Sorted
<1>7. ASSUME NEW p \in Paths
      PROVE  /\ DueUpdate(w, p) => DueUpdate(w, p)'
             /\ DueDelete(w, p) => DueDelete(w, p)'
             /\ DueCreate(w, p) => DueCreate(w, p)'
  BY DEF DueUpdate, DueDelete, DueCreate, Changed, Writing
<1>8. ASSUME NEW p \in Paths, Owed(w, s, f, p), ~Touches(f[1], Head(s), p)
      PROVE  Owed(w, s2, g, p)'
  <2>1. CASE DueUpdate(w, p) \/ DueCreate(w, p)
    BY <1>7, <2>1 DEF Owed
  <2>2. CASE Pending(s, f, 0, p) \/ Pending(s, f, 4, p)
    BY <1>2, <1>8, <2>2 DEF Owed, Touches
  <2>3. ASSUME NEW q \in Paths, IsPrefix(q, p), DueDelete(w, q) \/ Pending(s, f, 2, q)
        PROVE  Owed(w, s2, g, p)'
    BY <1>2, <1>7, <1>8, <2>3 DEF Owed, Touches
  <2> QED BY <1>8, <2>1, <2>2, <2>3 DEF Owed
<1>9. \A p \in Paths : \/ disk'[Peer(w)][p] = M[p]
                       \/ disk'[Peer(w)][p] = R[p] /\ Owed(w, s2, g, p)'
  BY <1>8 DEF UnderWay
<1>10. \A p \in X : DueUpdate(w, p)' \/ Pending(s2, g, 0, p)
  BY <1>2, <1>7 DEF UnderWay, Touches
<1>11. UnderWay(w, s2, g, W, M, R, A, X)'
  BY <1>3, <1>4, <1>6, <1>9, <1>10 DEF UnderWay
<1> QED BY <1>11 DEF s2

(* Folders come before what is in them: when p is to be created, nothing   *)
(* about its folder is owed any more.                                      *)
LEMMA FolderCame ==
  ASSUME NEW w \in Hosts, NEW s \in Seq(Message), s # << >>, NEW f,
         NEW W, NEW M, NEW R, NEW A, NEW X,
         UnderWay(w, s, f, W, M, R, A, X), f[1] = 4, Head(s).t \in NodeTypes,
         Head(s).p \in Paths, Len(Head(s).p) > 1
  PROVE  ~Owed(w, s, f, Front(Head(s).p))
<1> DEFINE p == Head(s).p
           x == Front(p)
<1>1. Len(s) \in Nat \ {0} /\ Head(s) = s[1] /\ About(s, 1)
  BY HeadTailProperties DEF About
<1>2. /\ \A i \in 1 .. Len(s) : f[i] \in 0 .. 7 /\ 4 <= f[i]
      /\ 4 <= Stage(w, pc[w])
  <2>1. 1 \in 1 .. Len(s) + 1 /\ Len(s) + 1 \in 1 .. Len(s) + 1
    BY <1>1
  <2> QED BY <1>1, <2>1, LabelParts DEF UnderWay
<1>3. pc[w] \notin {"scan", "startDelete", "delete", "startCreate"}
  BY <1>2 DEF Stage
<1>4. /\ pc[w] = "create" => x \notin todo[w]
      /\ \A j \in 1 .. Len(s) : j > 1 /\ About(s, j) => s[j].p # x
  BY <1>1 DEF UnderWay, Sorted
<1>5. p # x
  BY FrontPrefix
<1> HIDE DEF p, x
<1>6. \A a, q : Pending(s, f, a, q) => a >= 4 /\ a \in 0 .. 7
  BY <1>2 DEF Pending
<1>7. ~Pending(s, f, 4, x)
  <2> SUFFICES ASSUME NEW i \in 1 .. Len(s), About(s, i), s[i].p = x PROVE FALSE
    BY DEF Pending, About
  <2>1. i = 1
    BY <1>1, <1>4
  <2> QED BY <1>1, <1>5, <2>1 DEF p
<1>8. ~Owed(w, s, f, x)
  BY <1>3, <1>4, <1>6, <1>7 DEF Owed, DueUpdate, DueDelete, DueCreate, Writing
<1> QED BY <1>8 DEF x, p

(* A folder or a file that is to be there and lies in its folder is made.  *)
LEMMA MakeNode ==
  ASSUME Calm, NEW dk, Proper(dk), NEW W, Proper(W), NEW p \in Paths, W[p] # "none",
         InFolder(dk, p),
         NEW dl, dl = IF W[p] = "dir" THEN MakeFolder(dk, p) ELSE MakeFile(dk, p, W[p])
  PROVE  dl = [dk EXCEPT ![p] = W[p]] /\ Proper(dl)
<1>1. W[p] = "dir" \/ W[p] \in Data
  BY KindParts
<1>2. dk[p] # "none" => (dk[p] = "dir" <=> W[p] = "dir")
  BY SameKind, KindParts
<1>3. Kind(W[p]) \in Kinds[p]
  BY ProperParts
<1>4. Proper([dk EXCEPT ![p] = W[p]])
  BY <1>1, <1>2, <1>3, PutProper
<1>5. dk \in [Paths -> Node]
  BY ProperParts
<1>6. CASE W[p] = "dir"
  <2>1. MakeFolder(dk, p) = [dk EXCEPT ![p] = "dir"]
    <3>1. CASE dk[p] = "none"
      BY <3>1 DEF MakeFolder
    <3>2. CASE dk[p] # "none"
      <4>1. dk[p] = "dir"
        BY <1>2, <1>6, <3>2
      <4> QED BY <1>5, <3>2, <4>1 DEF MakeFolder
    <3> QED BY <3>1, <3>2
  <2> QED BY <1>4, <1>6, <2>1
<1>7. CASE W[p] # "dir"
  <2>1. dk[p] # "dir"
    BY <1>2, <1>7
  <2>2. MakeFile(dk, p, W[p]) = [dk EXCEPT ![p] = W[p]]
    BY <2>1 DEF MakeFile, CanWrite
  <2> QED BY <1>4, <1>7, <2>2
<1> QED BY <1>6, <1>7

(* Where there is no folder nothing is made.                               *)
LEMMA MakeNothing ==
  ASSUME NEW dk, NEW p \in Paths, NEW c, ~InFolder(dk, p)
  PROVE  MakeFolder(dk, p) = dk /\ MakeFile(dk, p, c) = dk
BY DEF MakeFolder, MakeFile, CanWrite

(* Without its folder nothing is.                                          *)
LEMMA NoFolder ==
  ASSUME NEW dk, Proper(dk), NEW p \in Paths, NEW q \in Paths, IsPrefix(q, p), q # p,
         dk[q] = "none"
  PROVE  ~InFolder(dk, p) /\ dk[p] = "none"
<1>1. Len(p) > 1 /\ IsPrefix(q, Front(p)) /\ Front(p) \in Paths
  BY PrefixCases, FrontPrefix
<1>2. dk[Front(p)] = "none"
  BY <1>1, NothingBelow DEF Proper
<1>3. dk[p] = "none"
  BY NothingBelow DEF Proper
<1>4. Len(p) # 1
  <2>1. PICK n \in Nat : n = Len(p)
    BY PathSize
  <2>2. n > 1
    BY <1>1, <2>1
  <2> QED BY <2>1, <2>2
<1> QED BY <1>2, <1>3, <1>4 DEF InFolder

(* A reader that is told what is so comes nearer to what it is to become.  *)
LEMMA ReceiveHalf ==
  ASSUME Calm, TypeOK, NEW w \in Hosts, NEW r \in Hosts, r = Peer(w),
         NEW W, NEW M, NEW R, NEW A, NEW X,
         Proper(W), Proper(M), Proper(R), Proper(disk[r]),
         X \subseteq {p \in Paths : Lost(M, R, p)},
         Half(w, W, M, R, A, X), Receive(r), pc'[r] \in {"recv", "rebuild"}
  PROVE  Half(w, W, M, R, A, X)' /\ Proper(disk'[r])
<1>1. /\ r # w /\ Peer(r) = w /\ X \subseteq Paths
      /\ pc \in [Hosts -> Labels] /\ chan \in [Hosts -> Seq(Message)]
      /\ mode \in [Hosts -> {"top", "delete", "create", "jammed"}]
      /\ todo \in [Hosts -> SUBSET Paths] /\ stale \in [Hosts -> SUBSET Paths]
      /\ disk \in [Hosts -> [Paths -> Node]]
  BY TwoHosts DEF TypeOK
<1>2. PICK s \in Seq(Message) : s = chan[r]
  BY <1>1
<1>3. PICK f : UnderWay(w, s, f, W, M, R, A, X)
  BY <1>2 DEF Half
<1>4. /\ disk[w] = W /\ Scanned(w) /\ pc[w] \in Sending \cup {"recv"}
      /\ Labelling(f, s) /\ Reads(r, f[1]) /\ f[1] <= 6
      /\ \A p \in Paths : \/ disk[r][p] = M[p]
                          \/ disk[r][p] = R[p] /\ Owed(w, s, f, p)
  BY <1>3 DEF Half, UnderWay
<1>5. ~RecvEOF(r) /\ ~RecvUpdateFails(r)
  BY <1>1, <1>4 DEF RecvEOF, RecvUpdateFails, Sending, Goto
<1>6. Incoming(r) /\ Consume(r)
  BY <1>5 DEF Receive, RecvUpdate, RecvToken, RecvDelete, RecvCreate, RecvListEnd,
              RecvDone, TopCase
<1>7. pc[r] = "recv" /\ s # << >> /\ chan'[r] = Tail(s) /\ Msg(r) = Head(s)
  BY <1>1, <1>2, <1>6 DEF Incoming, Consume, Msg
<1>8. PICK g : /\ Labelling(g, Tail(s)) /\ Says(f[1], Head(s).t, g[1])
               /\ g[Len(Tail(s)) + 1] = f[Len(s) + 1]
               /\ \A i \in 1 .. Len(Tail(s)) : g[i] = f[i + 1]
  BY <1>4, <1>7, LabelTail
<1>9. PICK m \in Message : m = Head(s)
  BY <1>7, HeadTailProperties
<1>10. m.t \in NodeTypes => m.p \in Paths
  BY MessageParts
<1>11. f[1] \in 0 .. 5 /\ mode[r] = ModeAt(f[1]) /\ g[1] <= 6
  <2>1. f[1] \in 0 .. 5 /\ mode[r] = ModeAt(f[1])
    BY <1>4, <1>7 DEF Reads, ReadsAt
  <2> QED BY <1>8, <2>1 DEF Says
<1>12. /\ tree' = tree /\ new' = new /\ todo'[w] = todo[w] /\ pc'[w] = pc[w]
       /\ disk'[w] = disk[w] /\ stale'[w] = stale[w]
  BY <1>1, <1>5 DEF Receive, RecvUpdate, RecvToken, RecvDelete, RecvCreate, RecvListEnd,
              RecvDone, AfterReceive, Goto
<1>13. Scanned(w)'
  BY <1>4, <1>12 DEF Scanned, Writing, Deleted, Created
(* What is done is what was said.                                          *)
<1>14. ASSUME Reads(r, g[1])', Proper(disk'[r]),
              \A p \in Paths : \/ disk'[r][p] = M[p]
                               \/ disk'[r][p] = disk[r][p] /\ ~Touches(f[1], m, p),
              \A p \in X : ~(f[1] = 0 /\ Touches(0, m, p))
       PROVE  Half(w, W, M, R, A, X)' /\ Proper(disk'[r])
  <2>1. UnderWay(w, Tail(s), g, W, M, R, A, X)'
    BY <1>1, <1>3, <1>7, <1>8, <1>9, <1>11, <1>12, <1>14, OneTaken
  <2>2. UnderWay(w, chan[Peer(w)], g, W, M, R, A, X)'
    BY <1>7, <2>1 DEF UnderWay
  <2> QED BY <1>4, <1>12, <1>13, <1>14, <2>2 DEF Half
(* The actions that take a bare token.                                     *)
<1>15. ASSUME m.t \notin NodeTypes, UNCHANGED disk, Reads(r, g[1])'
       PROVE  Half(w, W, M, R, A, X)' /\ Proper(disk'[r])
  BY <1>14, <1>15 DEF Touches
<1>16. CASE RecvToken(r)
  <2>1. /\ mode[r] \in {"top", "jammed"} /\ pc'[r] = "recv" /\ UNCHANGED disk
        /\ m.t # "SYNC_FILE" /\ m.t # "DONE_CONTROL"
    BY <1>1, <1>7, <1>9, <1>11, <1>16 DEF RecvToken, TopCase, ModeAt
  <2>2. f[1] \in {0, 1, 3, 5} /\ mode[r] = "top"
    BY <1>11, <2>1 DEF ModeAt
  <2>3. mode'[r] = TopMode("top", m.t)
    BY <1>1, <1>7, <1>9, <1>16, <2>2 DEF RecvToken
  <2>4. \/ m.t = "SYNC_UPDATE_DONE" /\ g[1] = 1
        \/ m.t = "SYNC_DELETE" /\ g[1] = 2
        \/ m.t = "SYNC_CREATE" /\ g[1] = 4
    BY <1>8, <1>9, <2>1, <2>2 DEF Says
  <2>5. m.t \notin NodeTypes /\ Reads(r, g[1])'
    BY <2>1, <2>3, <2>4 DEF NodeTypes, Reads, ReadsAt, ModeAt, TopMode
  <2> QED BY <1>15, <2>1, <2>5
<1>17. CASE RecvListEnd(r)
  <2>1. /\ mode'[r] = "top" /\ pc'[r] = "recv" /\ UNCHANGED disk
        /\ \/ mode[r] = "delete" /\ m.t = "SYNC_DELETE_DONE"
           \/ mode[r] = "create" /\ m.t = "SYNC_CREATE_DONE"
    BY <1>1, <1>7, <1>9, <1>17 DEF RecvListEnd
  <2>2. g[1] \in {3, 5}
    BY <1>8, <1>9, <2>1 DEF Says
  <2>3. m.t \notin NodeTypes /\ Reads(r, g[1])'
    BY <2>1, <2>2 DEF NodeTypes, Reads, ReadsAt, ModeAt
  <2> QED BY <1>15, <2>1, <2>3
<1>18. CASE RecvDone(r)
  <2>1. /\ mode[r] = "top" /\ m.t = "DONE_CONTROL" /\ UNCHANGED << disk, mode >>
        /\ pc'[r] = "rebuild" /\ r = "server"
    BY <1>1, <1>7, <1>9, <1>18 DEF RecvDone, TopCase, AfterReceive, Goto
  <2>2. g[1] = 6
    BY <1>8, <1>9, <1>11, <2>1 DEF Says
  <2>3. m.t \notin NodeTypes /\ Reads(r, g[1])'
    BY <2>1, <2>2 DEF NodeTypes, Reads, ReadsAt
  <2> QED BY <1>15, <2>1, <2>3
(* The actions that do what is said.                                       *)
<1>19. ASSUME m.t \in NodeTypes
       PROVE  True(W, M, R, A, f[1], m) /\ m.p \in Paths
  <2>1. 1 \in 1 .. Len(s) /\ About(s, 1) /\ s[1] = m
    BY <1>7, <1>9, <1>19, HeadTailProperties DEF About
  <2> QED BY <1>3, <1>10, <1>19, <2>1 DEF UnderWay
<1>20. CASE RecvUpdate(r)
  <2>1. /\ mode[r] = "top" /\ m.t = "SYNC_FILE" /\ pc'[r] = "recv" /\ mode'[r] = mode[r]
        /\ disk[r][m.p] \in FileData
        /\ disk'[r] = [disk[r] EXCEPT ![m.p] = UpdateText(m.c)]
    BY <1>1, <1>7, <1>9, <1>20 DEF RecvUpdate, TopCase
  <2>2. f[1] = 0 /\ g[1] = 0 /\ m.t \in NodeTypes
    BY <1>8, <1>9, <1>11, <2>1 DEF Says, ModeAt, NodeTypes
  <2>3. UpdateTrue(W, M, R, A, m) /\ m.p \in Paths
    BY <1>19, <2>2 DEF True
  <2>4. disk[r][m.p] # "none" /\ W[m.p] \in Data /\ Kind(disk[r][m.p]) \in Kinds[m.p]
        /\ disk[r][m.p] # "dir" /\ Kind(disk[r][m.p]) = "file"
    BY <2>1, <2>3, KindParts, ProperParts DEF UpdateTrue
  <2>5. ~Lost(M, R, m.p)
    BY <1>4, <2>3, <2>4 DEF Lost
  <2>6. UpdateText(m.c) = W[m.p] /\ W[m.p] = M[m.p]
    BY <2>3, <2>4, <2>5 DEF UpdateTrue, UpdateText, Calm
  <2>7. Proper(disk'[r])
    <3>1. Kind(W[m.p]) \in Kinds[m.p]
      BY <2>3, <2>4, DataParts
    <3>2. InFolder(disk[r], m.p)
      BY <2>3, <2>4 DEF Proper, WellFormed
    <3>3. PICK dk : dk = disk[r]
      OBVIOUS
    <3>4. Proper(dk) /\ InFolder(dk, m.p) /\ dk[m.p] # "dir"
      BY <2>4, <3>2, <3>3
    <3>5. Proper([dk EXCEPT ![m.p] = W[m.p]])
      BY <2>3, <2>4, <3>1, <3>4, PutProper
    <3> QED BY <2>1, <2>6, <3>3, <3>5
  <2>8. \A p \in Paths : disk'[r][p] = IF p = m.p THEN M[p] ELSE disk[r][p]
    BY <1>1, <2>1, <2>6
  <2>9. Reads(r, g[1])'
    BY <1>11, <2>1, <2>2 DEF Reads, ReadsAt, ModeAt
  <2>10. \A p \in Paths : \/ disk'[r][p] = M[p]
                          \/ disk'[r][p] = disk[r][p] /\ ~Touches(f[1], m, p)
    BY <2>2, <2>8 DEF Touches
  <2>11. \A p \in X : ~(f[1] = 0 /\ Touches(0, m, p))
    BY <2>5 DEF Touches
  <2> QED BY <1>14, <2>7, <2>9, <2>10, <2>11
<1>21. CASE RecvDelete(r)
  <2>1. mode[r] = "delete" /\ m.t # "SYNC_DELETE_DONE" /\ pc'[r] = "recv" /\ mode'[r] = mode[r]
    BY <1>1, <1>7, <1>9, <1>21 DEF RecvDelete
  <2>2. f[1] = 2 /\ g[1] = 2 /\ m.t \in NodeTypes
    BY <1>8, <1>9, <1>11, <2>1 DEF Says, ModeAt, NodeTypes
  <2>3. M[m.p] = "none" /\ m.p \in Paths
    BY <1>19, <2>2 DEF True
  <2>4. disk'[r] = RemoveTree(disk[r], m.p)
    BY <1>1, <1>7, <1>9, <1>21, <2>3 DEF RecvDelete
  <2>5. Proper(disk'[r])
    BY <2>3, <2>4, RemoveProper
  <2>6. Reads(r, g[1])'
    BY <1>11, <2>1, <2>2 DEF Reads, ReadsAt, ModeAt
  <2>7. ASSUME NEW p \in Paths, IsPrefix(m.p, p) PROVE disk'[r][p] = M[p]
    <3>1. M[p] = "none"
      BY <2>3, <2>7, NothingBelow DEF Proper
    <3> QED BY <2>4, <2>7, <3>1 DEF RemoveTree
  <2>8. \A p \in Paths : \/ disk'[r][p] = M[p]
                         \/ disk'[r][p] = disk[r][p] /\ ~Touches(f[1], m, p)
    BY <2>2, <2>4, <2>7 DEF Touches, RemoveTree
  <2> QED BY <1>14, <2>2, <2>5, <2>6, <2>8
<1>22. CASE RecvCreate(r)
  <2>1. mode[r] = "create" /\ m.t # "SYNC_CREATE_DONE" /\ pc'[r] = "recv" /\ mode'[r] = mode[r]
    BY <1>1, <1>7, <1>9, <1>22 DEF RecvCreate
  <2>2. f[1] = 4 /\ g[1] = 4 /\ m.t \in NodeTypes
    BY <1>8, <1>9, <1>11, <2>1 DEF Says, ModeAt, NodeTypes
  <2>3. CreateTrue(W, M, R, m) /\ m.p \in Paths
    BY <1>19, <2>2 DEF True
  <2>4. PICK p \in Paths : p = m.p
    BY <2>3
  <2>5. disk'[r] = IF W[p] = "dir" THEN MakeFolder(disk[r], p) ELSE MakeFile(disk[r], p, W[p])
    <3>1. disk'[r] = CASE m.t = "SYNC_FOLDER" -> MakeFolder(disk[r], m.p)
                       [] m.t = "SYNC_FILE" -> MakeFile(disk[r], m.p, m.c)
                       [] OTHER -> disk[r]
      BY <1>1, <1>7, <1>9, <1>22 DEF RecvCreate
    <3>2. CASE W[p] = "dir"
      <4>0. m = FolderMsg(p)
        BY <2>3, <2>4, <3>2 DEF CreateTrue
      <4>1. m.t = "SYNC_FOLDER"
        BY <4>0 DEF FolderMsg
      <4> QED BY <2>4, <3>1, <3>2, <4>1
    <3>3. CASE W[p] # "dir"
      BY <2>3, <2>4, <3>1, <3>3 DEF CreateTrue, FileMsg
    <3> QED BY <3>2, <3>3
  <2>6. Reads(r, g[1])'
    BY <1>11, <2>1, <2>2 DEF Reads, ReadsAt, ModeAt
  <2>7. W[p] # "none"
    BY <2>3, <2>4 DEF CreateTrue
  <2>8. Proper(disk'[r]) /\ \A q \in Paths : disk'[r][q] = IF q = p THEN M[p] ELSE disk[r][q]
    <3>1. CASE M[p] = W[p]
      <4>1. InFolder(disk[r], p)
        <5>1. CASE Len(p) = 1
          BY <5>1 DEF InFolder
        <5>2. CASE Len(p) # 1
          <6>1. Len(p) > 1 /\ Front(p) \in Paths
            BY <5>2, PathSize
          <6>2. ~Owed(w, s, f, Front(p))
            BY <1>3, <1>7, <1>9, <2>2, <2>3, <2>4, <6>1, FolderCame
          <6>3. M[Front(p)] = "dir"
            BY <2>7, <3>1, <6>1, FolderAbove DEF Proper
          <6> QED BY <1>4, <5>2, <6>1, <6>2, <6>3 DEF InFolder
        <5> QED BY <5>1, <5>2
      <4>2. disk'[r] = [disk[r] EXCEPT ![p] = W[p]] /\ Proper(disk'[r])
        <5>1. PICK dk : dk = disk[r]
          OBVIOUS
        <5>2. Proper(dk) /\ InFolder(dk, p)
          BY <4>1, <5>1
        <5>3. PICK dl : dl = IF W[p] = "dir" THEN MakeFolder(dk, p) ELSE MakeFile(dk, p, W[p])
          OBVIOUS
        <5>4. dl = [dk EXCEPT ![p] = W[p]] /\ Proper(dl)
          <6>1. Proper(dk) /\ InFolder(dk, p) /\ W[p] # "none" /\ Proper(W) /\ Calm
            BY <2>7, <5>2
          <6> QED BY ONLY <6>1, <5>3, p \in Paths, MakeNode
        <5>5. disk'[r] = dl
          BY <2>5, <5>1, <5>3
        <5> QED BY <5>1, <5>4, <5>5
      <4> QED BY <1>1, <3>1, <4>2
    <3>2. CASE M[p] # W[p]
      <4>1. PICK q \in Paths : IsPrefix(q, p) /\ q # p /\ Lost(M, R, q)
        BY <2>3, <2>4, <3>2 DEF CreateTrue
      <4>2. disk[r][q] = "none" /\ M[q] = "none"
        BY <1>4, <4>1 DEF Lost
      <4>3. PICK dk : dk = disk[r]
        OBVIOUS
      <4>4. ~InFolder(dk, p) /\ dk[p] = "none" /\ M[p] = "none"
        BY <4>1, <4>2, <4>3, NoFolder
      <4>5. disk'[r] = disk[r]
        BY <2>5, <4>3, <4>4, MakeNothing
      <4> QED BY <4>3, <4>4, <4>5
    <3> QED BY <3>1, <3>2
  <2>9. \A q \in Paths : \/ disk'[r][q] = M[q]
                         \/ disk'[r][q] = disk[r][q] /\ ~Touches(f[1], m, q)
    BY <2>2, <2>4, <2>8 DEF Touches
  <2> QED BY <1>14, <2>2, <2>6, <2>8, <2>9
<1> QED BY <1>5, <1>16, <1>17, <1>18, <1>20, <1>21, <1>22 DEF Receive

-----------------------------------------------------------------------------
(* The two halves of a round.                                              *)

(* The two hosts by name.                                                  *)
LEMMA BothHosts ==
  /\ "server" \in Hosts /\ "client" \in Hosts
  /\ Peer("server") = "client" /\ Peer("client") = "server"
  /\ \A h \in Hosts : h = "server" \/ h = "client"
BY DEF Hosts, Peer

(* What the server's walk comes upon is so in the merge.                   *)
LEMMA ServerHonest ==
  ASSUME Calm, TypeOK, NEW ag, NEW be, NEW to, Grown(ag, be, to), ServerHalf(ag, be, to)
  PROVE  Honest("server", be["server"], Merge(ag, be, to), be["client"], Written(ag, to))
<1> DEFINE W == be["server"]
           M == Merge(ag, be, to)
           R == be["client"]
<1>1. /\ disk["server"] = W /\ Proper(W) /\ Proper(ag)
      /\ Writing("server") => \A p \in Paths : tree["server"][p] = Kind(ag[p])
      /\ pc["server"] = "scan" => \A p \in todo["server"] : p \in stale["server"] <=> p \in to
      /\ todo["server"] \subseteq Paths
  BY BothHosts DEF ServerHalf, Half, Grown, TypeOK
<1>2. \A p \in Paths : /\ Kind(ag[p]) # "none" <=> ag[p] # "none"
                       /\ Kind(W[p]) = "file" => W[p] \in FileData
  BY <1>1, KindParts
<1>3. ASSUME NEW p \in Paths
      PROVE  /\ ag[p] # "none" /\ p \in to /\ W[p] \in FileData =>
                   M[p] = W[p] \/ Lost(M, R, p)
             /\ ag[p] # "none" /\ W[p] = "none" => M[p] = "none"
             /\ ag[p] = "none" /\ W[p] # "none" =>
                  \/ M[p] = W[p]
                  \/ \E q \in Paths : IsPrefix(q, p) /\ q # p /\ Lost(M, R, q)
  BY ServerTells
<1> HIDE DEF M, W, R
<1>4. ASSUME NEW p \in Paths, DueUpdate("server", p)
      PROVE  p \in Written(ag, to) /\ (M[p] = W[p] \/ Lost(M, R, p))
  <2>1. /\ pc["server"] = "scan" /\ p \in todo["server"] /\ tree["server"][p] # "none"
        /\ p \in stale["server"] /\ Kind(W[p]) = "file"
    BY <1>1, <1>4 DEF DueUpdate, Changed
  <2>2. Writing("server")
    BY <2>1 DEF Writing
  <2>3. ag[p] # "none" /\ p \in to /\ W[p] \in FileData
    BY <1>1, <1>2, <2>1, <2>2
  <2> QED BY <1>3, <2>3 DEF Written
<1>5. Honest("server", W, M, R, Written(ag, to))
  BY <1>1, <1>2, <1>3, <1>4 DEF Honest
<1> QED BY <1>5 DEF W, M, R

(* The client's directory is the merge.                                    *)
LEMMA ClientHonest ==
  ASSUME Calm, TypeOK, NEW ag, NEW be, NEW to, Grown(ag, be, to), ClientHalf(ag, be, to)
  PROVE  Honest("client", Merge(ag, be, to), Merge(ag, be, to), be["server"],
                There(be["server"]))
<1>1. PICK M : M = Merge(ag, be, to)
  OBVIOUS
<1>2. /\ disk["client"] = M /\ Proper(M)
      /\ Writing("client") => \A p \in Paths :
           tree["client"][p] # "none" /\ M[p] # "none" => p \in There(be["server"])
  BY <1>1, MergeProper DEF ClientHalf, Half
<1>3. ASSUME NEW p \in Paths, DueUpdate("client", p) PROVE p \in There(be["server"])
  <2>1. pc["client"] = "scan" /\ tree["client"][p] # "none" /\ Kind(M[p]) = "file"
    BY <1>2, <1>3 DEF DueUpdate, Changed
  <2>2. M[p] # "none"
    BY <1>2, <2>1, KindParts
  <2> QED BY <1>2, <2>1, <2>2 DEF Writing
<1>4. Honest("client", M, M, be["server"], There(be["server"]))
  BY <1>3 DEF Honest
<1> QED BY <1>1, <1>4

(* It is the server's turn: nothing is on its way to it.                   *)
LEMMA ServersTurn ==
  ASSUME TypeOK, ProtoInv, ~Down, NEW ag, NEW be, NEW to, ServerHalf(ag, be, to)
  PROVE  Turn("server")
<1>1. PICK w \in Hosts : Turn(w)
  BY DEF ProtoInv
<1>2. ASSUME w = "client" PROVE FALSE
  <2>1. chan["client"] = << >> /\ \E a \in 0 .. 7 : Reads("server", a)
    BY <1>1, <1>2, BothHosts DEF Turn, Quiet
  <2>2. PICK f : /\ f[1] = Stage("server", pc["server"]) /\ Reads("client", f[1])
    BY <2>1, BothHosts DEF ServerHalf, Half, UnderWay
  <2>3. pc["client"] = "recv" /\ pc["server"] \in Sending \cup {"recv"}
    BY DEF ServerHalf, Half
  <2>4. Stage("server", pc["server"]) \in 0 .. 5
    BY <2>2, <2>3 DEF Reads, ReadsAt
  <2>5. pc["server"] # "recv"
    BY <2>4 DEF Stage
  <2> QED BY <2>1, <2>3, <2>5 DEF Reads, ReadsAt, Sending
<1> QED BY <1>1, <1>2, BothHosts

(* It is the client's turn: nothing is on its way to it.                   *)
LEMMA ClientsTurn ==
  ASSUME TypeOK, ProtoInv, ~Down, NEW ag, NEW be, NEW to,
         ClientHalf(ag, be, to) \/ pc["server"] \in {"wait", "sleep"}
  PROVE  Turn("client")
<1>1. PICK w \in Hosts : Turn(w)
  BY DEF ProtoInv
<1>2. ASSUME w = "server" PROVE FALSE
  <2>1. /\ chan["server"] = << >> /\ pc["server"] \in Sending \cup {"recv"}
        /\ \E a \in 0 .. 7 : Reads("client", a)
    BY <1>1, <1>2, BothHosts DEF Turn, Quiet
  <2>2. pc["client"] = "recv" /\ pc["server"] = "recv" /\ ClientHalf(ag, be, to)
    BY <2>1 DEF Reads, ReadsAt, ClientHalf, Sending
  <2>3. PICK f : f[1] = Stage("client", "recv") /\ f[1] <= 6
    BY <2>1, <2>2, BothHosts DEF ClientHalf, Half, UnderWay
  <2> QED BY <2>3 DEF Stage
<1> QED BY <1>1, <1>2, BothHosts

(* A reader with nothing to read yet is at the first stage.                *)
LEMMA NothingYet ==
  ASSUME NEW f, f = [i \in 1 .. 1 |-> 0]
  PROVE  /\ Labelling(f, << >>) /\ f[1] = 0 /\ f[Len(<< >>) + 1] = 0
         /\ \A i \in 1 .. Len(<< >>) : FALSE
         /\ \A a, p : ~Pending(<< >>, f, a, p)
BY DEF Labelling, Pending

(* The nap is over: the server has to tell what the client lacks.          *)
LEMMA WakeStep ==
  ASSUME Calm, TypeOK, ProtoInv, ~Down, NEW ag, NEW be, NEW to, Proper(ag),
         pc["server"] = "sleep", Open(ag, be, to), Wake
  PROVE  Round(ag, be, to)'
<1> DEFINE W == be["server"]
           R == be["client"]
<1>1. PICK M : M = Merge(ag, be, to)
  OBVIOUS
<1>2. /\ be = disk /\ to = stale["server"] /\ Grown(ag, be, to)
      /\ \A h \in Hosts : Proper(disk[h]) /\ Noticed(ag, disk[h], stale[h]) /\ new[h] = NoTree
      /\ \A p \in Paths : tree["server"][p] = Kind(ag[p])
      /\ Remembers(ag) /\ ("client" \notin Editors => disk["client"] = ag)
  BY BothHosts DEF Open, Grown
<1>3. /\ pc'["server"] = "scan" /\ pc'["client"] = pc["client"] /\ todo'["server"] = Paths
      /\ UNCHANGED << disk, tree, new, stale, chan, mode >>
  BY BothHosts DEF Wake, Goto, TypeOK
<1>4. pc["client"] = "recv" /\ chan["client"] = << >> /\ mode["client"] = "top"
  <2>1. Turn("client")
    BY ClientsTurn
  <2>2. PICK a \in 0 .. 7 : /\ Reads("server", a)
                            /\ Script(chan["server"], a, Stage("client", pc["client"]))
    BY <2>1, BothHosts DEF Turn
  <2>3. a = 7
    BY <2>2 DEF Reads, ReadsAt
  <2>4. chan["server"] \in Seq(Message)
    BY BothHosts DEF TypeOK
  <2>5. 7 <= Stage("client", pc["client"]) /\ Stage("client", pc["client"]) \in 0 .. 7
    BY <2>2, <2>3, <2>4, ScriptOrder
  <2> QED BY <2>1, <2>5 DEF Turn, Quiet, Stage, Sending
<1>5. PICK f : f = [i \in 1 .. 1 |-> 0]
  OBVIOUS
<1>6. \A p \in Paths : /\ Kind(ag[p]) # "none" <=> ag[p] # "none"
                       /\ Kind(W[p]) = "file" <=> W[p] \in FileData
  BY <1>2, BothHosts, KindParts DEF Grown
<1>7. ASSUME NEW p \in Paths
      PROVE  /\ ag[p] # "none" /\ p \in to /\ W[p] \in FileData => DueUpdate("server", p)'
             /\ ag[p] # "none" /\ W[p] = "none" => DueDelete("server", p)'
             /\ ag[p] = "none" /\ W[p] # "none" => DueCreate("server", p)'
  <2>1. tree'["server"][p] # "none" <=> ag[p] # "none"
    BY <1>2, <1>3, <1>6
  <2>2. disk'["server"][p] = W[p]
    BY <1>2, <1>3
  <2> QED BY <1>2, <1>3, <1>6, <2>1, <2>2
          DEF DueUpdate, DueDelete, DueCreate, Changed, Writing
<1>8. ASSUME NEW p \in Paths, R[p] # M[p] PROVE Owed("server", << >>, f, p)'
  <2>1. \/ ag[p] # "none" /\ p \in to /\ W[p] \in FileData
        \/ \E q \in Paths : IsPrefix(q, p) /\ ag[q] # "none" /\ W[q] = "none"
        \/ ag[p] = "none" /\ W[p] # "none"
    BY <1>1, <1>2, <1>8, ClientLacks
  <2> QED BY <1>7, <2>1 DEF Owed
<1>9. ASSUME NEW p \in Clashes(ag, be, to) PROVE DueUpdate("server", p)'
  <2>1. p \in Paths /\ ag[p] # "none" /\ p \in to /\ W[p] \in FileData
    BY DEF Clashes, Heard
  <2> QED BY <1>7, <2>1
<1>10. UnderWay("server", << >>, f, W, M, R, Written(ag, to), Clashes(ag, be, to))'
  <2>1. Labelling(f, << >>) /\ f[1] = 0 /\ f[Len(<< >>) + 1] = 0
        /\ \A i \in 1 .. Len(<< >>) : FALSE
    BY <1>5, NothingYet
  <2>2. Reads("client", 0)' /\ Stage("server", pc'["server"]) = 0
    BY <1>3, <1>4 DEF Reads, ReadsAt, ModeAt, Stage
  <2>3. disk'["client"] = R
    BY <1>2, <1>3
  <2>4. Sorted("server", << >>, f)'
    BY <2>1 DEF Sorted
  <2>5. \A p \in Paths : \/ disk'["client"][p] = M[p]
                         \/ disk'["client"][p] = R[p] /\ Owed("server", << >>, f, p)'
    BY <1>8, <2>3
  <2>6. Reads(Peer("server"), f[1])' /\ f[1] <= 6 /\ f[Len(<< >>) + 1] = Stage("server", pc'["server"])
    BY <2>1, <2>2, BothHosts DEF Reads
  <2> QED BY <1>9, <2>1, <2>4, <2>5, <2>6, BothHosts DEF UnderWay
<1>11. Scanned("server")'
  BY <1>2, <1>3, BothHosts DEF Scanned, Writing, NoTree
<1>12. Half("server", W, M, R, Written(ag, to), Clashes(ag, be, to))'
  <2>1. UnderWay("server", chan[Peer("server")], f, W, M, R, Written(ag, to),
                 Clashes(ag, be, to))'
    BY <1>3, <1>4, <1>10, BothHosts DEF UnderWay
  <2>2. disk'["server"] = W
    BY <1>2, <1>3
  <2> QED BY <1>3, <1>11, <2>1, <2>2 DEF Half, Sending
<1>13. ServerHalf(ag, be, to)'
  <2>1. Half("server", W, Merge(ag, be, to), R, Written(ag, to), Clashes(ag, be, to))'
    BY <1>1, <1>12 DEF Half, UnderWay
  <2>2. Remembers(ag)' /\ Noticed(ag, R, stale'["client"])
    BY <1>2, <1>3, BothHosts DEF Remembers
  <2>3. /\ Writing("server")' => \A p \in Paths : tree'["server"][p] = Kind(ag[p])
        /\ \A p \in todo'["server"] : p \in stale'["server"] <=> p \in to
        /\ pc'["client"] = "recv" /\ new'["client"] = NoTree
        /\ "client" \notin Editors => R = ag
    BY <1>2, <1>3, <1>4, BothHosts
  <2> QED BY <2>1, <2>2, <2>3 DEF ServerHalf
<1>14. /\ \A h \in Hosts : Proper(be[h]) /\ Proper(disk'[h])
       /\ Noticed(ag, be["server"], to)
  BY <1>2, <1>3 DEF Grown
<1> QED BY <1>13, <1>14 DEF Round

(* The client has read all the server told it: it has the merge, and has   *)
(* to tell what the server lacks.                                          *)
LEMMA TurnStep ==
  ASSUME Calm, TypeOK, ProtoInv, ~Down, NEW ag, NEW be, NEW to, Grown(ag, be, to),
         ServerHalf(ag, be, to), \A h \in Hosts : Proper(disk[h]), RecvDone("client")
  PROVE  Round(ag, be, to)'
<1> DEFINE W == be["server"]
           R == be["client"]
<1>1. PICK M : M = Merge(ag, be, to)
  OBVIOUS
<1>2. PICK s \in Seq(Message) : s = chan["client"]
  BY BothHosts DEF TypeOK
<1>3. /\ Half("server", W, M, R, Written(ag, to), Clashes(ag, be, to))
      /\ Remembers(ag) /\ ("client" \notin Editors => R = ag)
      /\ Noticed(ag, R, stale["client"]) /\ new["client"] = NoTree
      /\ pc["client"] = "recv"
  <2>1. Half("server", W, Merge(ag, be, to), R, Written(ag, to), Clashes(ag, be, to))
    BY DEF ServerHalf
  <2> QED BY <1>1, <2>1 DEF ServerHalf
<1>4. PICK f : UnderWay("server", s, f, W, M, R, Written(ag, to), Clashes(ag, be, to))
  BY <1>2, <1>3, BothHosts DEF Half
<1>5. /\ Labelling(f, s) /\ f[1] \in 0 .. 5 /\ mode["client"] = ModeAt(f[1])
      /\ f[Len(s) + 1] = Stage("server", pc["server"])
  BY <1>3, <1>4, BothHosts DEF UnderWay, Reads, ReadsAt
<1>6. /\ s # << >> /\ mode["client"] = "top" /\ Head(s).t = "DONE_CONTROL"
      /\ pc'["client"] = "scan" /\ pc'["server"] = pc["server"]
      /\ todo'["client"] = Paths /\ chan'["server"] = chan["server"]
      /\ UNCHANGED << disk, tree, new, stale, mode >>
  BY <1>2, BothHosts DEF RecvDone, TopCase, Incoming, Msg, AfterReceive, Goto, Consume, TypeOK
<1>7. Len(s) \in Nat \ {0} /\ Head(s) = s[1]
  BY <1>6, HeadTailProperties
<1>8. f[1] = 5 /\ f[2] = 6 /\ 1 \in 1 .. Len(s)
  <2>1. Says(f[1], s[1].t, f[2]) /\ 1 \in 1 .. Len(s)
    BY <1>5, <1>7 DEF Labelling
  <2> QED BY <1>5, <1>6, <1>7, <2>1 DEF Says
<1>9. pc["server"] \in Sending \cup {"recv"} /\ Stage("server", pc["server"]) <= 6
  BY <1>3 DEF Half, Stage, Sending
<1>10. Len(s) = 1
  <2> SUFFICES ASSUME Len(s) # 1 PROVE FALSE
    OBVIOUS
  <2>1. 2 \in 1 .. Len(s) /\ 3 \in 1 .. Len(s) + 1
    BY <1>7
  <2>2. Says(f[2], s[2].t, f[3])
    BY <1>5, <2>1 DEF Labelling
  <2>3. f[3] = 7
    BY <1>8, <2>2 DEF Says
  <2>4. 7 <= f[Len(s) + 1]
    BY <1>5, <2>1, <2>3, LabelParts
  <2> QED BY <1>5, <1>9, <2>4, StageTyped
<1>11. pc["server"] = "recv"
  BY <1>5, <1>8, <1>9, <1>10 DEF Stage, Sending, ProtoInv
<1>12. \A a, p : ~Pending(s, f, a, p)
  BY <1>6, <1>7, <1>10 DEF Pending, About, NodeTypes
<1>13. \A p \in Paths : ~DueUpdate("server", p) /\ ~DueDelete("server", p)
                        /\ ~DueCreate("server", p)
  BY <1>11 DEF DueUpdate, DueDelete, DueCreate, Writing
<1>14. Proper(M) /\ Clashes(ag, be, to) = {} /\ disk["client"] = M
  <2>1. Proper(M)
    BY <1>1, MergeProper
  <2>2. \A p \in Paths : disk["client"][p] = M[p]
    BY <1>4, <1>12, <1>13, BothHosts DEF UnderWay, Owed
  <2>3. Clashes(ag, be, to) \subseteq Paths
    BY DEF Clashes
  <2>4. \A p \in Clashes(ag, be, to) : FALSE
    BY <1>4, <1>12, <1>13, <2>3 DEF UnderWay
  <2>5. disk["client"] \in [Paths -> Node] /\ M \in [Paths -> Node]
    BY <2>1, ProperParts, BothHosts DEF TypeOK
  <2>6. disk["client"] = M
    BY <2>2, <2>5
  <2>7. Clashes(ag, be, to) = {}
    BY <2>4
  <2> QED BY <2>1, <2>6, <2>7
<1>15. Quiet("server")
  BY ServersTurn DEF Turn
<1>16. PICK g : g = [i \in 1 .. 1 |-> 0]
  OBVIOUS
<1>17. \A p \in Paths : /\ Kind(ag[p]) # "none" <=> ag[p] # "none"
                        /\ Kind(M[p]) = "file" <=> M[p] \in FileData
                        /\ tree["client"][p] \in {"none", Kind(ag[p])}
                        /\ "client" \in Editors => tree["client"][p] = Kind(ag[p])
  BY <1>3, <1>14, KindParts DEF Grown, Remembers
<1>18. ASSUME NEW p \in Paths
       PROVE  /\ "client" \in Editors /\ ag[p] # "none" /\ p \in stale["client"]
                   /\ M[p] \in FileData => DueUpdate("client", p)'
              /\ ag[p] # "none" /\ M[p] = "none" /\ "client" \in Editors =>
                   DueDelete("client", p)'
              /\ ag[p] = "none" /\ M[p] # "none" => DueCreate("client", p)'
  <2>1. disk'["client"][p] = M[p] /\ tree'["client"][p] = tree["client"][p]
        /\ stale'["client"] = stale["client"]
    BY <1>6, <1>14
  <2>2. ag[p] = "none" => tree["client"][p] = "none"
    BY <1>17
  <2> QED BY <1>6, <1>17, <2>1, <2>2 DEF DueUpdate, DueDelete, DueCreate, Changed, Writing
<1>19. ASSUME NEW p \in Paths, W[p] # M[p] PROVE Owed("client", << >>, g, p)'
  <2>1. PICK st : st = stale["client"]
    OBVIOUS
  <2>2. Noticed(ag, R, st)
    BY <1>3, <2>1
  <2>3. \/ "client" \in Editors /\ ag[p] # "none" /\ p \in st /\ M[p] \in FileData
        \/ \E q \in Paths : /\ IsPrefix(q, p) /\ ag[q] # "none" /\ M[q] = "none"
                            /\ "client" \in Editors
        \/ ag[p] = "none" /\ M[p] # "none"
    BY <1>1, <1>3, <1>19, <2>2, ServerLacks
  <2> QED BY <1>18, <2>1, <2>3 DEF Owed
<1>20. UnderWay("client", << >>, g, M, M, W, There(W), {})'
  <2>1. Labelling(g, << >>) /\ g[1] = 0 /\ g[Len(<< >>) + 1] = 0
        /\ \A i \in 1 .. Len(<< >>) : FALSE
    BY <1>16, NothingYet
  <2>2. Reads("server", 0)' /\ Stage("client", pc'["client"]) = 0
    BY <1>6, <1>11, <1>15 DEF Reads, ReadsAt, ModeAt, Stage, Quiet
  <2>3. disk'["server"] = W
    BY <1>3, <1>6 DEF Half
  <2>4. Sorted("client", << >>, g)'
    BY <2>1 DEF Sorted
  <2>5. \A p \in Paths : \/ disk'["server"][p] = M[p]
                         \/ disk'["server"][p] = W[p] /\ Owed("client", << >>, g, p)'
    BY <1>19, <2>3
  <2>6. Reads(Peer("client"), g[1])' /\ g[1] <= 6 /\ g[Len(<< >>) + 1] = Stage("client", pc'["client"])
    BY <2>1, <2>2, BothHosts DEF Reads
  <2> QED BY <2>1, <2>4, <2>5, <2>6, BothHosts DEF UnderWay
<1>21. Scanned("client")'
  BY <1>3, <1>6 DEF Scanned, Writing, NoTree
<1>22. Half("client", M, M, W, There(W), {})'
  <2>1. UnderWay("client", chan[Peer("client")], g, M, M, W, There(W), {})'
    BY <1>6, <1>15, <1>20, BothHosts DEF UnderWay, Quiet
  <2>2. disk'["client"] = M
    BY <1>6, <1>14
  <2> QED BY <1>6, <1>21, <2>1, <2>2 DEF Half, Sending
<1>23. new'["server"] = NoTree
  BY <1>3, <1>6, <1>11 DEF Half, Scanned, Writing
<1>24. ASSUME NEW p \in Paths, tree'["client"][p] # "none", M[p] # "none"
       PROVE  p \in There(W)
  <2>1. ag[p] # "none"
    BY <1>6, <1>17, <1>24
  <2> QED BY <1>1, <1>24, <2>1, MergeKept, BothHosts DEF There
<1>25. ClientHalf(ag, be, to)'
  <2>1. Half("client", Merge(ag, be, to), Merge(ag, be, to), W, There(W), {})'
    BY <1>1, <1>22 DEF Half, UnderWay
  <2> QED BY <1>1, <1>6, <1>11, <1>14, <1>23, <1>24, <2>1 DEF ClientHalf, Writing
<1>26. \A h \in Hosts : Proper(be[h]) /\ Proper(disk'[h])
  BY <1>6 DEF Grown
<1> QED BY <1>25, <1>26 DEF Round, Grown

(* The server has read all the client told it: both have the merge.        *)
LEMMA RebuildStep ==
  ASSUME Calm, TypeOK, ProtoInv, ~Down, NEW ag, NEW be, NEW to, Grown(ag, be, to),
         ClientHalf(ag, be, to), \A h \in Hosts : Proper(disk[h]), Rebuild,
         NEW M, M = Merge(ag, be, to)
  PROVE  /\ Proper(M) /\ \A h \in Hosts : disk'[h] = M
         /\ pc'["server"] = "wait"
         /\ Open(M, be, to)'
<1>1. PICK s \in Seq(Message) : s = chan["server"]
  BY BothHosts DEF TypeOK
<1>2. PICK R : R = be["server"]
  OBVIOUS
<1>3. /\ Half("client", M, M, R, There(R), {})
      /\ new["server"] = NoTree
      /\ ~Writing("client") => \A p \in Paths : tree["client"][p] = Kind(M[p])
  BY <1>2 DEF ClientHalf
<1>4. PICK f : UnderWay("client", s, f, M, M, R, There(R), {})
  BY <1>1, <1>3, BothHosts DEF Half
<1>5. /\ pc["server"] = "rebuild" /\ pc'["server"] = "wait" /\ pc'["client"] = pc["client"]
      /\ tree'["server"] = TreeOf(disk["server"]) /\ tree'["client"] = tree["client"]
      /\ stale'["server"] = {} /\ stale'["client"] = stale["client"]
      /\ UNCHANGED << disk, new >>
  BY BothHosts DEF Rebuild, Goto, TypeOK
<1>6. /\ Labelling(f, s) /\ f[1] = 6 /\ f[Len(s) + 1] = Stage("client", pc["client"])
      /\ Len(s) \in Nat
  BY <1>4, <1>5, BothHosts DEF UnderWay, Reads, ReadsAt
<1>7. \A i \in 1 .. Len(s) + 1 : f[i] \in 0 .. 7 /\ 6 <= f[i]
  BY <1>6, LabelParts
<1>8. pc["client"] \in {"again", "recv"}
  <2>1. 6 <= Stage("client", pc["client"])
    BY <1>6, <1>7
  <2> QED BY <1>3, <2>1 DEF Half, Stage, Sending
<1>9. ~Writing("client") /\ new["client"] = NoTree
  BY <1>3, <1>8 DEF Writing, Half, Scanned
<1>10. \A p \in Paths : ~Owed("client", s, f, p)
  <2>1. \A a, p : a \in {0, 2, 4} => ~Pending(s, f, a, p)
    BY <1>6, <1>7 DEF Pending
  <2> QED BY <1>8, <2>1 DEF Owed, DueUpdate, DueDelete, DueCreate, Writing
<1>11. Proper(M) /\ disk["client"] = M /\ disk["server"] = M
  <2>1. Proper(M)
    BY MergeProper
  <2>2. \A p \in Paths : disk["server"][p] = M[p]
    BY <1>4, <1>10, BothHosts DEF UnderWay
  <2>3. disk["server"] \in [Paths -> Node] /\ M \in [Paths -> Node]
    BY <2>1, ProperParts, BothHosts DEF TypeOK
  <2>4. disk["server"] = M
    BY <2>2, <2>3
  <2> QED BY <1>3, <2>1, <2>4 DEF Half
<1>12. \A h \in Hosts : disk'[h] = M /\ new'[h] = NoTree
  BY <1>3, <1>5, <1>9, <1>11, BothHosts
<1>13. \A p \in Paths : tree'["server"][p] = Kind(M[p]) /\ tree'["client"][p] = Kind(M[p])
  BY <1>3, <1>5, <1>9, <1>11 DEF TreeOf, Calm
<1>14. \A h \in Hosts : Proper(disk'[h]) /\ Noticed(M, disk'[h], stale'[h])
  BY <1>11, <1>12 DEF Noticed
<1>15. Remembers(M)'
  BY <1>13 DEF Remembers
<1>16. Open(M, be, to)'
  BY <1>5, <1>12, <1>13, <1>14, <1>15, BothHosts DEF Open
<1> QED BY <1>5, <1>11, <1>12, <1>16

-----------------------------------------------------------------------------
(* Steps of the system.                                                    *)

(* Who has exited stays so.                                                *)
LEMMA ExitedStays ==
  ASSUME TypeOK, Next, NEW h \in Hosts, pc[h] = "exited" PROVE pc'[h] = "exited"
<1>1. pc \in [Hosts -> Labels]
  BY DEF TypeOK
<1>2. ASSUME NEW k \in Hosts, Walk(k) \/ Receive(k) PROVE pc'[h] = "exited"
  <2>1. pc[k] \in Sending \cup {"recv"} /\ (pc' = pc \/ \E l : pc' = [pc EXCEPT ![k] = l])
    <3>1. CASE Walk(k)
      BY <3>1 DEF Walk, Visit, SendUpdate, Miss, SendDelete, SendCreate, UpdatesDone,
                  StartDeletes, DeletesDone, StartCreates, CreatesDone, Finish, AskAgain,
                  BrokenPipe, Goto, Sending
    <3>2. CASE Receive(k)
      BY <3>2 DEF Receive, RecvUpdate, RecvUpdateFails, RecvToken, RecvDelete, RecvCreate,
                  RecvListEnd, RecvDone, RecvEOF, TopCase, Incoming, AfterReceive, Goto
    <3> QED BY <1>2, <3>1, <3>2
  <2>2. k # h
    BY <2>1 DEF Sending
  <2> QED BY <1>1, <2>1, <2>2
<1>3. CASE ServerLoop
  <2>1. pc["server"] \in {"rebuild", "wait", "sleep"} /\ \E l : pc' = [pc EXCEPT !["server"] = l]
    BY <1>3 DEF ServerLoop, Rebuild, HandleRequest, SpinAtEOF, Wake, Goto
  <2>2. h # "server"
    BY <2>1
  <2> QED BY <1>1, <2>1, <2>2
<1>4. CASE Edit \/ Over
  BY <1>4 DEF Edit, EditFile, EditFolder, EditDelete, Over, vars
<1> QED BY <1>2, <1>3, <1>4 DEF Next

(* A step of a walk is of a host that writes, and changes only what is its *)
(* own.                                                                    *)
LEMMA WalkParts ==
  ASSUME TypeOK, NEW h \in Hosts, Walk(h), pc'[h] # "exited"
  PROVE  /\ pc[h] \in Sending /\ pc'[h] \in Sending \cup {"recv"}
         /\ pc'[Peer(h)] = pc[Peer(h)] /\ UNCHANGED << disk, mode >>
         /\ new'[Peer(h)] = new[Peer(h)] /\ tree'[Peer(h)] = tree[Peer(h)]
         /\ stale'[Peer(h)] = stale[Peer(h)]
         /\ \/ tree' = tree /\ (Writing(h)' <=> Writing(h))
            \/ /\ pc[h] = "create" /\ pc'[h] = "finish"
               /\ tree'[h] = new[h]
         /\ pc'[h] = "scan" =>
              /\ pc[h] = "scan" /\ todo'[h] \subseteq todo[h]
              /\ \A p \in todo'[h] : p \in stale'[h] <=> p \in stale[h]
<1>1. /\ pc \in [Hosts -> Labels] /\ Peer(h) \in Hosts /\ Peer(h) # h
      /\ new \in [Hosts -> [Paths -> Kinded]] /\ tree \in [Hosts -> [Paths -> Kinded]]
      /\ stale \in [Hosts -> SUBSET Paths] /\ todo \in [Hosts -> SUBSET Paths]
  BY TwoHosts DEF TypeOK
<1>2. ASSUME NEW p \in Paths, Visit(h, p) \/ SendUpdate(h, p)
      PROVE  /\ pc[h] = "scan" /\ UNCHANGED << disk, mode, pc, tree >>
             /\ new'[Peer(h)] = new[Peer(h)] /\ stale'[Peer(h)] = stale[Peer(h)]
             /\ todo'[h] = todo[h] \ {p} /\ stale'[h] = stale[h] \ {p}
  BY <1>1, <1>2 DEF Visit, SendUpdate, Record, Walked
<1>3. ASSUME NEW p \in Paths, Visit(h, p) \/ SendUpdate(h, p)
      PROVE  /\ pc'[h] = "scan" /\ Writing(h) /\ Writing(h)'
             /\ \A q \in todo'[h] : q \in stale'[h] <=> q \in stale[h]
  BY <1>1, <1>2, <1>3 DEF Writing
<1>4. ASSUME NEW p \in Paths, Miss(h, p) \/ SendDelete(h, p) \/ SendCreate(h, p)
      PROVE  /\ pc[h] \in {"scan", "delete", "create"}
             /\ UNCHANGED << disk, mode, pc, tree, new, stale >>
             /\ todo'[h] = todo[h] \ {p} /\ (Writing(h)' <=> Writing(h))
  BY <1>1, <1>4 DEF Miss, SendDelete, SendCreate, Walked, Writing
<1>5. ASSUME UpdatesDone(h) \/ StartDeletes(h) \/ DeletesDone(h) \/ StartCreates(h)
      PROVE  /\ pc[h] \in {"scan", "startDelete", "delete", "startCreate"}
             /\ pc'[h] \in {"startDelete", "delete", "startCreate", "create"}
             /\ UNCHANGED << disk, mode, tree, new, stale >>
             /\ pc'[Peer(h)] = pc[Peer(h)] /\ Writing(h) /\ Writing(h)'
  BY <1>1, <1>5 DEF UpdatesDone, StartDeletes, DeletesDone, StartCreates, Goto, Writing
<1>6. ASSUME CreatesDone(h)
      PROVE  /\ pc[h] = "create" /\ pc'[h] = "finish" /\ tree'[h] = new[h]
             /\ UNCHANGED << disk, mode, stale >>
             /\ pc'[Peer(h)] = pc[Peer(h)] /\ new'[Peer(h)] = new[Peer(h)]
             /\ tree'[Peer(h)] = tree[Peer(h)]
  BY <1>1, <1>6 DEF CreatesDone, Goto
<1>7. ASSUME Finish(h) \/ AskAgain(h)
      PROVE  /\ pc[h] \in Sending /\ pc'[h] \in {"recv", "again"}
             /\ UNCHANGED << disk, mode, tree, new, stale >>
             /\ pc'[Peer(h)] = pc[Peer(h)]
             /\ ~Writing(h) /\ ~Writing(h)'
  BY <1>1, <1>7 DEF Finish, AskAgain, Goto, Sending, Writing
<1>8. ~BrokenPipe(h)
  BY <1>1 DEF BrokenPipe, Goto
<1> DEFINE Goal ==
      /\ pc[h] \in Sending /\ pc'[h] \in Sending \cup {"recv"}
      /\ pc'[Peer(h)] = pc[Peer(h)] /\ UNCHANGED << disk, mode >>
      /\ new'[Peer(h)] = new[Peer(h)] /\ tree'[Peer(h)] = tree[Peer(h)]
      /\ stale'[Peer(h)] = stale[Peer(h)]
      /\ \/ tree' = tree /\ (Writing(h)' <=> Writing(h))
         \/ /\ pc[h] = "create" /\ pc'[h] = "finish"
            /\ tree'[h] = new[h]
      /\ pc'[h] = "scan" =>
           /\ pc[h] = "scan" /\ todo'[h] \subseteq todo[h]
           /\ \A p \in todo'[h] : p \in stale'[h] <=> p \in stale[h]
<1>9. ASSUME NEW p \in Paths, Visit(h, p) \/ SendUpdate(h, p) PROVE Goal
  BY <1>2, <1>3, <1>9 DEF Sending
<1>10. ASSUME NEW p \in Paths, Miss(h, p) \/ SendDelete(h, p) \/ SendCreate(h, p) PROVE Goal
  BY <1>4, <1>10 DEF Sending
<1>11. ASSUME UpdatesDone(h) \/ StartDeletes(h) \/ DeletesDone(h) \/ StartCreates(h)
       PROVE  Goal
  BY <1>5, <1>11 DEF Sending
<1>12. ASSUME CreatesDone(h) PROVE Goal
  BY <1>6, <1>12 DEF Sending
<1>13. ASSUME Finish(h) \/ AskAgain(h) PROVE Goal
  BY <1>7, <1>13 DEF Sending
<1> HIDE DEF Goal
<1>14. Goal
  BY <1>8, <1>9, <1>10, <1>11, <1>12, <1>13 DEF Walk
<1> QED BY <1>14 DEF Goal

(* Between two rounds the client asks for the next one, the server starts  *)
(* its nap or ends it, and users edit.                                     *)
LEMMA OpenActions ==
  ASSUME Calm, TypeOK, ProtoInv, ~Down, ~Down',
         pc["server"] \in {"wait", "sleep"}, [Next]_vars
  PROVE  \/ pc["server"] = "sleep" /\ Wake
         \/ pc["server"] = "sleep" /\ Edit
         \/ /\ UNCHANGED << disk, tree, new, stale >>
            /\ \/ pc' = pc
               \/ pc' = [pc EXCEPT !["client"] = "recv"]
               \/ pc["server"] = "wait" /\ pc'["server"] \in {"wait", "sleep"}
<1>1. pc \in [Hosts -> Labels] /\ pc["server"] # "exited" /\ pc["client"] # "exited"
      /\ pc'["server"] # "exited" /\ pc'["client"] # "exited"
  BY BothHosts DEF TypeOK, Down
<1>2. Turn("client")
  BY ClientsTurn
<1>3. pc["client"] \in {"again", "recv"} /\ chan["client"] = << >>
  <2>1. PICK a \in 0 .. 7 : /\ Reads("server", a)
                            /\ Script(chan["server"], a, Stage("client", pc["client"]))
    BY <1>2, BothHosts DEF Turn
  <2>2. a \in {6, 7} /\ chan["server"] \in Seq(Message)
    BY <2>1, BothHosts DEF Reads, ReadsAt, TypeOK
  <2>3. 6 <= Stage("client", pc["client"]) /\ Stage("client", pc["client"]) \in 0 .. 7
    BY <2>1, <2>2, ScriptOrder
  <2> QED BY <1>2, <2>3 DEF Turn, Quiet, Stage, Sending
<1>4. ASSUME NEW h \in Hosts, Walk(h)
      PROVE  /\ UNCHANGED << disk, tree, new, stale >>
             /\ pc' = [pc EXCEPT !["client"] = "recv"]
  <2>1. pc[h] \in Sending
    BY <1>1, <1>4, BothHosts, WalkParts
  <2>2. h = "client" /\ pc[h] = "again"
    BY <1>3, <2>1, BothHosts DEF Sending
  <2>3. ~BrokenPipe(h)
    BY <1>1, <2>2, BothHosts DEF BrokenPipe
  <2>4. AskAgain(h)
    BY <1>4, <2>2, <2>3 DEF Walk, Visit, SendUpdate, Miss, SendDelete, SendCreate, UpdatesDone,
          StartDeletes, DeletesDone, StartCreates, CreatesDone, Finish
  <2> QED BY <2>2, <2>4 DEF AskAgain, Goto
<1>5. ASSUME NEW h \in Hosts, Receive(h) PROVE FALSE
  <2>1. pc[h] = "recv"
    BY <1>5 DEF Receive, RecvUpdate, RecvUpdateFails, RecvToken, RecvDelete, RecvCreate,
                RecvListEnd, RecvDone, RecvEOF, TopCase, Incoming
  <2>2. h = "client"
    BY <2>1, BothHosts
  <2>3. RecvEOF(h)
    BY <1>3, <1>5, <2>2 DEF Receive, RecvUpdate, RecvUpdateFails, RecvToken, RecvDelete,
                RecvCreate, RecvListEnd, RecvDone, TopCase, Incoming
  <2> QED BY <1>1, <2>2, <2>3, BothHosts DEF RecvEOF
<1>6. CASE ServerLoop
  <2>1. ~Rebuild /\ ~SpinAtEOF
    BY <1>1 DEF Rebuild, SpinAtEOF
  <2>2. CASE HandleRequest
    <3>1. pc["server"] = "wait" /\ pc'["server"] \in {"wait", "sleep"}
      BY <1>1, <2>2, BothHosts DEF HandleRequest, Goto
    <3> QED BY <2>2, <3>1 DEF HandleRequest
  <2>3. CASE Wake
    BY <2>3 DEF Wake
  <2> QED BY <1>6, <2>1, <2>2, <2>3 DEF ServerLoop
<1>7. ~Over
  BY <1>1 DEF Over
<1>8. CASE UNCHANGED vars
  BY <1>8 DEF vars
<1>9. CASE Edit
  <2>1. pc' = pc
    BY <1>9 DEF Edit, EditFile, EditFolder, EditDelete
  <2>2. pc["server"] = "sleep" \/ AnyTime
    BY <1>9 DEF Edit, EditFile, EditFolder, EditDelete, MayEdit, Calm
  <2>3. CASE pc["server"] = "sleep"
    BY <1>9, <2>3
  <2>4. CASE pc["server"] = "wait"
    BY <2>2, <2>4 DEF Calm
  <2> QED BY <2>3, <2>4
<1> QED BY <1>4, <1>5, <1>6, <1>7, <1>8, <1>9 DEF Next

(* An edit in the nap leaves a directory that users make.                  *)
LEMMA EditStep ==
  ASSUME Calm, TypeOK, NEW ag, NEW be, NEW to, Proper(ag), Open(ag, be, to),
         pc["server"] = "sleep", Edit,
         NEW be2, be2 = disk', NEW to2, to2 = stale'["server"]
  PROVE  Open(ag, be2, to2)'
<1>1. PICK h \in Hosts, p \in Paths : EditFile(h, p) \/ EditFolder(h, p) \/ EditDelete(h, p)
  BY DEF Edit
<1>2. /\ h \in Editors /\ UNCHANGED << tree, new, pc >>
      /\ disk \in [Hosts -> [Paths -> Node]] /\ stale \in [Hosts -> SUBSET Paths]
  BY <1>1 DEF EditFile, EditFolder, EditDelete, MayEdit, TypeOK
<1>3. PICK dk : dk = disk[h]
  OBVIOUS
<1>4. Proper(dk) /\ Noticed(ag, dk, stale[h])
  BY <1>3 DEF Open
<1>5. \E dl : /\ disk' = [disk EXCEPT ![h] = dl] /\ Proper(dl)
              /\ Noticed(ag, dl, stale'[h])
              /\ \A k \in Hosts : k # h => stale'[k] = stale[k]
  <2>1. CASE EditFile(h, p) \/ EditFolder(h, p)
    <3>1. PICK dl \in UserFile(dk, p) \cup UserFolder(dk, p) : disk' = [disk EXCEPT ![h] = dl]
      BY <1>3, <2>1 DEF EditFile, EditFolder
    <3>2. stale' = [stale EXCEPT ![h] = stale[h] \cup {p}]
      <4>1. SameSecond = FALSE
        BY ParameterAssumption DEF Calm
      <4>2. PICK kept \in {FALSE, SameSecond} :
              stale' = [stale EXCEPT ![h] = IF kept THEN @ ELSE @ \cup {p}]
        BY <2>1 DEF EditFile, EditFolder, Touch
      <4>3. kept = FALSE
        BY <4>1
      <4> QED BY <4>2, <4>3
    <3>3. Proper(dl) /\ \A q \in Paths : q # p => dl[q] = dk[q]
      BY <1>4, <3>1, UserProper
    <3>4. stale'[h] = stale[h] \cup {p} /\ \A k \in Hosts : k # h => stale'[k] = stale[k]
      BY <1>2, <3>2
    <3>5. Noticed(ag, dl, stale'[h])
      BY <1>4, <3>3, <3>4 DEF Noticed
    <3> QED BY <3>1, <3>3, <3>4, <3>5
  <2>2. CASE EditDelete(h, p)
    <3>1. PICK dl \in UserDelete(dk, p) : disk' = [disk EXCEPT ![h] = dl]
      BY <1>3, <2>2 DEF EditDelete
    <3>2. stale' = stale
      BY <2>2 DEF EditDelete
    <3>3. Proper(dl) /\ \A q \in Paths : dl[q] # "none" => dl[q] = dk[q]
      BY <1>4, <3>1, UserProper
    <3>4. Noticed(ag, dl, stale'[h])
      BY <1>4, <3>2, <3>3 DEF Noticed
    <3> QED BY <3>1, <3>2, <3>3, <3>4
  <2> QED BY <1>1, <2>1, <2>2
<1>6. PICK dl : /\ disk' = [disk EXCEPT ![h] = dl] /\ Proper(dl)
                /\ Noticed(ag, dl, stale'[h])
                /\ \A k \in Hosts : k # h => stale'[k] = stale[k]
  BY <1>5
<1>7. disk'[h] = dl /\ \A k \in Hosts : k # h => disk'[k] = disk[k]
  BY <1>2, <1>6
<1>8. \A k \in Hosts : Proper(disk'[k]) /\ Noticed(ag, disk'[k], stale'[k]) /\ new'[k] = NoTree
  <2> SUFFICES ASSUME NEW k \in Hosts
               PROVE  Proper(disk'[k]) /\ Noticed(ag, disk'[k], stale'[k]) /\ new'[k] = NoTree
    OBVIOUS
  <2>1. new'[k] = NoTree
    BY <1>2 DEF Open
  <2>2. CASE k = h
    BY <1>6, <1>7, <2>1, <2>2
  <2>3. CASE k # h
    <3>1. Proper(disk[k]) /\ Noticed(ag, disk[k], stale[k])
      BY DEF Open
    <3> QED BY <1>6, <1>7, <2>1, <2>3, <3>1
  <2> QED BY <2>2, <2>3
<1>9. Remembers(ag)' /\ \A p2 \in Paths : tree'["server"][p2] = Kind(ag[p2])
  BY <1>2 DEF Open, Remembers
<1>10. "client" \notin Editors => disk'["client"] = ag
  BY <1>2, <1>7, BothHosts DEF Open
<1> QED BY <1>2, <1>8, <1>9, <1>10 DEF Open

(* A step between two rounds, or into one.                                 *)
LEMMA OpenStep ==
  ASSUME Calm, TypeOK, ProtoInv, ~Down, ~Down', NEW ag, NEW be, NEW to, Proper(ag),
         pc["server"] \in {"wait", "sleep"}, Open(ag, be, to), [Next]_vars,
         NEW ag2, ag2 = IF pc'["server"] = "wait" THEN disk'["server"] ELSE ag,
         NEW be2, be2 = IF pc'["server"] = "sleep" THEN disk' ELSE be,
         NEW to2, to2 = IF pc'["server"] = "sleep" THEN stale'["server"] ELSE to
  PROVE  /\ ag2 = ag
         /\ IF pc'["server"] \in {"wait", "sleep"} THEN Open(ag, be2, to2)'
            ELSE be2 = be /\ to2 = to /\ Round(ag, be, to)'
<1>1. CASE pc["server"] = "sleep" /\ Wake
  <2>1. pc'["server"] = "scan"
    BY <1>1, BothHosts DEF Wake, Goto, TypeOK
  <2>2. Round(ag, be, to)'
    BY <1>1, WakeStep
  <2> QED BY <2>1, <2>2
<1>2. CASE pc["server"] = "sleep" /\ Edit
  <2>1. pc' = pc
    BY <1>2 DEF Edit, EditFile, EditFolder, EditDelete
  <2>2. be2 = disk' /\ to2 = stale'["server"] /\ ag2 = ag /\ pc'["server"] = "sleep"
    BY <1>2, <2>1
  <2>3. Open(ag, be2, to2)'
    BY <1>2, <2>2, EditStep
  <2> QED BY <2>2, <2>3
<1>3. ASSUME UNCHANGED << disk, tree, new, stale >>,
             \/ pc' = pc
             \/ pc' = [pc EXCEPT !["client"] = "recv"]
             \/ pc["server"] = "wait" /\ pc'["server"] \in {"wait", "sleep"}
      PROVE  ag2 = ag /\ pc'["server"] \in {"wait", "sleep"} /\ Open(ag, be2, to2)'
  <2>1. pc'["server"] \in {"wait", "sleep"} /\ (pc'["server"] = "wait" => pc["server"] = "wait")
    BY <1>3, BothHosts DEF TypeOK
  <2>2. /\ \A h \in Hosts : Proper(disk'[h]) /\ Noticed(ag, disk'[h], stale'[h])
                              /\ new'[h] = NoTree
        /\ \A p \in Paths : tree'["server"][p] = Kind(ag[p])
        /\ "client" \notin Editors => disk'["client"] = ag
    BY <1>3 DEF Open
  <2>3. Remembers(ag)'
    BY <1>3 DEF Open, Remembers
  <2>4. pc'["server"] = "wait" => (\A h \in Hosts : disk'[h] = ag) /\ stale'["server"] = {}
    BY <1>3, <2>1 DEF Open
  <2>5. pc'["server"] # "wait" => be2 = disk' /\ to2 = stale'["server"]
    BY <2>1
  <2>6. ag2 = ag
    BY <2>4, BothHosts
  <2> QED BY <2>1, <2>2, <2>3, <2>4, <2>5, <2>6 DEF Open
<1> QED BY <1>1, <1>2, <1>3, OpenActions

(* In the server's half the server walks and the client receives.          *)
LEMMA ServerHalfStep ==
  ASSUME Calm, TypeOK, ProtoInv, ~Down, ~Down', NEW ag, NEW be, NEW to, Grown(ag, be, to),
         ServerHalf(ag, be, to), \A h \in Hosts : Proper(disk[h]), Next
  PROVE  Round(ag, be, to)' /\ pc'["server"] \notin {"wait", "sleep"}
<1>1. PICK W, M, R, A, X :
        /\ W = be["server"] /\ M = Merge(ag, be, to) /\ R = be["client"]
        /\ A = Written(ag, to) /\ X = Clashes(ag, be, to)
  OBVIOUS
<1>2. /\ Half("server", W, M, R, A, X)
      /\ Writing("server") => \A p \in Paths : tree["server"][p] = Kind(ag[p])
      /\ pc["server"] = "scan" => \A p \in todo["server"] : p \in stale["server"] <=> p \in to
      /\ pc["client"] = "recv" /\ new["client"] = NoTree
      /\ Remembers(ag) /\ ("client" \notin Editors => R = ag)
      /\ Noticed(ag, R, stale["client"])
  BY <1>1 DEF ServerHalf
<1>3. /\ Proper(W) /\ Proper(M) /\ Proper(R) /\ \A h \in Hosts : Proper(be[h])
      /\ Noticed(ag, be["server"], to)
  BY <1>1, BothHosts, MergeProper DEF Grown
<1>4. X \subseteq {p \in Paths : Lost(M, R, p)} /\ X \subseteq Paths
  BY <1>1, ServerTells DEF Clashes
<1>5. /\ pc["server"] \in Sending \cup {"recv"}
      /\ pc'["server"] # "exited" /\ pc'["client"] # "exited"
      /\ pc["server"] # "exited" /\ pc["client"] # "exited"
      /\ pc \in [Hosts -> Labels] /\ pc["server"] # "again"
  BY <1>2, BothHosts DEF Half, Down, TypeOK, ProtoInv
<1>6. Quiet("server")
  BY ServersTurn DEF Turn
<1>7. ASSUME Half("server", W, M, R, A, X)', \A h \in Hosts : Proper(disk'[h]),
             Writing("server")' => \A p \in Paths : tree'["server"][p] = Kind(ag[p]),
             pc'["server"] = "scan" =>
               \A p \in todo'["server"] : p \in stale'["server"] <=> p \in to,
             pc'["client"] = "recv", new'["client"] = NoTree,
             tree'["client"] = tree["client"], stale["client"] \subseteq stale'["client"]
      PROVE  Round(ag, be, to)' /\ pc'["server"] \notin {"wait", "sleep"}
  <2>1. Remembers(ag)' /\ Noticed(ag, R, stale'["client"])
    BY <1>2, <1>7 DEF Remembers, Noticed
  <2>2. Half("server", be["server"], Merge(ag, be, to), be["client"], Written(ag, to),
             Clashes(ag, be, to))'
    BY <1>1, <1>7 DEF Half, UnderWay
  <2>3. ServerHalf(ag, be, to)'
    BY <1>1, <1>2, <1>7, <2>1, <2>2 DEF ServerHalf
  <2>4. pc'["server"] \in Sending \cup {"recv"}
    BY <1>7 DEF Half
  <2> QED BY <1>3, <1>7, <2>3, <2>4 DEF Round, Sending
<1>8. CASE Walk("server")
  <2>1. Honest("server", W, M, R, A)
    BY <1>1, ServerHonest
  <2>2. Half("server", W, M, R, A, X)'
    BY <1>2, <1>3, <1>4, <1>5, <1>8, <2>1, BothHosts, WalkHalf
  <2>3. /\ pc["server"] \in Sending /\ pc'["client"] = pc["client"] /\ disk' = disk
        /\ new'["client"] = new["client"] /\ tree'["client"] = tree["client"]
        /\ stale'["client"] = stale["client"]
        /\ \/ tree' = tree /\ (Writing("server")' <=> Writing("server"))
           \/ pc["server"] = "create" /\ pc'["server"] = "finish"
        /\ pc'["server"] = "scan" =>
             /\ pc["server"] = "scan" /\ todo'["server"] \subseteq todo["server"]
             /\ \A p \in todo'["server"] : p \in stale'["server"] <=> p \in stale["server"]
    <3>1. PICK h \in Hosts : h = "server"
      BY BothHosts
    <3> QED BY <1>5, <1>8, <3>1, BothHosts, WalkParts
  <2>4. Writing("server")' => \A p \in Paths : tree'["server"][p] = Kind(ag[p])
    <3>1. pc'["server"] = "finish" => ~Writing("server")'
      BY DEF Writing
    <3> QED BY <1>2, <2>3, <3>1
  <2>5. pc'["server"] = "scan" =>
          \A p \in todo'["server"] : p \in stale'["server"] <=> p \in to
    BY <1>2, <2>3
  <2> QED BY <1>2, <1>7, <2>2, <2>3, <2>4, <2>5
<1>9. CASE Receive("client")
  <2>1. CASE RecvDone("client")
    <3>1. Round(ag, be, to)'
      BY <2>1, TurnStep
    <3>2. pc'["server"] = pc["server"]
      BY <1>5, <2>1, BothHosts DEF RecvDone, AfterReceive, Goto
    <3> QED BY <1>5, <3>1, <3>2 DEF Sending
  <2>2. CASE ~RecvDone("client")
    <3>1. ~RecvEOF("client") /\ ~RecvUpdateFails("client")
      BY <1>5, BothHosts DEF RecvEOF, RecvUpdateFails, Goto
    <3>2. pc' = pc /\ UNCHANGED << tree, new, todo >>
          /\ stale'["server"] = stale["server"] /\ stale["client"] \subseteq stale'["client"]
          /\ disk'["server"] = disk["server"]
      BY <1>9, <2>2, <3>1, BothHosts
         DEF Receive, RecvUpdate, RecvToken, RecvDelete, RecvCreate, RecvListEnd, TypeOK
    <3>3. Half("server", W, M, R, A, X)' /\ Proper(disk'["client"])
      <4>1. pc'["client"] \in {"recv", "rebuild"} /\ Proper(disk["client"])
        BY <1>2, <3>2, BothHosts
      <4> QED BY <1>2, <1>3, <1>4, <1>9, <4>1, BothHosts, ReceiveHalf
    <3>4. \A h \in Hosts : Proper(disk'[h])
      BY <3>2, <3>3, BothHosts
    <3>5. Writing("server")' <=> Writing("server")
      BY <3>2 DEF Writing
    <3> QED BY <1>2, <1>7, <3>2, <3>3, <3>4, <3>5
  <2> QED BY <2>1, <2>2
<1>10. ~Receive("server")
  BY <1>5, <1>6, BothHosts
     DEF Receive, RecvUpdate, RecvUpdateFails, RecvToken, RecvDelete, RecvCreate,
         RecvListEnd, RecvDone, RecvEOF, TopCase, Incoming, Quiet
<1>11. ~Walk("client")
  <2>1. PICK h \in Hosts : h = "client"
    BY BothHosts
  <2>2. Walk(h) => pc[h] \in Sending
    BY <1>5, <2>1, WalkParts
  <2> QED BY <1>2, <2>1, <2>2 DEF Sending
<1>12. ~ServerLoop /\ ~Edit /\ ~Over
  BY <1>5 DEF ServerLoop, Rebuild, HandleRequest, SpinAtEOF, Wake, Sending, Edit, EditFile,
              EditFolder, EditDelete, MayEdit, Calm, Over
<1> QED BY <1>8, <1>9, <1>10, <1>11, <1>12, BothHosts DEF Next

(* In the client's half the client walks and the server receives, until it *)
(* rebuilds its tree.                                                      *)
LEMMA ClientHalfStep ==
  ASSUME Calm, TypeOK, ProtoInv, ~Down, ~Down', NEW ag, NEW be, NEW to, Grown(ag, be, to),
         ClientHalf(ag, be, to), \A h \in Hosts : Proper(disk[h]), Next
  PROVE  \/ Rebuild
         \/ Round(ag, be, to)' /\ pc'["server"] \notin {"wait", "sleep"}
<1>1. PICK W, M, A : W = be["server"] /\ M = Merge(ag, be, to) /\ A = There(be["server"])
  OBVIOUS
<1>2. /\ Half("client", M, M, W, A, {})
      /\ Clashes(ag, be, to) = {}
      /\ pc["server"] \in {"recv", "rebuild"} /\ new["server"] = NoTree
      /\ IF Writing("client")
         THEN \A p \in Paths : tree["client"][p] # "none" /\ M[p] # "none" => p \in A
         ELSE \A p \in Paths : tree["client"][p] = Kind(M[p])
  BY <1>1 DEF ClientHalf
<1>3. Proper(W) /\ Proper(M) /\ (\A h \in Hosts : Proper(be[h]))
      /\ Noticed(ag, be["server"], to)
  BY <1>1, BothHosts, MergeProper DEF Grown
<1>4. /\ pc["client"] \in Sending \cup {"recv"}
      /\ pc'["server"] # "exited" /\ pc'["client"] # "exited"
      /\ pc["server"] # "exited" /\ pc["client"] # "exited"
      /\ pc \in [Hosts -> Labels] /\ pc["server"] # "again"
  BY <1>2, BothHosts DEF Half, Down, TypeOK, ProtoInv
<1>5. Quiet("client")
  BY ClientsTurn DEF Turn
<1>6. ASSUME Half("client", M, M, W, A, {})', \A h \in Hosts : Proper(disk'[h]),
             pc'["server"] \in {"recv", "rebuild"}, new'["server"] = NoTree,
             IF Writing("client")'
             THEN \A p \in Paths : tree'["client"][p] # "none" /\ M[p] # "none" => p \in A
             ELSE \A p \in Paths : tree'["client"][p] = Kind(M[p])
      PROVE  Round(ag, be, to)' /\ pc'["server"] \notin {"wait", "sleep"}
  <2>1. Half("client", Merge(ag, be, to), Merge(ag, be, to), be["server"],
             There(be["server"]), {})'
    BY <1>1, <1>6 DEF Half, UnderWay
  <2>2. ClientHalf(ag, be, to)'
    BY <1>1, <1>2, <1>6, <2>1 DEF ClientHalf
  <2> QED BY <1>3, <1>6, <2>2 DEF Round
<1>7. CASE Walk("client")
  <2>1. Honest("client", M, M, W, A)
    BY <1>1, ClientHonest
  <2>2. Half("client", M, M, W, A, {})'
    <3>1. {} \subseteq Paths
      OBVIOUS
    <3> QED BY <1>2, <1>3, <1>4, <1>7, <2>1, <3>1, BothHosts, WalkHalf
  <2>3. /\ pc'["server"] = pc["server"] /\ disk' = disk
        /\ new'["server"] = new["server"]
        /\ \/ tree' = tree /\ (Writing("client")' <=> Writing("client"))
           \/ /\ pc["client"] = "create" /\ pc'["client"] = "finish"
              /\ tree'["client"] = new["client"]
    <3>1. PICK h \in Hosts : h = "client"
      BY BothHosts
    <3> QED BY <1>4, <1>7, <3>1, BothHosts, WalkParts
  <2>4. CASE tree' = tree /\ (Writing("client")' <=> Writing("client"))
    BY <1>2, <1>6, <2>2, <2>3, <2>4
  <2>5. CASE /\ pc["client"] = "create" /\ pc'["client"] = "finish"
             /\ tree'["client"] = new["client"]
    <3>1. \A p \in Paths : new["client"][p] = Kind(M[p])
      BY <1>2, <2>5 DEF Half, Scanned, Writing
    <3>2. ~Writing("client")'
      BY <2>5 DEF Writing
    <3> QED BY <1>2, <1>6, <2>2, <2>3, <2>5, <3>1, <3>2
  <2> QED BY <2>3, <2>4, <2>5
<1>8. CASE Receive("server")
  <2>1. ~RecvEOF("server") /\ ~RecvUpdateFails("server")
    BY <1>4, BothHosts DEF RecvEOF, RecvUpdateFails, Goto
  <2>2. /\ pc'["client"] = pc["client"] /\ pc["server"] = "recv"
        /\ pc'["server"] \in {"recv", "rebuild"} /\ UNCHANGED << tree, new >>
        /\ disk'["client"] = disk["client"]
    BY <1>4, <1>8, <2>1, BothHosts
       DEF Receive, RecvUpdate, RecvToken, RecvDelete, RecvCreate, RecvListEnd, RecvDone,
           TopCase, Incoming, AfterReceive, Goto, TypeOK
  <2>3. Half("client", M, M, W, A, {})' /\ Proper(disk'["server"])
    <3>1. Proper(disk["server"]) /\ {} \subseteq {p \in Paths : Lost(M, W, p)}
      BY BothHosts
    <3> QED BY <1>2, <1>3, <1>8, <2>2, <3>1, BothHosts, ReceiveHalf
  <2>4. \A h \in Hosts : Proper(disk'[h])
    BY <2>2, <2>3, BothHosts
  <2>5. Writing("client")' <=> Writing("client")
    BY <2>2 DEF Writing
  <2> QED BY <1>2, <1>6, <2>2, <2>3, <2>4, <2>5
<1>9. ~Receive("client")
  BY <1>4, <1>5, BothHosts
     DEF Receive, RecvUpdate, RecvUpdateFails, RecvToken, RecvDelete, RecvCreate,
         RecvListEnd, RecvDone, RecvEOF, TopCase, Incoming, Quiet
<1>10. ~Walk("server")
  <2>1. PICK h \in Hosts : h = "server"
    BY BothHosts
  <2>2. Walk(h) => pc[h] \in Sending
    BY <1>4, <2>1, WalkParts
  <2> QED BY <1>2, <2>1, <2>2 DEF Sending
<1>11. (ServerLoop => Rebuild) /\ ~Edit /\ ~Over
  BY <1>2, <1>4 DEF ServerLoop, HandleRequest, SpinAtEOF, Wake, Edit, EditFile,
              EditFolder, EditDelete, MayEdit, Calm, Over
<1> QED BY <1>7, <1>8, <1>9, <1>10, <1>11, BothHosts DEF Next

-----------------------------------------------------------------------------
(* Every step keeps the invariant.                                         *)

(* Nothing happens to what stays as it is.                                 *)
LEMMA RoundStays ==
  ASSUME NEW ag, NEW be, NEW to, UNCHANGED vars, Round(ag, be, to)
  PROVE  Round(ag, be, to)'
<1>1. UNCHANGED << disk, tree, new, stale, todo, chan, mode, pc >>
  BY DEF vars
<1>2. \A w \in Hosts : (Writing(w)' <=> Writing(w)) /\ (Scanned(w)' <=> Scanned(w))
  BY <1>1 DEF Writing, Scanned, Deleted, Created
<1>3. ASSUME NEW w \in Hosts, NEW p
      PROVE  /\ DueUpdate(w, p)' <=> DueUpdate(w, p)
             /\ DueDelete(w, p)' <=> DueDelete(w, p)
             /\ DueCreate(w, p)' <=> DueCreate(w, p)
  BY <1>1, <1>2 DEF DueUpdate, DueDelete, DueCreate, Changed
<1>4. ASSUME NEW w \in Hosts, NEW f, NEW s, NEW p
      PROVE  Owed(w, s, f, p)' <=> Owed(w, s, f, p)
  BY <1>3 DEF Owed
<1>5. ASSUME NEW w \in Hosts, NEW W, NEW M, NEW R, NEW A, NEW X, Half(w, W, M, R, A, X)
      PROVE  Half(w, W, M, R, A, X)'
  <2>1. PICK s, f : s = chan[Peer(w)] /\ UnderWay(w, s, f, W, M, R, A, X)
    BY <1>5 DEF Half
  <2>2. Reads(Peer(w), f[1])' <=> Reads(Peer(w), f[1])
    BY <1>1 DEF Reads
  <2>3. Sorted(w, s, f)'
    BY <1>1, <2>1 DEF UnderWay, Sorted
  <2>4. UnderWay(w, s, f, W, M, R, A, X)'
    BY <1>1, <1>3, <1>4, <2>1, <2>2, <2>3 DEF UnderWay
  <2>5. UnderWay(w, chan[Peer(w)], f, W, M, R, A, X)'
    BY <1>1, <2>1, <2>4 DEF UnderWay
  <2> QED BY <1>1, <1>2, <1>5, <2>5 DEF Half
<1>6. ServerHalf(ag, be, to) => ServerHalf(ag, be, to)'
  <2> SUFFICES ASSUME ServerHalf(ag, be, to) PROVE ServerHalf(ag, be, to)'
    OBVIOUS
  <2>1. Half("server", be["server"], Merge(ag, be, to), be["client"], Written(ag, to),
             Clashes(ag, be, to))'
    BY <1>5, BothHosts DEF ServerHalf
  <2>2. Remembers(ag)'
    BY <1>1 DEF ServerHalf, Remembers
  <2> QED BY <1>1, <1>2, <2>1, <2>2, BothHosts DEF ServerHalf
<1>7. ClientHalf(ag, be, to) => ClientHalf(ag, be, to)'
  <2> SUFFICES ASSUME ClientHalf(ag, be, to) PROVE ClientHalf(ag, be, to)'
    OBVIOUS
  <2>1. Half("client", Merge(ag, be, to), Merge(ag, be, to), be["server"],
             There(be["server"]), {})'
    BY <1>5, BothHosts DEF ClientHalf
  <2> QED BY <1>1, <1>2, <2>1, BothHosts DEF ClientHalf
<1> QED BY <1>1, <1>6, <1>7 DEF Round

(* ag2, be2 and to2 are what the step makes of the history.                *)
LEMMA RoundStep ==
  ASSUME Calm, TypeOK, ProtoInv, [Next]_vars, NEW ag, NEW be, NEW to, RoundInv(ag, be, to),
         NEW ag2, ag2 = IF pc'["server"] = "wait" /\ ~Down THEN disk'["server"] ELSE ag,
         NEW be2, be2 = IF pc'["server"] = "sleep" THEN disk' ELSE be,
         NEW to2, to2 = IF pc'["server"] = "sleep" THEN stale'["server"] ELSE to
  PROVE  RoundInv(ag2, be2, to2)'
<1> SUFFICES ASSUME ~Down'
             PROVE  /\ Proper(ag2)
                    /\ IF pc'["server"] \in {"wait", "sleep"}
                       THEN Open(ag2, be2, to2)' ELSE Round(ag2, be2, to2)'
  BY DEF RoundInv
<1>1. ~Down
  BY ExitedStays DEF Down, vars
<1>2. Proper(ag)
  BY <1>1 DEF RoundInv
<1>3. CASE pc["server"] \in {"wait", "sleep"}
  <2>1. Open(ag, be, to)
    BY <1>1, <1>3 DEF RoundInv
  <2>2. ag2 = IF pc'["server"] = "wait" THEN disk'["server"] ELSE ag
    BY <1>1
  <2>3. /\ ag2 = ag
        /\ IF pc'["server"] \in {"wait", "sleep"} THEN Open(ag, be2, to2)'
           ELSE be2 = be /\ to2 = to /\ Round(ag, be, to)'
    BY <1>1, <1>2, <1>3, <2>1, <2>2, OpenStep
  <2> QED BY <1>2, <2>3
<1>4. CASE pc["server"] \notin {"wait", "sleep"}
  <2>1. Round(ag, be, to)
    BY <1>1, <1>4 DEF RoundInv
  <2>2. Grown(ag, be, to) /\ \A h \in Hosts : Proper(disk[h])
    BY <1>2, <2>1 DEF Round, Grown
  <2>3. CASE Round(ag, be, to)' /\ pc'["server"] \notin {"wait", "sleep"}
    BY <1>2, <2>3
  <2>4. CASE UNCHANGED vars
    <3>1. Round(ag, be, to)' /\ pc' = pc
      BY <2>1, <2>4, RoundStays DEF vars
    <3> QED BY <1>4, <2>3, <3>1
  <2>5. CASE Next /\ ServerHalf(ag, be, to)
    BY <1>1, <2>2, <2>3, <2>5, ServerHalfStep
  <2>6. CASE Next /\ ClientHalf(ag, be, to) /\ ~Rebuild
    BY <1>1, <2>2, <2>3, <2>6, ClientHalfStep
  <2>7. CASE ClientHalf(ag, be, to) /\ Rebuild
    <3>1. PICK M : M = Merge(ag, be, to)
      OBVIOUS
    <3>2. /\ Proper(M) /\ \A h \in Hosts : disk'[h] = M
          /\ pc'["server"] = "wait" /\ Open(M, be, to)'
      BY <1>1, <2>2, <2>7, <3>1, RebuildStep
    <3>3. ag2 = M /\ be2 = be /\ to2 = to
      BY <1>1, <3>2, BothHosts
    <3> QED BY <3>2, <3>3
  <2> QED BY <2>1, <2>4, <2>5, <2>6, <2>7 DEF Round
<1> QED BY <1>3, <1>4

(* The programs start between two rounds.                                  *)
LEMMA RoundStart ==
  ASSUME Calm, Init, NEW ag, ag = disk["server"], NEW be, NEW to
  PROVE  RoundInv(ag, be, to)
<1>1. PICK dk \in [Paths -> {"none", "dir"} \cup Data] :
        /\ WellFormed(dk)
        /\ \A p \in Paths : IF Hidden(p) THEN dk[p] = "none"
                            ELSE dk[p] = "none" \/ Kind(dk[p]) \in Kinds[p]
        /\ disk = [server |-> [p \in Paths |-> IF p = << LogName >> THEN "log" ELSE dk[p]],
                   client |-> dk]
        /\ \E had \in SUBSET {p \in Paths : dk[p] # "none"} :
             /\ \A p \in Paths \ Fetched : dk[p] # "none" => p \in had
             /\ tree = [server |-> TreeOf(dk),
                        client |-> [p \in Paths |-> IF p \in had THEN Kind(dk[p]) ELSE "none"]]
  BY DEF Init
<1>2. PICK had \in SUBSET {p \in Paths : dk[p] # "none"} :
        /\ \A p \in Paths \ Fetched : dk[p] # "none" => p \in had
        /\ tree = [server |-> TreeOf(dk),
                   client |-> [p \in Paths |-> IF p \in had THEN Kind(dk[p]) ELSE "none"]]
  BY <1>1
<1>3. Proper(dk)
  BY <1>1 DEF Proper, Calm
<1>4. << LogName >> \notin Paths
  <2>1. PICK p : p = << LogName >>
    OBVIOUS
  <2>2. 1 \in DOMAIN p /\ p[1] = LogName
    BY <2>1
  <2> QED BY <2>1, <2>2 DEF Calm, Hidden
<1>5. disk["server"] = dk /\ disk["client"] = dk
  <2>1. \A p \in Paths : p # << LogName >>
    BY <1>4
  <2>2. [p \in Paths |-> IF p = << LogName >> THEN "log" ELSE dk[p]] = dk
    BY <2>1
  <2> QED BY <1>1, <2>2
<1>6. /\ \A h \in Hosts : new[h] = NoTree /\ stale[h] = {}
      /\ pc["server"] = "wait" /\ pc["client"] = "recv"
  BY BothHosts DEF Init
<1>7. \A p \in Paths : tree["server"][p] = Kind(dk[p])
  BY <1>2 DEF TreeOf, Calm
<1>8. Remembers(dk)
  <2>1. Kind("none") = "none"
    BY DataAssumption DEF Kind, FileData
  <2>2. \A p \in Paths : tree["client"][p] = IF p \in had THEN Kind(dk[p]) ELSE "none"
    BY <1>2
  <2>3. "client" \in Editors => \A p \in Paths : dk[p] # "none" => p \in had
    BY <1>2 DEF Calm
  <2> QED BY <2>1, <2>2, <2>3 DEF Remembers
<1>9. \A h \in Hosts : disk[h] = dk /\ Noticed(dk, dk, stale[h])
  BY <1>5, BothHosts DEF Noticed
<1>10. Open(dk, be, to)
  BY <1>3, <1>5, <1>6, <1>7, <1>8, <1>9, BothHosts DEF Open
<1> QED BY <1>3, <1>5, <1>6, <1>10 DEF RoundInv

-----------------------------------------------------------------------------
(* At the end of every round both directories hold the same, for any       *)
(* paths, contents, edits in the nap and socket sizes: the walk of         *)
(* syncCheckServer, the client's receive loop, its walk and the rebuild in *)
(* handleCase leave nothing out, and no conflicting edits tell them apart. *)
THEOREM RoundsMerge == Calm => (Spec => []RoundConverges)
<1> SUFFICES ASSUME Calm PROVE Spec => []RoundConverges
  OBVIOUS
<1> DEFINE Inv == \E ag, be, to : RoundInv(ag, be, to)
<1>1. Init => Inv
  <2> SUFFICES ASSUME Init PROVE Inv
    OBVIOUS
  <2>1. PICK ag, be, to : ag = disk["server"] /\ be = disk /\ to = {}
    OBVIOUS
  <2>2. RoundInv(ag, be, to)
    BY <2>1, RoundStart
  <2> QED BY <2>2
<1>2. TypeOK /\ ProtoInv /\ Inv /\ [Next]_vars => Inv'
  <2> SUFFICES ASSUME TypeOK, ProtoInv, Inv, [Next]_vars PROVE Inv'
    OBVIOUS
  <2>1. PICK ag, be, to : RoundInv(ag, be, to)
    OBVIOUS
  <2>2. PICK ag2, be2, to2 :
          /\ ag2 = IF pc'["server"] = "wait" /\ ~Down THEN disk'["server"] ELSE ag
          /\ be2 = IF pc'["server"] = "sleep" THEN disk' ELSE be
          /\ to2 = IF pc'["server"] = "sleep" THEN stale'["server"] ELSE to
    OBVIOUS
  <2>3. RoundInv(ag2, be2, to2)'
    BY <2>1, <2>2, RoundStep
  <2> QED BY <2>3
<1>3. Inv => RoundConverges
  <2> SUFFICES ASSUME Inv, pc["server"] = "wait", ~Down PROVE Same
    BY DEF RoundConverges
  <2>1. PICK ag, be, to : Open(ag, be, to)
    BY DEF RoundInv
  <2> QED BY <2>1, BothHosts DEF Open, Same
<1> HIDE DEF Inv
<1>4. Spec => []TypeOK /\ []ProtoInv
  BY TypeCorrect, TurnsHold
<1> QED BY <1>1, <1>2, <1>3, <1>4, PTL DEF Spec

-----------------------------------------------------------------------------
(* The one conflict.                                                       *)

(* A process of a round exits only when the client comes to open a file    *)
(* that its user has deleted.                                              *)
LEMMA ConflictExit ==
  ASSUME Calm, TypeOK, ProtoInv, ~Down, Down', Next,
         NEW ag, NEW be, NEW to, RoundInv(ag, be, to)
  PROVE  /\ ServerHalf(ag, be, to) /\ Clashes(ag, be, to) # {}
         /\ pc' = [pc EXCEPT !["client"] = "exited"]
         /\ chan["server"] = << >> /\ chan'["server"] = << >>
<1>1. /\ \A h \in Hosts : pc[h] # "exited"
      /\ pc \in [Hosts -> Labels] /\ chan \in [Hosts -> Seq(Message)]
  BY DEF Down, TypeOK
<1>2. PICK h \in Hosts : RecvUpdateFails(h)
  <2>1. ASSUME NEW h \in Hosts, Walk(h) PROVE FALSE
    <3>1. ~BrokenPipe(h)
      BY <1>1, BothHosts DEF BrokenPipe
    <3>2. pc' = pc \/ \E l \in Labels \ {"exited"} : pc' = [pc EXCEPT ![h] = l]
      BY <2>1, <3>1 DEF Walk, Visit, SendUpdate, Miss, SendDelete, SendCreate, UpdatesDone,
            StartDeletes, DeletesDone, StartCreates, CreatesDone, Finish, AskAgain, Goto,
            Labels, Sending
    <3> QED BY <1>1, <3>2 DEF Down
  <2>2. ASSUME NEW h \in Hosts, Receive(h), ~RecvUpdateFails(h) PROVE FALSE
    <3>1. pc' = pc \/ \E l \in Labels \ {"exited"} : pc' = [pc EXCEPT ![h] = l]
      BY <2>2 DEF Receive, RecvUpdate, RecvToken, RecvDelete, RecvCreate, RecvListEnd,
            RecvDone, RecvEOF, AfterReceive, Goto, Labels, Sending
    <3> QED BY <1>1, <3>1 DEF Down
  <2>3. ~ServerLoop
    <3>1. ServerLoop => \E l \in Labels \ {"exited"} : pc' = [pc EXCEPT !["server"] = l]
      BY DEF ServerLoop, Rebuild, HandleRequest, SpinAtEOF, Wake, Goto, Labels, Sending
    <3> QED BY <1>1, <3>1 DEF Down
  <2>4. ~Edit
    BY DEF Edit, EditFile, EditFolder, EditDelete, Down
  <2>5. ~Over
    BY <1>1, BothHosts DEF Over
  <2> QED BY <2>1, <2>2, <2>3, <2>4, <2>5 DEF Next
<1>3. /\ pc[h] = "recv" /\ chan[h] # << >> /\ mode[h] = "top" /\ Msg(h).t = "SYNC_FILE"
      /\ disk[h][Msg(h).p] \notin FileData
      /\ pc' = [pc EXCEPT ![h] = "exited"] /\ chan' = [chan EXCEPT ![h] = Tail(@)]
  BY <1>2 DEF RecvUpdateFails, TopCase, Incoming, Goto, Consume
<1>4. Round(ag, be, to) /\ Proper(ag)
  <2>1. ASSUME pc["server"] \in {"wait", "sleep"} PROVE FALSE
    <3>1. Turn("client")
      BY <2>1, ClientsTurn
    <3> QED BY <1>3, <2>1, <3>1, BothHosts DEF Turn, Quiet
  <2> QED BY <2>1 DEF RoundInv
<1>5. Grown(ag, be, to) /\ \A k \in Hosts : Proper(disk[k])
  BY <1>4 DEF Round, Grown
<1>6. PICK s \in Seq(Message) : s = chan[h]
  BY <1>1
<1>7. PICK p : p = Msg(h).p
  OBVIOUS
<1>8. Len(s) \in Nat \ {0} /\ s[1].t = "SYNC_FILE" /\ s[1].p = p /\ 1 \in 1 .. Len(s)
  <2>1. Len(s) \in Nat \ {0} /\ Head(s) = s[1]
    BY <1>3, <1>6, HeadTailProperties
  <2> QED BY <1>3, <1>6, <1>7, <2>1 DEF Msg
(* What the message says, whoever wrote it.                                *)
<1>9. ASSUME NEW w \in Hosts, h = Peer(w), NEW W, NEW M, NEW R, NEW A, NEW X,
             Half(w, W, M, R, A, X), A \subseteq Paths
      PROVE  /\ p \in A /\ W[p] \in FileData
             /\ R[p] \notin FileData /\ (M[p] = W[p] \/ Lost(M, R, p))
  <2>1. PICK f : UnderWay(w, s, f, W, M, R, A, X)
    BY <1>6, <1>9 DEF Half
  <2>2. Labelling(f, s) /\ Reads(h, f[1])
    BY <1>9, <2>1 DEF UnderWay
  <2>3. Says(f[1], "SYNC_FILE", f[2])
    BY <1>8, <2>2 DEF Labelling
  <2>4. f[1] = 0
    BY <1>3, <2>2, <2>3 DEF Reads, ReadsAt, ModeAt, Says
  <2>5. About(s, 1)
    BY <1>8 DEF About, NodeTypes
  <2>6. True(W, M, R, A, 0, s[1])
    BY <1>8, <2>1, <2>4, <2>5 DEF UnderWay
  <2>7. UpdateTrue(W, M, R, A, s[1])
    BY <2>6 DEF True
  <2>8. p \in A /\ W[p] \in FileData /\ (M[p] = W[p] \/ Lost(M, R, p))
    BY <1>8, <2>7 DEF UpdateTrue
  <2>9. disk[h][p] \notin FileData /\ (disk[h][p] = M[p] \/ disk[h][p] = R[p])
    BY <1>3, <1>7, <1>9, <2>1, <2>8 DEF UnderWay
  <2>10. "none" \notin FileData
    BY DataAssumption DEF FileData
  <2> QED BY <2>8, <2>9, <2>10 DEF Lost
<1>10. CASE ServerHalf(ag, be, to)
  <2>1. Quiet("server") /\ pc["server"] \in Sending \cup {"recv"}
    BY <1>10, ServersTurn DEF Turn
  <2>2. h = "client"
    BY <1>3, <2>1, BothHosts DEF Quiet
  <2>3. /\ p \in Written(ag, to) /\ be["server"][p] \in FileData
        /\ be["client"][p] \notin FileData
    <3>1. Half("server", be["server"], Merge(ag, be, to), be["client"], Written(ag, to),
               Clashes(ag, be, to))
      BY <1>10 DEF ServerHalf
    <3>2. Written(ag, to) \subseteq Paths
      BY DEF Written
    <3> QED BY <1>9, <2>2, <3>1, <3>2, BothHosts
  <2>4. p \in Paths /\ ag[p] # "none" /\ p \in to
    BY <2>3 DEF Written
  <2>5. be["client"][p] = "none"
    <3>1. Proper(be["server"]) /\ Proper(be["client"])
      BY <1>5, BothHosts DEF Grown
    <3> QED BY <2>3, <2>4, <3>1, SameKind, KindParts
  <2>6. p \in Clashes(ag, be, to)
    BY <2>3, <2>4, <2>5 DEF Clashes, Heard
  <2> QED BY <1>1, <1>3, <1>10, <2>1, <2>2, <2>6, BothHosts DEF Quiet
<1>11. CASE ClientHalf(ag, be, to)
  <2>1. Quiet("client")
    BY <1>11, ClientsTurn DEF Turn
  <2>2. h = "server"
    BY <1>3, <2>1, BothHosts DEF Quiet
  <2>3. PICK M : M = Merge(ag, be, to)
    OBVIOUS
  <2>4. p \in There(be["server"]) /\ M[p] \in FileData /\ be["server"][p] \notin FileData
    <3>1. Half("client", M, M, be["server"], There(be["server"]), {})
      BY <1>11, <2>3 DEF ClientHalf
    <3>2. There(be["server"]) \subseteq Paths
      BY DEF There
    <3> QED BY <1>9, <2>2, <3>1, <3>2, BothHosts
  <2>5. Proper(M) /\ Proper(be["server"])
    BY <1>5, <2>3, MergeProper, BothHosts DEF Grown
  <2>6. p \in Paths /\ be["server"][p] # "none"
    BY <2>4 DEF There
  <2>7. PICK R : R = be["server"]
    OBVIOUS
  <2>8. M[p] # "none" /\ R[p] # "none" /\ Proper(R)
    BY <2>4, <2>5, <2>6, <2>7, KindParts
  <2>9. Kind(M[p]) = Kind(R[p])
    BY <2>5, <2>6, <2>8, SameKind
  <2>10. M[p] \in FileData <=> R[p] \in FileData
    BY <2>5, <2>6, <2>8, <2>9, KindParts
  <2> QED BY <2>4, <2>7, <2>10
<1>12. ServerHalf(ag, be, to) \/ ClientHalf(ag, be, to)
  BY <1>4 DEF Round
<1> QED BY <1>10, <1>11, <1>12

(* After that the server reads nothing but the end of the file.            *)
LEMMA BrokenStep ==
  ASSUME Calm, TypeOK, ProtoInv, Broken, [Next]_vars,
         NEW ag, NEW be, NEW to, RoundInv(ag, be, to)
  PROVE  Broken'
<1> SUFFICES ASSUME Down'
             PROVE  /\ pc'["client"] = "exited" /\ chan'["server"] = << >>
                    /\ pc'["server"] # "sleep"
  BY DEF Broken
<1>1. pc \in [Hosts -> Labels] /\ chan \in [Hosts -> Seq(Message)]
  BY DEF TypeOK
<1>2. CASE UNCHANGED vars
  BY <1>2 DEF vars, Broken, Down
<1>3. CASE Next /\ ~Down
  <2>0. ~Down /\ Next
    BY <1>3
  <2>1. /\ ServerHalf(ag, be, to) /\ Clashes(ag, be, to) # {}
        /\ pc' = [pc EXCEPT !["client"] = "exited"]
        /\ chan["server"] = << >> /\ chan'["server"] = << >>
    BY <2>0, ConflictExit
  <2>2. pc["server"] \in Sending \cup {"recv"}
    BY <2>1 DEF ServerHalf, Half
  <2>3. pc'["client"] = "exited" /\ pc'["server"] = pc["server"]
    BY <1>1, <2>1, BothHosts
  <2> QED BY <2>1, <2>2, <2>3 DEF Sending
<1>4. CASE Next /\ Down
  <2>1. pc["client"] = "exited" /\ chan["server"] = << >> /\ pc["server"] # "sleep"
    BY <1>4 DEF Broken
  <2>2. pc'["client"] = "exited"
    BY <1>4, <2>1, ExitedStays, BothHosts
  <2>3. ~Walk("client") /\ ~Receive("client")
    BY <2>1 DEF Walk, Visit, SendUpdate, Miss, SendDelete, SendCreate, UpdatesDone,
          StartDeletes, DeletesDone, StartCreates, CreatesDone, Finish, AskAgain,
          BrokenPipe, Receive, RecvUpdate, RecvUpdateFails, RecvToken, RecvDelete,
          RecvCreate, RecvListEnd, RecvDone, RecvEOF, TopCase, Incoming, Sending
  <2>4. CASE Walk("server")
    <3>1. chan'["server"] = chan["server"]
      BY <1>1, <2>4, BothHosts DEF Walk, Visit, SendUpdate, Miss, SendDelete, SendCreate,
            UpdatesDone, StartDeletes, DeletesDone, StartCreates, CreatesDone, Finish,
            AskAgain, BrokenPipe, Send
    <3>2. pc' = pc \/ \E l \in Labels \ {"sleep"} : pc' = [pc EXCEPT !["server"] = l]
      BY <2>4 DEF Walk, Visit, SendUpdate, Miss, SendDelete, SendCreate, UpdatesDone,
            StartDeletes, DeletesDone, StartCreates, CreatesDone, Finish, AskAgain,
            BrokenPipe, Goto, Labels, Sending
    <3> QED BY <1>1, <2>1, <2>2, <3>1, <3>2, BothHosts
  <2>5. CASE Receive("server")
    <3>1. RecvEOF("server")
      BY <2>1, <2>5 DEF Receive, RecvUpdate, RecvUpdateFails, RecvToken, RecvDelete,
            RecvCreate, RecvListEnd, RecvDone, TopCase, Incoming
    <3>2. chan' = chan /\ pc'["server"] = "rebuild"
      BY <1>1, <3>1, BothHosts DEF RecvEOF, AfterReceive, Goto
    <3> QED BY <2>1, <2>2, <3>2
  <2>6. CASE ServerLoop
    BY <1>1, <2>1, <2>2, <2>6, BothHosts
       DEF ServerLoop, Rebuild, HandleRequest, SpinAtEOF, Wake, Goto
  <2>7. CASE Edit \/ Over
    BY <2>1, <2>7 DEF Edit, EditFile, EditFolder, EditDelete, Over, vars
  <2> QED BY <1>4, <2>3, <2>4, <2>5, <2>6, <2>7, BothHosts DEF Next
<1> QED BY <1>2, <1>3, <1>4

-----------------------------------------------------------------------------
(* A round is the merge of DirectorySync.                                  *)

(* DirectorySync speaks of the same directories.                           *)
LEMMA SameDirectories ==
  /\ Abstract!Hosts = Hosts /\ Abstract!FileData = FileData /\ Abstract!Node = Node
  /\ \A p, q : Abstract!IsPrefix(p, q) <=> IsPrefix(p, q)
  /\ \A dk : Abstract!WellFormed(dk) <=> WellFormed(dk)
  /\ \A dk, p : /\ Abstract!UserFile(dk, p) = UserFile(dk, p)
                /\ Abstract!UserFolder(dk, p) = UserFolder(dk, p)
                /\ Abstract!UserDelete(dk, p) = UserDelete(dk, p)
<1>1. \A p : Abstract!Front(p) = Front(p)
  BY DEF Abstract!Front, Front
<1>2. \A dk, p : Abstract!InFolder(dk, p) <=> InFolder(dk, p)
  BY <1>1 DEF Abstract!InFolder, InFolder
<1>3. \A p, q : Abstract!IsPrefix(p, q) <=> IsPrefix(p, q)
  BY DEF Abstract!IsPrefix, IsPrefix
<1>4. \A dk : Abstract!WellFormed(dk) <=> WellFormed(dk)
  BY <1>2 DEF Abstract!WellFormed, WellFormed
<1>5. \A dk, p : /\ Abstract!UserFile(dk, p) = UserFile(dk, p)
                 /\ Abstract!UserFolder(dk, p) = UserFolder(dk, p)
  BY <1>2 DEF Abstract!UserFile, UserFile, Abstract!UserFolder, UserFolder,
              Abstract!CanWrite, CanWrite
<1>6. \A dk, p : Abstract!UserDelete(dk, p) = UserDelete(dk, p)
  BY <1>3 DEF Abstract!UserDelete, UserDelete, Abstract!RemoveTree, RemoveTree
<1> QED BY <1>3, <1>4, <1>5, <1>6
        DEF Abstract!Hosts, Hosts, Abstract!FileData, FileData, Abstract!Node, Node

(* The merge of DirectorySync is the one a round comes to.                 *)
LEMMA SameMerge ==
  ASSUME Phase = "merging", NEW ag, ag = agreed, NEW be, be = before, NEW to, to = touched
  PROVE  /\ Abstract!Merged = Merge(ag, be, to)
         /\ Abstract!Conflict <=> Clashes(ag, be, to) # {}
<1>1. /\ \A h, p : Abstract!DeletedBy(h, p) <=> ag[p] # "none" /\ be[h][p] = "none"
      /\ \A p : Abstract!ServerChanged(p) <=> Heard(ag, be, to, p)
  BY SameDirectories DEF Abstract!DeletedBy, Abstract!ServerChanged, Heard
<1>2. ASSUME NEW p \in Paths
      PROVE  (\E q \in Paths, h \in Hosts : Abstract!IsPrefix(q, p) /\ Abstract!DeletedBy(h, q))
               <=> DeletedAbove(ag, be, p)
  BY <1>1, SameDirectories DEF DeletedAbove
<1>3. Abstract!Merged = Merge(ag, be, to)
  BY <1>1, <1>2, SameDirectories DEF Abstract!Merged, Merge
<1>4. Abstract!Conflict <=> Clashes(ag, be, to) # {}
  BY <1>1 DEF Abstract!Conflict, Clashes
<1> QED BY <1>3, <1>4

(* The history is that of the invariant.                                   *)
Recorded ==
  \E ag, be, to :
    ag = agreed /\ be = before /\ to = touched /\ RoundInv(ag, be, to)

(* The start of the rounds is a start of DirectorySync.                    *)
LEMMA MergeInit == Calm /\ MInit => Recorded /\ Broken /\ Abstract!DInit
<1> SUFFICES ASSUME Calm, MInit PROVE Recorded /\ Broken /\ Abstract!DInit
  OBVIOUS
<1>1. PICK ag, be, to : ag = agreed /\ be = before /\ to = touched
  OBVIOUS
<1>2. Init /\ ag = disk["server"] /\ touched = stale["server"]
  BY <1>1 DEF MInit
<1>3. RoundInv(ag, be, to)
  BY <1>2, RoundStart
<1>4. pc["server"] = "wait" /\ ~Down /\ stale["server"] = {}
  BY <1>2, BothHosts DEF Init, Down
<1>5. Open(ag, be, to) /\ Proper(ag)
  BY <1>3, <1>4 DEF RoundInv
<1>6. disk = [h \in Hosts |-> ag]
  <2>1. \A h \in Hosts : disk[h] = ag
    BY <1>4, <1>5 DEF Open
  <2>2. disk \in [Hosts -> [Paths -> Node]]
    BY <1>2, InitTypeOK DEF TypeOK
  <2> QED BY <2>1, <2>2
<1>7. Phase = "open"
  BY <1>4 DEF Phase
<1>8. ag \in [Paths -> Node] /\ WellFormed(ag)
  BY <1>5, ProperParts
<1>9. Abstract!DInit
  BY <1>1, <1>4, <1>6, <1>7, <1>8, SameDirectories DEF Abstract!DInit
<1>10. Broken
  BY <1>4 DEF Broken
<1> QED BY <1>1, <1>3, <1>9, <1>10 DEF Recorded

(* Every step keeps the invariant of the history.                          *)
LEMMA RecordStep ==
  Calm /\ TypeOK /\ ProtoInv /\ Recorded /\ Broken /\ [MNext]_mvars => Recorded' /\ Broken'
<1> SUFFICES ASSUME Calm, TypeOK, ProtoInv, Recorded, Broken, [MNext]_mvars
             PROVE  Recorded' /\ Broken'
  OBVIOUS
<1>1. PICK ag, be, to :
        ag = agreed /\ be = before /\ to = touched /\ RoundInv(ag, be, to)
  BY DEF Recorded
<1>2. [Next]_vars
  BY DEF MNext, mvars
<1>3. Broken'
  BY <1>1, <1>2, BrokenStep
<1>4. PICK ag2, be2, to2 :
        /\ ag2 = IF pc'["server"] = "wait" /\ ~Down THEN disk'["server"] ELSE ag
        /\ be2 = IF pc'["server"] = "sleep" THEN disk' ELSE be
        /\ to2 = IF pc'["server"] = "sleep" THEN stale'["server"] ELSE to
  OBVIOUS
<1>5. CASE MNext
  <2>1. RoundInv(ag2, be2, to2)'
    BY <1>1, <1>2, <1>4, RoundStep
  <2>2. ag2 = agreed' /\ be2 = before' /\ to2 = touched'
    BY <1>1, <1>4, <1>5 DEF MNext, Remember
  <2>3. Recorded'
    BY <2>1, <2>2 DEF Recorded
  <2> QED BY <1>3, <2>3
<1>6. CASE UNCHANGED mvars
  <2>1. UNCHANGED vars /\ ag = agreed' /\ be = before' /\ to = touched'
    BY <1>1, <1>6 DEF mvars
  <2>2. RoundInv(ag, be, to)'
    <3>1. UNCHANGED << disk, tree, new, stale, pc >>
      BY <2>1 DEF vars
    <3>2. Down' <=> Down
      BY <3>1 DEF Down
    <3>3. Open(ag, be, to) => Open(ag, be, to)'
      BY <3>1 DEF Open, Remembers
    <3>4. Round(ag, be, to) => Round(ag, be, to)'
      BY <2>1, RoundStays
    <3> QED BY <1>1, <3>1, <3>2, <3>3, <3>4 DEF RoundInv
  <2>3. Recorded'
    BY <2>1, <2>2 DEF Recorded
  <2> QED BY <1>3, <2>3
<1> QED BY <1>5, <1>6

(* Every step is one of DirectorySync or changes nothing it speaks of.     *)
LEMMA MergeStep ==
  Calm /\ TypeOK /\ TypeOK' /\ ProtoInv /\ Recorded /\ Recorded' /\ Broken /\ Broken'
    /\ [MNext]_mvars => [Abstract!DNext]_(Abstract!dvars)
<1> SUFFICES ASSUME Calm, TypeOK, TypeOK', ProtoInv, Recorded, Recorded', Broken, Broken',
                    [MNext]_mvars
             PROVE  [Abstract!DNext]_(Abstract!dvars)
  OBVIOUS
<1> DEFINE dir == IF Phase = "open" THEN disk ELSE before
           dirty == IF Phase = "open" THEN stale["server"] ELSE touched
<1>1. PICK ag, be, to :
        ag = agreed /\ be = before /\ to = touched /\ RoundInv(ag, be, to)
  BY DEF Recorded
<1>2. ASSUME UNCHANGED << dir, agreed, dirty, Phase >>
      PROVE  [Abstract!DNext]_(Abstract!dvars)
  BY <1>2 DEF Abstract!dvars
<1>3. CASE UNCHANGED mvars
  <2>1. UNCHANGED << disk, stale, pc, agreed, before, touched >>
    BY <1>3 DEF mvars, vars
  <2>2. UNCHANGED << dir, agreed, dirty, Phase >>
    BY <2>1 DEF Phase, Down
  <2> QED BY <1>2, <2>2
<1>4. CASE MNext /\ Down
  <2>1. Down'
    BY <1>4, ExitedStays DEF MNext, Down
  <2>2. pc'["server"] # "sleep"
    BY <2>1 DEF Broken
  <2>3. UNCHANGED << agreed, before, touched >>
    BY <1>4, <2>2 DEF MNext, Remember
  <2>4. Phase = "broken" /\ Phase' = "broken"
    BY <1>4, <2>1 DEF Phase
  <2> QED BY <1>2, <2>3, <2>4
<1>5. CASE MNext /\ ~Down /\ Down'
  <2>1. /\ ServerHalf(ag, be, to) /\ Clashes(ag, be, to) # {}
        /\ pc' = [pc EXCEPT !["client"] = "exited"]
    BY <1>1, <1>5, ConflictExit DEF MNext
  <2>2. pc'["server"] = pc["server"] /\ pc["server"] \in Sending \cup {"recv"}
    BY <2>1, BothHosts DEF TypeOK, ServerHalf, Half
  <2>3. UNCHANGED << agreed, before, touched >>
    BY <1>5, <2>2 DEF MNext, Remember, Sending
  <2>4. Phase = "merging" /\ Phase' = "broken"
    BY <1>5, <2>2 DEF Phase, Sending
  <2>5. Abstract!Conflict
    BY <1>1, <2>1, <2>4, SameMerge
  <2>6. Abstract!DBreak
    BY <2>3, <2>4, <2>5 DEF Abstract!DBreak
  <2> QED BY <2>6 DEF Abstract!DNext
<1>6. CASE /\ MNext /\ ~Down /\ ~Down'
           /\ pc["server"] \in {"wait", "sleep"}
  <2>1. Open(ag, be, to) /\ Phase = "open"
    BY <1>1, <1>6 DEF RoundInv, Phase
  <2>2. CASE pc["server"] = "sleep" /\ Wake
    <3>1. pc'["server"] = "scan" /\ UNCHANGED << disk, stale >>
      BY <2>2, BothHosts DEF Wake, Goto, TypeOK
    <3>2. UNCHANGED << agreed, before, touched >> /\ Phase' = "merging"
      BY <1>6, <3>1 DEF MNext, Remember, Phase
    <3>3. before = disk /\ touched = stale["server"]
      BY <1>1, <2>1, <2>2 DEF Open
    <3>4. Abstract!DStart
      BY <2>1, <3>1, <3>2, <3>3 DEF Abstract!DStart
    <3> QED BY <3>4 DEF Abstract!DNext
  <2>3. CASE pc["server"] = "sleep" /\ Edit
    <3>1. pc' = pc
      BY <2>3 DEF Edit, EditFile, EditFolder, EditDelete
    <3>2. agreed' = agreed /\ Phase' = "open"
      BY <1>6, <2>3, <3>1 DEF MNext, Remember, Phase
    <3>3. PICK h \in Hosts, p \in Paths :
            EditFile(h, p) \/ EditFolder(h, p) \/ EditDelete(h, p)
      BY <2>3 DEF Edit
    <3>4. CASE EditFile(h, p) \/ EditFolder(h, p)
      <4>1. PICK dk \in UserFile(disk[h], p) \cup UserFolder(disk[h], p) :
              disk' = [disk EXCEPT ![h] = dk]
        BY <3>4 DEF EditFile, EditFolder
      <4>2. stale' = [stale EXCEPT ![h] = @ \cup {p}]
        <5>1. PICK kept \in {FALSE, SameSecond} :
                stale' = [stale EXCEPT ![h] = IF kept THEN @ ELSE @ \cup {p}]
          BY <3>4 DEF EditFile, EditFolder, Touch
        <5>2. kept = FALSE
          BY ParameterAssumption DEF Calm
        <5> QED BY <5>1, <5>2
      <4>3. stale'["server"] = IF h = "server" THEN stale["server"] \cup {p}
                                               ELSE stale["server"]
        BY <4>2, BothHosts DEF TypeOK
      <4>4. Abstract!DEdit(h, p)
        BY <2>1, <3>2, <4>1, <4>3, SameDirectories DEF Abstract!DEdit, Abstract!Written
      <4> QED BY <4>4, SameDirectories DEF Abstract!DNext
    <3>5. CASE EditDelete(h, p)
      <4>1. PICK dk \in UserDelete(disk[h], p) : disk' = [disk EXCEPT ![h] = dk]
        BY <3>5 DEF EditDelete
      <4>2. stale' = stale
        BY <3>5 DEF EditDelete
      <4>3. Abstract!DEdit(h, p)
        BY <2>1, <3>2, <4>1, <4>2, SameDirectories DEF Abstract!DEdit
      <4> QED BY <4>3, SameDirectories DEF Abstract!DNext
    <3> QED BY <3>3, <3>4, <3>5
  <2>4. CASE /\ UNCHANGED << disk, tree, new, stale >>
             /\ \/ pc' = pc
                \/ pc' = [pc EXCEPT !["client"] = "recv"]
                \/ pc["server"] = "wait" /\ pc'["server"] \in {"wait", "sleep"}
    <3>1. /\ pc'["server"] \in {"wait", "sleep"}
          /\ pc'["server"] = "wait" => pc["server"] = "wait"
      BY <1>6, <2>4, BothHosts DEF TypeOK
    <3>2. agreed' = agreed
      <4>1. pc["server"] = "wait" => disk["server"] = ag
        BY <2>1, BothHosts DEF Open
      <4> QED BY <1>1, <1>6, <2>4, <3>1, <4>1 DEF MNext, Remember
    <3>3. Phase' = "open"
      BY <1>6, <3>1 DEF Phase
    <3> QED BY <1>2, <2>1, <2>4, <3>2, <3>3
  <2> QED BY <1>6, <2>2, <2>3, <2>4, OpenActions DEF MNext
<1>7. CASE /\ MNext /\ ~Down /\ ~Down'
           /\ pc["server"] \notin {"wait", "sleep"}
  <2>1. Round(ag, be, to) /\ Proper(ag) /\ Phase = "merging"
    BY <1>1, <1>7 DEF RoundInv, Phase
  <2>2. Grown(ag, be, to) /\ \A h \in Hosts : Proper(disk[h])
    BY <2>1 DEF Round, Grown
  <2>3. Next
    BY <1>7 DEF MNext
  <2>4. CASE pc'["server"] \notin {"wait", "sleep"}
    <3>1. UNCHANGED << agreed, before, touched >> /\ Phase' = "merging"
      BY <1>7, <2>4 DEF MNext, Remember, Phase
    <3> QED BY <1>2, <2>1, <3>1
  <2>5. CASE ClientHalf(ag, be, to) /\ Rebuild
    <3>1. PICK M : M = Merge(ag, be, to)
      OBVIOUS
    <3>2. (\A h \in Hosts : disk'[h] = M) /\ pc'["server"] = "wait"
      BY <1>7, <2>2, <2>5, <3>1, RebuildStep
    <3>3. agreed' = M /\ Phase' = "open"
      BY <1>7, <3>2, BothHosts DEF MNext, Remember, Phase
    <3>4. disk' = [h \in Hosts |-> M]
      BY <3>2 DEF TypeOK
    <3>5. stale'["server"] = {}
      BY <2>5, BothHosts DEF Rebuild, TypeOK
    <3>6. Abstract!Merged = M /\ ~Abstract!Conflict
      BY <1>1, <2>1, <2>5, <3>1, SameMerge DEF ClientHalf
    <3>7. Abstract!DMerge
      BY <2>1, <3>3, <3>4, <3>5, <3>6, SameDirectories DEF Abstract!DMerge
    <3> QED BY <3>7 DEF Abstract!DNext
  <2>6. CASE ServerHalf(ag, be, to)
    <3>1. pc'["server"] \notin {"wait", "sleep"}
      BY <1>7, <2>2, <2>3, <2>6, ServerHalfStep
    <3> QED BY <2>4, <3>1
  <2>7. CASE ClientHalf(ag, be, to) /\ ~Rebuild
    <3>1. pc'["server"] \notin {"wait", "sleep"}
      BY <1>7, <2>2, <2>3, <2>7, ClientHalfStep
    <3> QED BY <2>4, <3>1
  <2> QED BY <2>1, <2>5, <2>6, <2>7 DEF Round
<1> QED BY <1>3, <1>4, <1>5, <1>6, <1>7

(* A whole round is one merge of DirectorySync, the edits in the nap are   *)
(* its edits, and the client's exit in syncReceiveFile its one conflict,   *)
(* for any paths, contents and socket sizes.                               *)
THEOREM RoundsImplementMerge == Calm => (MSpec => ImplementsMerge)
<1> SUFFICES ASSUME Calm PROVE MSpec => ImplementsMerge
  OBVIOUS
<1>1. MInit => Init
  BY DEF MInit
<1>2. [MNext]_mvars => [Next]_vars
  BY DEF MNext, mvars
<1>3. MSpec => Spec
  BY <1>1, <1>2, PTL DEF MSpec, Spec
<1>4. Spec => []TypeOK /\ []ProtoInv
  BY TypeCorrect, TurnsHold
<1>5. MInit => Recorded /\ Broken /\ Abstract!DInit
  BY MergeInit
<1>6. TypeOK /\ ProtoInv /\ Recorded /\ Broken /\ [MNext]_mvars => Recorded' /\ Broken'
  BY RecordStep
<1>7. TypeOK /\ TypeOK' /\ ProtoInv /\ Recorded /\ Recorded' /\ Broken /\ Broken'
        /\ [MNext]_mvars => [Abstract!DNext]_(Abstract!dvars)
  BY MergeStep
<1>8. MSpec => []Recorded /\ []Broken
  BY <1>3, <1>4, <1>5, <1>6, PTL DEF MSpec
<1>9. MSpec => Abstract!DSpec
  BY <1>3, <1>4, <1>5, <1>7, <1>8, PTL DEF MSpec, Abstract!DSpec
<1> QED BY <1>9 DEF ImplementsMerge
=============================================================================
