-------------------------- MODULE InitialSyncProofs --------------------------
(***************************************************************************)
(* Proofs about InitialSync, for any clients, directories, block sizes and *)
(* faults: its types, what a client keeps, and that no step of the         *)
(* programs takes content away. On the way: what a rename does to a        *)
(* directory, and why a timestamp is new. Then the sessions in which       *)
(* nothing goes wrong: when one is over, client and server agree; the      *)
(* server's process does not end in one; and only a file of an odd size    *)
(* makes it hang. Their inductive invariant, Invariant, says what each     *)
(* half of a session has done so far and how far the file that is being    *)
(* sent has come.                                                          *)
(***************************************************************************)
EXTENDS InitialSync, Integers, SequenceTheorems, WellFoundedInduction, TLAPS

(* A prefix, item by item.                                                 *)
LEMMA PrefixPoints ==
  ASSUME NEW S, NEW p \in Seq(S), NEW q \in Seq(S)
  PROVE  IsPrefix(p, q) <=> Len(p) <= Len(q) /\ \A i \in 1 .. Len(p) : p[i] = q[i]
<1> DEFINE sp == SubSeq(p, 1, Len(p))
           sq == SubSeq(q, 1, Len(p))
<1>1. sp = p
  BY SubSeqFull
<1>2. CASE Len(p) <= Len(q)
  <2>1. sq \in Seq(S) /\ Len(sq) = Len(p) /\ \A i \in 1 .. Len(p) : sq[i] = q[i]
    BY <1>2, SubSeqProperties, SMT
  <2>2. p = sq <=> \A i \in 1 .. Len(p) : p[i] = q[i]
    BY <2>1, SeqEqual
  <2> QED BY <1>1, <1>2, <2>2 DEF IsPrefix
<1>3. CASE ~(Len(p) <= Len(q))
  BY <1>3 DEF IsPrefix
<1> QED BY <1>2, <1>3

LEMMA PathParts ==
  ASSUME NEW p \in Paths
  PROVE  /\ p \in Seq(Labels) /\ Len(p) \in Nat \ {0} /\ DOMAIN p = 1 .. Len(p)
         /\ \A i \in 1 .. Len(p) : p[i] \in Labels
         /\ Front(p) \in Seq(Labels) /\ Len(Front(p)) = Len(p) - 1
         /\ \A i \in 1 .. Len(p) - 1 : Front(p)[i] = p[i]
         /\ Last(p) = p[Len(p)] /\ Last(p) \in Labels
<1>1. p \in Seq(Labels) /\ p # << >>
  BY DEF Paths
<1>2. Len(p) \in Nat \ {0} /\ DOMAIN p = 1 .. Len(p) /\ \A i \in 1 .. Len(p) : p[i] \in Labels
  BY <1>1, EmptySeq, LenProperties, ElementOfSeq
<1>3. /\ Front(p) \in Seq(Labels) /\ Len(Front(p)) = Len(p) - 1
      /\ \A i \in 1 .. Len(p) - 1 : Front(p)[i] = p[i]
  BY <1>1, <1>2, SubSeqProperties, SMT DEF Front
<1> QED BY <1>1, <1>2, <1>3, SMT DEF Last

LEMMA SubPath ==
  ASSUME NEW p \in Paths, NEW i \in 1 .. Len(p)
  PROVE  /\ SubSeq(p, 1, i) \in Paths /\ Len(SubSeq(p, 1, i)) = i
         /\ \A j \in 1 .. i : SubSeq(p, 1, i)[j] = p[j]
         /\ IsPrefix(SubSeq(p, 1, i), p)
<1> DEFINE t == SubSeq(p, 1, i)
<1>1. t \in Seq(Labels) /\ Len(t) = i /\ \A j \in 1 .. i : t[j] = p[j]
  BY PathParts, SubSeqProperties, SMT
<1>2. t # << >>
  BY <1>1, EmptySeq, PathParts
<1>3. IsPrefix(t, p)
  <2>1. p \in Seq(Labels) /\ Len(p) \in Nat
    BY PathParts
  <2> HIDE DEF t
  <2> QED BY <1>1, <2>1, PrefixPoints
<1> QED BY <1>1, <1>2, <1>3 DEF Paths

LEMMA PrefixSub ==
  ASSUME NEW p \in Paths, NEW q \in Paths, IsPrefix(p, q)
  PROVE  Len(p) \in 1 .. Len(q) /\ p = SubSeq(q, 1, Len(p))
<1>1. Len(p) \in 1 .. Len(q) /\ \A i \in 1 .. Len(p) : p[i] = q[i]
  BY PathParts, PrefixPoints
<1> QED BY <1>1, SubPath, PathParts, SeqEqual

LEMMA PrefixOrder ==
  ASSUME NEW p \in Paths, NEW q \in Paths, NEW r \in Paths
  PROVE  /\ IsPrefix(p, p)
         /\ IsPrefix(p, q) /\ IsPrefix(q, r) => IsPrefix(p, r)
         /\ IsPrefix(p, q) /\ Len(p) = Len(q) => p = q
<1>1. /\ IsPrefix(p, p)
      /\ IsPrefix(p, q) /\ IsPrefix(q, r) => IsPrefix(p, r)
  BY PathParts, PrefixPoints
<1>2. ASSUME IsPrefix(p, q), Len(p) = Len(q) PROVE p = q
  BY <1>2, PathParts, PrefixPoints, SeqEqual
<1> QED BY <1>1, <1>2

(* All that leads to a node is there, and is folders.                      *)
LEMMA Leads ==
  ASSUME NEW dk, IsDirectory(dk), NEW p \in Paths, NEW q \in DOMAIN dk, IsPrefix(p, q)
  PROVE  p \in DOMAIN dk /\ (p # q => dk[p] = Folder)
<1>1. q \in Paths
  BY DEF IsDirectory
<1>2. Len(p) \in 1 .. Len(q) /\ p = SubSeq(q, 1, Len(p)) /\ Len(q) \in Nat
  BY <1>1, PrefixSub, PathParts
<1>3. CASE Len(p) = Len(q)
  BY <1>1, <1>3, PrefixOrder
<1>4. CASE Len(p) # Len(q)
  <2>1. Len(p) \in 1 .. Len(q) - 1
    BY <1>2, <1>4
  <2>2. IsFolder(dk, p)
    BY <1>2, <2>1 DEF IsDirectory
  <2> QED BY <2>2 DEF IsFolder, Exists, IsDirectory
<1> QED BY <1>3, <1>4

LEMMA PutDirectory ==
  ASSUME NEW dk, IsDirectory(dk), NEW p \in Paths, CanCreate(dk, p),
         NEW n \in {Folder, File(<< >>)}
  PROVE  IsDirectory(Put(dk, p, n))
<1> DEFINE new == Put(dk, p, n)
<1>1. /\ DOMAIN new = DOMAIN dk \cup {p} /\ new[p] = n
      /\ \A q \in DOMAIN dk : new[q] = dk[q]
  BY DEF Put, CanCreate, Exists
<1>2. \A q : IsFolder(dk, q) => IsFolder(new, q)
  BY <1>1 DEF IsFolder, Exists
<1>3. n \in Nodes /\ (n.kind = "dir" => n = Folder)
  <2>1. << >> \in Seq(Bytes)
    BY EmptySeq
  <2>2. Folder \in Nodes /\ File(<< >>) \in Nodes
    BY <2>1, SMT DEF Nodes, Kinds, Folder, File
  <2>3. File(<< >>).kind # "dir"
    BY DEF File
  <2> QED BY <2>2, <2>3
<1>4. ASSUME NEW i \in 1 .. Len(p) - 1 PROVE IsFolder(dk, SubSeq(p, 1, i))
  <2>1. Len(p) \in Nat /\ i \in 1 .. Len(p) /\ Len(p) # 1
    BY PathParts
  <2>2. IsFolder(dk, Front(p)) /\ Front(p) \in DOMAIN dk
    BY <2>1 DEF CanCreate, InFolder, IsFolder, Exists
  <2>3. Front(p) \in Paths /\ Len(Front(p)) = Len(p) - 1
    BY <2>2, PathParts DEF IsDirectory
  <2>4. SubSeq(p, 1, i) \in Paths /\ IsPrefix(SubSeq(p, 1, i), Front(p))
    <3> DEFINE t == SubSeq(p, 1, i)
    <3>1. t \in Paths /\ Len(t) = i /\ \A j \in 1 .. i : t[j] = p[j]
      BY <2>1, SubPath
    <3>2. t \in Seq(Labels) /\ Front(p) \in Seq(Labels)
      BY <2>3, <3>1 DEF Paths
    <3>3. Len(t) <= Len(Front(p)) /\ \A j \in 1 .. Len(t) : t[j] = Front(p)[j]
      BY <2>1, <2>3, <3>1, PathParts
    <3> HIDE DEF t
    <3>4. IsPrefix(t, Front(p))
      BY <3>2, <3>3, PrefixPoints
    <3> QED BY <3>1, <3>4 DEF t
  <2>5. CASE SubSeq(p, 1, i) = Front(p)
    BY <2>2, <2>5
  <2>6. CASE SubSeq(p, 1, i) # Front(p)
    BY <2>2, <2>4, <2>6, Leads DEF IsFolder, Exists, Folder
  <2> QED BY <2>5, <2>6
<1>5. DOMAIN new \subseteq Paths
  BY <1>1 DEF IsDirectory
<1>6. ASSUME NEW q \in DOMAIN new
      PROVE /\ new[q] \in Nodes /\ (new[q].kind = "dir" => new[q] = Folder)
            /\ \A i \in 1 .. Len(q) - 1 : IsFolder(new, SubSeq(q, 1, i))
  <2>1. CASE q = p
    BY <1>1, <1>2, <1>3, <1>4, <2>1
  <2>2. CASE q # p
    <3>1. q \in DOMAIN dk
      BY <1>1, <2>2
    <3> QED BY <3>1, <1>1, <1>2 DEF IsDirectory
  <2> QED BY <2>1, <2>2
<1> QED BY <1>5, <1>6 DEF IsDirectory

-----------------------------------------------------------------------------
(* What renaming does to paths: Swap takes a path at or below p to the     *)
(* path it gets when p is renamed to q.                                    *)
Swap(p, q, s) == q \o SubSeq(s, Len(p) + 1, Len(s))

LEMMA SwapParts ==
  ASSUME NEW p \in Paths, NEW q \in Paths, Len(p) = Len(q),
         NEW s \in Paths, IsPrefix(p, s)
  PROVE  /\ Swap(p, q, s) \in Paths /\ Len(Swap(p, q, s)) = Len(s)
         /\ \A i \in 1 .. Len(s) :
              Swap(p, q, s)[i] = IF i <= Len(p) THEN q[i] ELSE s[i]
         /\ IsPrefix(q, Swap(p, q, s))
<1> DEFINE rest == SubSeq(s, Len(p) + 1, Len(s))
           t == Swap(p, q, s)
<1>1. /\ p \in Seq(Labels) /\ q \in Seq(Labels) /\ s \in Seq(Labels)
      /\ Len(p) \in Nat \ {0} /\ Len(s) \in Nat \ {0} /\ Len(p) <= Len(s)
      /\ \A i \in 1 .. Len(s) : s[i] \in Labels
  BY PathParts, PrefixSub
<1>2. /\ rest \in Seq(Labels) /\ Len(rest) = Len(s) - Len(p)
      /\ \A i \in 1 .. Len(s) - Len(p) : rest[i] = s[Len(p) + i]
  <2>1. \A i \in Len(p) + 1 .. Len(s) : s[i] \in Labels
    BY <1>1
  <2>2. /\ rest \in Seq(Labels)
        /\ Len(rest) = IF Len(p) + 1 <= Len(s) THEN Len(s) - (Len(p) + 1) + 1 ELSE 0
        /\ \A i \in 1 .. Len(s) - (Len(p) + 1) + 1 : rest[i] = s[Len(p) + 1 + i - 1]
    BY <1>1, <2>1, SubSeqProperties
  <2> QED BY <1>1, <2>2
<1> HIDE DEF rest
<1>3. t = q \o rest
  BY DEF Swap, rest
<1> HIDE DEF t
<1>4. /\ t \in Seq(Labels) /\ Len(t) = Len(s)
      /\ \A i \in 1 .. Len(s) : t[i] = IF i <= Len(p) THEN q[i] ELSE s[i]
  <2>1. /\ t \in Seq(Labels) /\ Len(t) = Len(q) + Len(rest)
        /\ \A i \in 1 .. Len(q) + Len(rest) :
             t[i] = IF i <= Len(q) THEN q[i] ELSE rest[i - Len(q)]
    BY <1>1, <1>2, <1>3, ConcatProperties
  <2>2. Len(q) + Len(rest) = Len(s)
    BY <1>1, <1>2
  <2>3. ASSUME NEW i \in 1 .. Len(s), ~(i <= Len(p)) PROVE t[i] = s[i]
    <3>1. i - Len(p) \in 1 .. Len(s) - Len(p) /\ Len(p) + (i - Len(p)) = i
      BY <1>1, <2>3
    <3>2. t[i] = rest[i - Len(p)]
      BY <1>1, <2>1, <2>2, <2>3
    <3> QED BY <1>2, <3>1, <3>2
  <2> QED BY <1>1, <2>1, <2>2, <2>3
<1>5. t # << >>
  BY <1>1, <1>4, EmptySeq
<1>6. IsPrefix(q, t)
  BY <1>1, <1>4, PrefixPoints
<1> QED BY <1>4, <1>5, <1>6 DEF t, Paths

LEMMA SwapBack ==
  ASSUME NEW p \in Paths, NEW q \in Paths, Len(p) = Len(q),
         NEW s \in Paths, IsPrefix(p, s)
  PROVE  Swap(q, p, Swap(p, q, s)) = s
<1> DEFINE t == Swap(p, q, s)
           u == Swap(q, p, t)
<1>1. /\ t \in Paths /\ Len(t) = Len(s) /\ IsPrefix(q, t)
      /\ \A i \in 1 .. Len(s) : t[i] = IF i <= Len(p) THEN q[i] ELSE s[i]
  BY SwapParts
<1> HIDE DEF t
<1>2. /\ u \in Paths /\ Len(u) = Len(t)
      /\ \A i \in 1 .. Len(t) : u[i] = IF i <= Len(q) THEN p[i] ELSE t[i]
  BY <1>1, SwapParts
<1> HIDE DEF u
<1>3. /\ p \in Seq(Labels) /\ s \in Seq(Labels) /\ u \in Seq(Labels)
      /\ Len(p) \in Nat /\ Len(s) \in Nat /\ Len(p) <= Len(s)
      /\ \A i \in 1 .. Len(p) : p[i] = s[i]
  BY <1>2, PathParts, PrefixPoints DEF Paths
<1>4. Len(u) = Len(s) /\ \A i \in 1 .. Len(s) : u[i] = s[i]
  BY <1>1, <1>2, <1>3
<1>5. u = s
  BY <1>3, <1>4, SeqEqual
<1> QED BY <1>5 DEF u, t

(* A place a node may be renamed to: beside it, and nothing is below it.   *)
Beside(dk, p, q) ==
  /\ q \in Paths /\ Len(q) = Len(p) /\ q # p
  /\ \A i \in 1 .. Len(p) - 1 : q[i] = p[i]
  /\ \A r \in DOMAIN dk : IsPrefix(q, r) => r = q

LEMMA MovedParts ==
  ASSUME NEW dk, IsDirectory(dk), NEW p \in DOMAIN dk, NEW q, Beside(dk, p, q)
  PROVE  /\ \A s \in Below(dk, p) :
              Swap(p, q, s) \in DOMAIN Moved(dk, p, q) /\ Moved(dk, p, q)[Swap(p, q, s)] = dk[s]
         /\ \A r \in DOMAIN dk : ~IsPrefix(p, r) /\ r # q =>
              r \in DOMAIN Moved(dk, p, q) /\ Moved(dk, p, q)[r] = dk[r]
         /\ \A r \in DOMAIN Moved(dk, p, q) :
              \/ r \in DOMAIN dk /\ ~IsPrefix(p, r) /\ r # q
              \/ \E s \in Below(dk, p) : r = Swap(p, q, s)
<1> DEFINE new == Moved(dk, p, q)
<1>1. p \in Paths /\ q \in Paths /\ Len(p) = Len(q)
  BY DEF IsDirectory, Beside
<1>2. \A s \in Below(dk, p) : s \in Paths /\ IsPrefix(p, s) /\ s \in DOMAIN dk
  BY DEF IsDirectory, Below
<1>3. DOMAIN new = (DOMAIN dk \ Below(dk, p)) \cup {Swap(p, q, s) : s \in Below(dk, p)}
  BY DEF Moved, Swap
<1>4. \A r \in DOMAIN new : new[r] = IF IsPrefix(q, r) THEN dk[Swap(q, p, r)] ELSE dk[r]
  BY DEF Moved, Swap
<1> HIDE DEF new
<1>5. ASSUME NEW s \in Below(dk, p)
      PROVE Swap(p, q, s) \in DOMAIN new /\ new[Swap(p, q, s)] = dk[s]
  <2>1. IsPrefix(q, Swap(p, q, s)) /\ Swap(q, p, Swap(p, q, s)) = s
    BY <1>1, <1>2, SwapParts, SwapBack
  <2> QED BY <1>3, <1>4, <2>1
<1>6. ASSUME NEW r \in DOMAIN dk, ~IsPrefix(p, r), r # q
      PROVE r \in DOMAIN new /\ new[r] = dk[r]
  <2>1. ~IsPrefix(q, r)
    BY <1>6 DEF Beside
  <2>2. r \notin Below(dk, p)
    BY <1>6 DEF Below
  <2> QED BY <1>3, <1>4, <2>1, <2>2
<1>7. ASSUME NEW r \in DOMAIN new
      PROVE \/ r \in DOMAIN dk /\ ~IsPrefix(p, r) /\ r # q
            \/ \E s \in Below(dk, p) : r = Swap(p, q, s)
  <2>1. CASE r = q
    <3>1. p \in Below(dk, p) /\ IsPrefix(p, p)
      BY <1>1, PrefixOrder DEF Below
    <3>2. Len(Swap(p, q, p)) = Len(q) /\ IsPrefix(q, Swap(p, q, p)) /\ Swap(p, q, p) \in Paths
      BY <1>1, <3>1, SwapParts
    <3>3. q = Swap(p, q, p)
      BY <1>1, <3>2, PrefixOrder
    <3> QED BY <2>1, <3>1, <3>3
  <2>2. CASE r # q
    BY <1>3, <2>2 DEF Below
  <2> QED BY <2>1, <2>2
<1> QED BY <1>5, <1>6, <1>7 DEF new

LEMMA MovedDirectory ==
  ASSUME NEW dk, IsDirectory(dk), NEW p \in DOMAIN dk, NEW q, Beside(dk, p, q)
  PROVE  IsDirectory(Moved(dk, p, q))
<1> DEFINE new == Moved(dk, p, q)
<1>1. /\ \A s \in Below(dk, p) :
           Swap(p, q, s) \in DOMAIN new /\ new[Swap(p, q, s)] = dk[s]
      /\ \A r \in DOMAIN dk : ~IsPrefix(p, r) /\ r # q => r \in DOMAIN new /\ new[r] = dk[r]
      /\ \A r \in DOMAIN new :
           \/ r \in DOMAIN dk /\ ~IsPrefix(p, r) /\ r # q
           \/ \E s \in Below(dk, p) : r = Swap(p, q, s)
  BY MovedParts
<1> HIDE DEF new
<1>2. /\ p \in Paths /\ q \in Paths /\ Len(p) = Len(q) /\ Len(p) \in Nat \ {0}
      /\ \A i \in 1 .. Len(p) - 1 : q[i] = p[i]
  BY PathParts DEF IsDirectory, Beside
<1>3. \A s \in Below(dk, p) : s \in Paths /\ IsPrefix(p, s) /\ s \in DOMAIN dk
  BY DEF IsDirectory, Below
<1>4. DOMAIN new \subseteq Paths
  BY <1>1, <1>2, <1>3, SwapParts DEF IsDirectory
<1>5. ASSUME NEW r \in DOMAIN new PROVE new[r] \in Nodes /\ (new[r].kind = "dir" => new[r] = Folder)
  BY <1>1, <1>3 DEF IsDirectory
<1>6. ASSUME NEW r \in DOMAIN new, NEW i \in 1 .. Len(r) - 1
      PROVE  IsFolder(new, SubSeq(r, 1, i))
  <2> DEFINE t == SubSeq(r, 1, i)
  <2>1. r \in Paths /\ Len(r) \in Nat /\ i \in 1 .. Len(r) /\ i < Len(r)
    BY <1>4, PathParts
  <2>2. t \in Paths /\ Len(t) = i /\ IsPrefix(t, r) /\ \A j \in 1 .. i : t[j] = r[j]
    BY <2>1, SubPath
  <2> HIDE DEF t
  <2>3. ASSUME r \in DOMAIN dk /\ ~IsPrefix(p, r) /\ r # q PROVE IsFolder(new, t)
    <3>1. t \in DOMAIN dk /\ dk[t] = Folder
      BY <2>1, <2>2, <2>3, Leads
    <3>2. ~IsPrefix(p, t)
      BY <1>2, <2>1, <2>2, <2>3, PrefixOrder
    <3>3. t # q
      BY <2>2, <2>3 DEF Beside
    <3> QED BY <1>1, <3>1, <3>2, <3>3 DEF IsFolder, Exists, Folder
  <2>4. ASSUME NEW s \in Below(dk, p), r = Swap(p, q, s) PROVE IsFolder(new, t)
    <3>1. /\ s \in Paths /\ IsPrefix(p, s) /\ s \in DOMAIN dk
          /\ Len(s) = Len(r) /\ Len(p) <= Len(s)
          /\ \A j \in 1 .. Len(s) : r[j] = IF j <= Len(p) THEN q[j] ELSE s[j]
      <4>1. s \in Paths /\ IsPrefix(p, s) /\ s \in DOMAIN dk
        BY <1>3
      <4>2. Len(p) <= Len(s)
        BY <1>2, <4>1, PrefixSub
      <4>3. /\ Len(Swap(p, q, s)) = Len(s)
            /\ \A j \in 1 .. Len(s) : Swap(p, q, s)[j] = IF j <= Len(p) THEN q[j] ELSE s[j]
        BY <1>2, <4>1, SwapParts
      <4> QED BY <2>4, <4>1, <4>2, <4>3
    <3> DEFINE u == SubSeq(s, 1, i)
    <3>2. u \in Paths /\ Len(u) = i /\ IsPrefix(u, s) /\ \A j \in 1 .. i : u[j] = s[j]
      BY <2>1, <3>1, SubPath
    <3> HIDE DEF u
    <3>3. u \in DOMAIN dk /\ dk[u] = Folder
      BY <2>1, <3>1, <3>2, Leads
    <3>4. p \in Seq(Labels) /\ q \in Seq(Labels) /\ s \in Seq(Labels)
          /\ t \in Seq(Labels) /\ u \in Seq(Labels)
      BY <1>2, <2>2, <3>1, <3>2 DEF Paths
    <3>5. \A j \in 1 .. Len(p) : p[j] = s[j]
      BY <3>1, <3>4, PrefixPoints
    <3>6. CASE Len(p) <= i
      <4>1. \A j \in 1 .. Len(p) : p[j] = u[j]
        BY <1>2, <2>1, <3>2, <3>5, <3>6
      <4>2. IsPrefix(p, u)
        BY <3>2, <3>4, <3>6, <4>1, PrefixPoints
      <4>3. u \in Below(dk, p)
        BY <3>3, <4>2 DEF Below
      <4>4. /\ Swap(p, q, u) \in Paths /\ Len(Swap(p, q, u)) = i
            /\ \A j \in 1 .. i : Swap(p, q, u)[j] = IF j <= Len(p) THEN q[j] ELSE u[j]
        BY <1>2, <3>2, <4>2, SwapParts
      <4>5. \A j \in 1 .. i : t[j] = Swap(p, q, u)[j]
        BY <2>1, <2>2, <3>1, <3>2, <4>4
      <4>6. t = Swap(p, q, u)
        <5>1. Swap(p, q, u) \in Seq(Labels)
          BY <4>4 DEF Paths
        <5> QED BY <2>2, <3>4, <4>4, <4>5, <5>1, SeqEqual
      <4> QED BY <1>1, <3>3, <4>3, <4>6 DEF IsFolder, Exists, Folder
    <3>7. CASE ~(Len(p) <= i)
      <4>1. \A j \in 1 .. i : t[j] = u[j]
        BY <1>2, <2>1, <2>2, <3>1, <3>2, <3>5, <3>7
      <4>2. t = u
        BY <2>2, <3>2, <3>4, <4>1, SeqEqual
      <4>3. ~IsPrefix(p, t) /\ t # q
        BY <1>2, <2>1, <2>2, <3>7, PrefixSub
      <4> QED BY <1>1, <3>3, <4>2, <4>3 DEF IsFolder, Exists, Folder
    <3> QED BY <3>6, <3>7
  <2>5. IsFolder(new, t)
    BY <1>1, <2>3, <2>4
  <2> QED BY <2>5 DEF t
<1> QED BY <1>4, <1>5, <1>6 DEF new, IsDirectory

(* The name a path gets in second t.                                       *)
StampedAt(p, t) == Append(Front(p), [Last(p) EXCEPT !.times = Append(@, t)])

LEMMA StampedParts ==
  ASSUME NEW p \in Paths, NEW t \in Nat
  PROVE  /\ StampedAt(p, t) \in Paths /\ Len(StampedAt(p, t)) = Len(p) /\ StampedAt(p, t) # p
         /\ \A i \in 1 .. Len(p) - 1 : StampedAt(p, t)[i] = p[i]
         /\ StampedAt(p, t)[Len(p)] = [p[Len(p)] EXCEPT !.times = Append(@, t)]
<1> DEFINE l == [Last(p) EXCEPT !.times = Append(@, t)]
           q == StampedAt(p, t)
<1>1. /\ Front(p) \in Seq(Labels) /\ Len(Front(p)) = Len(p) - 1 /\ Len(p) \in Nat \ {0}
      /\ \A i \in 1 .. Len(p) - 1 : Front(p)[i] = p[i]
      /\ Last(p) = p[Len(p)] /\ Last(p) \in Labels
  BY PathParts
<1>2. Last(p).times \in Seq(Nat)
  BY <1>1 DEF Labels
<1>3. Append(Last(p).times, t) \in Seq(Nat)
      /\ Len(Append(Last(p).times, t)) = Len(Last(p).times) + 1 /\ Len(Last(p).times) \in Nat
  BY <1>2, AppendProperties, LenProperties
<1>4. l \in Labels
  BY <1>1, <1>3 DEF Labels
<1>5. l.times = Append(Last(p).times, t)
  BY <1>1 DEF Labels
<1>6. l # Last(p)
  <2>1. Append(Last(p).times, t) # Last(p).times
    BY <1>3
  <2>2. l.times # Last(p).times
    BY <1>5, <2>1
  <2> HIDE DEF l
  <2> QED BY <2>2
<1> HIDE DEF l
<1>7. q = Append(Front(p), l)
  BY DEF StampedAt, l
<1> HIDE DEF q
<1>8. /\ q \in Seq(Labels) /\ q # << >> /\ Len(q) = Len(p)
      /\ \A i \in 1 .. Len(p) - 1 : q[i] = p[i]
      /\ q[Len(p)] = l
  <2>1. /\ q \in Seq(Labels) /\ q # << >> /\ Len(q) = Len(Front(p)) + 1
        /\ \A i \in 1 .. Len(Front(p)) : q[i] = Front(p)[i]
        /\ q[Len(Front(p)) + 1] = l
    BY <1>1, <1>4, <1>7, AppendProperties
  <2> QED BY <1>1, <2>1
<1> QED BY <1>1, <1>6, <1>8 DEF q, l, Paths

LEMMA StampedBeside ==
  ASSUME NEW dk, IsDirectory(dk), NEW p \in DOMAIN dk, now \in Nat,
         Movable(dk, p, Stamped(p))
  PROVE  Beside(dk, p, Stamped(p))
<1> DEFINE q == Stamped(p)
<1>1. p \in Paths
  BY DEF IsDirectory
<1>2. q \in Paths /\ Len(q) = Len(p) /\ q # p /\ \A i \in 1 .. Len(p) - 1 : q[i] = p[i]
  <2>1. q = StampedAt(p, now)
    BY DEF Stamped, StampedAt
  <2> HIDE DEF q
  <2>2. /\ StampedAt(p, now) \in Paths /\ Len(StampedAt(p, now)) = Len(p)
        /\ StampedAt(p, now) # p
        /\ \A i \in 1 .. Len(p) - 1 : StampedAt(p, now)[i] = p[i]
    BY <1>1, StampedParts
  <2> QED BY <2>1, <2>2
<1> HIDE DEF q
<1>3. ASSUME NEW r \in DOMAIN dk, IsPrefix(q, r) PROVE r = q
  <2>1. q \in DOMAIN dk
    BY <1>2, <1>3, Leads
  <2>2. Below(dk, q) = {q}
    BY <2>1 DEF Movable, Exists, q
  <2> QED BY <1>3, <2>2 DEF Below
<1> QED BY <1>2, <1>3 DEF Beside, q

LEMMA RenamedDirectory ==
  ASSUME NEW dk, IsDirectory(dk), NEW p \in Paths, now \in Nat
  PROVE  IsDirectory(Renamed(dk, p))
BY StampedBeside, MovedDirectory DEF Renamed, Exists

LEMMA WithoutDirectory ==
  ASSUME NEW dk, IsDirectory(dk), NEW p \in DOMAIN dk
  PROVE  IsDirectory(Without(dk, p))
<1> DEFINE new == Without(dk, p)
<1>1. /\ DOMAIN new = DOMAIN dk \ Below(dk, p)
      /\ \A q \in DOMAIN new : new[q] = dk[q]
  BY DEF Without
<1> HIDE DEF new
<1>2. p \in Paths /\ DOMAIN new \subseteq Paths
  BY <1>1 DEF IsDirectory
<1>3. ASSUME NEW q \in DOMAIN new, NEW i \in 1 .. Len(q) - 1
      PROVE  IsFolder(new, SubSeq(q, 1, i))
  <2> DEFINE t == SubSeq(q, 1, i)
  <2>1. q \in Paths /\ Len(q) \in Nat /\ i \in 1 .. Len(q)
    BY <1>2, PathParts
  <2>2. t \in Paths /\ IsPrefix(t, q)
    BY <2>1, SubPath
  <2>3. IsFolder(dk, t)
    BY <1>1 DEF IsDirectory
  <2> HIDE DEF t
  <2>4. t \notin Below(dk, p)
    BY <1>1, <1>2, <2>1, <2>2, PrefixOrder DEF Below
  <2> QED BY <1>1, <2>3, <2>4 DEF t, IsFolder, Exists
<1> QED BY <1>1, <1>2, <1>3 DEF new, IsDirectory

-----------------------------------------------------------------------------
(* What a read writes.                                                     *)
LEMMA MinParts ==
  ASSUME NEW I \in SUBSET Nat, I # {}
  PROVE  Min(I) \in I /\ \A x \in I : Min(I) <= x
<1>1. IsWellFoundedOn(OpToRel(<, Nat), Nat)
  BY NatLessThanWellFounded
<1>2. \E x \in I : \A y \in I : << y, x >> \notin OpToRel(<, Nat)
  BY <1>1, WFMin, Zenon
<1>3. \A x, y \in I : << y, x >> \in OpToRel(<, Nat) <=> y < x
  BY DEF OpToRel
<1>4. \E x \in I : \A y \in I : x <= y
  <2>1. PICK x \in I : \A y \in I : << y, x >> \notin OpToRel(<, Nat)
    BY <1>2, Zenon
  <2>2. \A y \in I : ~(y < x)
    BY <1>3, <2>1, Zenon
  <2>3. \A y \in I : x <= y
    BY <2>2
  <2> QED BY <2>3
<1> QED BY <1>4 DEF Min

LEMMA TextParts ==
  ASSUME NEW b \in Seq(Bytes)
  PROVE  /\ Text(b) \in Seq(Bytes)
         /\ ~Contains(b, Nul) => Text(b) = b
<1> DEFINE I == {i \in 1 .. Len(b) : b[i] = Nul}
<1>1. Len(b) \in Nat /\ \A i \in 1 .. Len(b) : b[i] \in Bytes
  BY LenProperties, ElementOfSeq
<1>2. CASE Contains(b, Nul)
  <2>1. I \in SUBSET Nat /\ I # {}
    BY <1>1, <1>2 DEF Contains
  <2>2. SelectInSeq(b, LAMBDA x : x = Nul) = Min(I)
    BY <2>1 DEF SelectInSeq
  <2> HIDE DEF I
  <2>3. Min(I) \in I
    BY <2>1, MinParts
  <2>4. Min(I) \in 1 .. Len(b)
    BY <2>3 DEF I
  <2>5. SubSeq(b, 1, Min(I) - 1) \in Seq(Bytes)
    <3>1. \A i \in 1 .. Min(I) - 1 : b[i] \in Bytes
      BY <1>1, <2>4
    <3>2. 1 \in Int /\ Min(I) - 1 \in Int
      BY <1>1, <2>4
    <3> QED BY <3>1, <3>2, SubSeqProperties
  <2> QED BY <1>2, <2>2, <2>5 DEF Text
<1>3. CASE ~Contains(b, Nul)
  BY <1>3 DEF Text
<1> QED BY <1>2, <1>3

LEMMA CutParts ==
  ASSUME NEW S, NEW s \in Seq(S), NEW m \in Nat \ {0}, NEW n \in 0 .. Len(s)
  PROVE  SubSeq(s, m, n) \in Seq(S)
<1>1. Len(s) \in Nat /\ \A i \in m .. n : s[i] \in S
  BY LenProperties, ElementOfSeq
<1>2. m \in Int /\ n \in Int
  BY <1>1
<1> QED BY <1>1, <1>2, SubSeqProperties

-----------------------------------------------------------------------------
(* The entries of the list of a directory.                                 *)
LEMMA EntryParts ==
  ASSUME NEW t
  PROVE  /\ \A e \in Entries(t) : e.p \in DOMAIN t /\ e.kind = t[e.p]
         /\ \A e, o \in Entries(t) : e # o => e.p # o.p
         /\ \A p \in DOMAIN t : [p |-> p, kind |-> t[p]] \in Entries(t)
BY DEF Entries

LEMMA TreeParts ==
  ASSUME NEW dk
  PROVE  DOMAIN TreeOf(dk) = DOMAIN dk /\ \A p \in DOMAIN dk : TreeOf(dk)[p] = dk[p].kind
BY DEF TreeOf

LEMMA HostsApart ==
  Server \notin Clients /\ Nobody \notin Hosts /\ Server \in Hosts /\ Clients \subseteq Hosts
BY SessionAssumption DEF Hosts, Server, Nobody

LEMMA InitTyped == Init => TypeOK
<1> SUFFICES ASSUME Init PROVE TypeOK
  OBVIOUS
<1>1. DOMAIN disk = Hosts /\ \A h \in Hosts : IsDirectory(disk[h])
  BY DiskAssumption DEF Init
<1>2. << >> \in Seq(Paths) /\ << >> \in Seq(Bytes)
  BY EmptySeq
<1>3. /\ tree \in [Clients -> {<< >>}] /\ DOMAIN << >> = {}
      /\ conn \in [Clients -> {"out", "waiting", "in"}]
      /\ 0 \in 0 .. MaxSessions /\ 0 \in 0 .. MaxFaults
  BY SessionAssumption DEF Init
<1> QED BY <1>1, <1>2, <1>3 DEF Init, TypeOK, Hosts, Quiet

(* A step that changes the directory of one host.                          *)
LEMMA OneDirectory ==
  ASSUME DOMAIN disk = Hosts, \A h \in Hosts : IsDirectory(disk[h]),
         NEW f \in Hosts, NEW n, IsDirectory(n), disk' = [disk EXCEPT ![f] = n]
  PROVE  /\ DOMAIN disk' = Hosts /\ \A h \in Hosts : IsDirectory(disk'[h])
         /\ disk'[f] = n /\ \A h \in Hosts \ {f} : disk'[h] = disk[h]
OBVIOUS

(* The fetcher's directory once a file is created, and once it is renamed. *)
LEMMA CreatesDirectory ==
  ASSUME TypeOK, NEW p \in Paths, cur # Nobody
  PROVE  /\ fetcher \in Hosts /\ IsDirectory(disk[fetcher])
         /\ IsDirectory(Renamed(disk[fetcher], p))
         /\ CanCreate(Renamed(disk[fetcher], p), p) =>
              IsDirectory(Put(Renamed(disk[fetcher], p), p, File(<< >>)))
         /\ CanCreate(disk[fetcher], p) => IsDirectory(Put(disk[fetcher], p, Folder))
<1>1. fetcher \in Hosts /\ IsDirectory(disk[fetcher]) /\ now \in Nat
  BY DEF TypeOK
<1>2. IsDirectory(Renamed(disk[fetcher], p))
  BY <1>1, RenamedDirectory
<1> QED BY <1>1, <1>2, PutDirectory

LEMMA WriteOutDirectory ==
  ASSUME TypeOK, NEW chunk \in Seq(Bytes), disk' = WriteOut(chunk), cur # Nobody
  PROVE  /\ DOMAIN disk' = Hosts /\ \A h \in Hosts : IsDirectory(disk'[h])
         /\ \A h \in Hosts \ {fetcher} : disk'[h] = disk[h]
         /\ DOMAIN disk'[fetcher] = DOMAIN disk[fetcher]
         /\ \A p \in DOMAIN disk[fetcher] : p # file => disk'[fetcher][p] = disk[fetcher][p]
         /\ IsFile(disk[fetcher], file) =>
              disk'[fetcher][file] = File(disk[fetcher][file].data \o Text(chunk))
<1>1. /\ DOMAIN disk = Hosts /\ \A h \in Hosts : IsDirectory(disk[h])
      /\ fetcher \in Hosts
  BY DEF TypeOK
<1>2. CASE ~IsFile(disk[fetcher], file)
  BY <1>1, <1>2 DEF WriteOut
<1>3. CASE IsFile(disk[fetcher], file)
  <2> DEFINE dk == disk[fetcher]
             d == dk[file].data \o Text(chunk)
             new == [dk EXCEPT ![file].data = d]
  <2>1. file \in DOMAIN dk /\ dk[file] \in Nodes /\ dk[file].kind = "file"
    BY <1>1, <1>3 DEF IsFile, Exists, IsDirectory
  <2>2. dk[file].data \in Seq(Bytes)
    BY <2>1 DEF Nodes
  <2>3. d \in Seq(Bytes)
    BY <2>2, TextParts, ConcatProperties
  <2>4. disk' = [disk EXCEPT ![fetcher] = new]
    BY <1>1, <1>3, <2>1 DEF WriteOut
  <2> HIDE DEF d
  <2>5. /\ DOMAIN new = DOMAIN dk /\ \A p \in DOMAIN dk : p # file => new[p] = dk[p]
        /\ new[file] = [dk[file] EXCEPT !.data = d]
    BY <2>1
  <2>6. [dk[file] EXCEPT !.data = d] = File(d) /\ File(d) \in Nodes
    <3>1. [dk[file] EXCEPT !.data = d] = File(d)
      BY <2>1, SMT DEF Nodes, File
    <3>2. File(d) \in Nodes
      BY <2>3, SMT DEF File, Nodes, Kinds
    <3> QED BY <3>1, <3>2
  <2> HIDE DEF new
  <2>7. IsDirectory(new)
    <3>1. \A q : IsFolder(dk, q) => IsFolder(new, q)
      BY <2>1, <2>5 DEF IsFolder, Exists
    <3>2. new[file].kind # "dir"
      BY <2>5, <2>6 DEF File
    <3>3. IsDirectory(dk)
      BY <1>1
    <3> HIDE DEF dk
    <3>4. \A p \in DOMAIN new : new[p] \in Nodes /\ (new[p].kind = "dir" => new[p] = Folder)
      BY <2>5, <2>6, <3>2, <3>3 DEF IsDirectory
    <3> QED BY <2>5, <3>1, <3>3, <3>4 DEF IsDirectory
  <2>8. /\ DOMAIN disk' = Hosts /\ \A h \in Hosts : IsDirectory(disk'[h])
        /\ disk'[fetcher] = new /\ \A h \in Hosts \ {fetcher} : disk'[h] = disk[h]
    BY <1>1, <2>4, <2>7, OneDirectory
  <2> QED BY <2>5, <2>6, <2>8 DEF d
<1> QED BY <1>2, <1>3

LEMMA FaultTyped ==
  ASSUME TypeOK, NEW cs, Fault(cs)
  PROVE  faults' \in 0 .. MaxFaults /\ clean' \subseteq Clients
<1>1. faults \in 0 .. MaxFaults /\ clean \subseteq Clients /\ MaxFaults \in Nat
  BY SessionAssumption DEF TypeOK
<1> QED BY <1>1 DEF Fault

LEMMA NextTyped == TypeOK /\ [Next]_vars => TypeOK'
<1> SUFFICES ASSUME TypeOK, [Next]_vars PROVE TypeOK'
  OBVIOUS
<1> USE DEF TypeOK, Quiet
<1>1. CASE UNCHANGED vars
  BY <1>1 DEF vars, transfer, session, luck
<1>2. ASSUME NEW c \in Clients, Connect(c) PROVE TypeOK'
  <2>1. \A p \in DOMAIN TreeOf(disk[c]) : p \in Paths /\ TreeOf(disk[c])[p] \in Kinds
    <3>1. IsDirectory(disk[c])
      BY HostsApart
    <3> QED BY <3>1 DEF TreeOf, IsDirectory, Nodes
  <2>2. sessions + 1 \in 0 .. MaxSessions
    BY <1>2, SessionAssumption DEF Connect
  <2> QED BY <1>2, <2>1, <2>2 DEF Connect, transfer
<1>3. ASSUME NEW c \in Clients, Begin(c) PROVE TypeOK'
  <2>1. Entries(tree[c]) \subseteq [p : Paths, kind : Kinds]
    BY DEF Entries
  <2>2. now' \in Nat
    BY <1>3 DEF Begin
  <2> QED BY <1>3, <2>1, <2>2, HostsApart DEF Begin, luck
<1>4. ASSUME NEW e \in list, SyncFile(e) PROVE TypeOK'
  <2>1. e.p \in Paths /\ list \ {e} \subseteq [p : Paths, kind : Kinds]
    OBVIOUS
  <2>2. CASE cur # Nobody
    <3>1. /\ fetcher \in Hosts /\ IsDirectory(disk[fetcher])
          /\ IsDirectory(Renamed(disk[fetcher], e.p))
          /\ CanCreate(Renamed(disk[fetcher], e.p), e.p) =>
               IsDirectory(Put(Renamed(disk[fetcher], e.p), e.p, File(<< >>)))
          /\ CanCreate(disk[fetcher], e.p) => IsDirectory(Put(disk[fetcher], e.p, Folder))
      BY <2>1, <2>2, CreatesDirectory
    <3>2. CASE SyncFolder(e)
      BY <2>1, <3>1, <3>2 DEF SyncFolder, Entry, Syncing, session, luck
    <3>3. CASE KeepOwn(e)
      BY <2>1, <3>3 DEF KeepOwn, Entry, Syncing, session, luck
    <3>4. CASE AskFile(e)
      <4>1. asked' \in Seq(Paths)
        BY <2>1, <3>4, AppendProperties DEF AskFile
      <4> QED BY <2>1, <3>1, <3>4, <4>1 DEF AskFile, Fetches, Creates, Entry, Syncing, session, luck
    <3>5. CASE AskGone(e)
      BY <2>1, <3>1, <3>5 DEF AskGone, Fetches, Creates, Entry, Syncing, session, luck
    <3>6. CASE CannotCreate(e)
      BY <2>1, <3>1, <3>6 DEF CannotCreate, Fetches, Entry, Syncing, session, luck
    <3> QED BY <1>4, <3>2, <3>3, <3>4, <3>5, <3>6 DEF SyncFile
  <2>3. CASE cur = Nobody
    BY <1>4, <2>3 DEF SyncFile, SyncFolder, KeepOwn, AskFile, AskGone, CannotCreate,
                      Fetches, Entry, Syncing, Running
  <2> QED BY <2>2, <2>3
<1>5. ASSUME NEW n \in Nat, ReadBytes(n), faults' \in 0 .. MaxFaults, clean' \subseteq Clients
      PROVE  TypeOK'
  <2> DEFINE chunk == SubSeq(wire, 1, n)
  <2>1. /\ n \in 1 .. Len(wire) /\ cur # Nobody
        /\ wire' = SubSeq(wire, n + 1, Len(wire))
        /\ UNCHANGED << list, file, asked, ppc, left, session, up >>
        /\ fpc' \in {"sync", "read"} /\ (disk' = WriteOut(chunk) \/ UNCHANGED disk)
    BY <1>5 DEF ReadBytes, Running
  <2>2. Len(wire) \in Nat
    BY LenProperties
  <2>3. chunk \in Seq(Bytes) /\ wire' \in Seq(Bytes)
    BY <2>1, <2>2, CutParts
  <2> HIDE DEF chunk
  <2>4. DOMAIN disk' = Hosts /\ \A h \in Hosts : IsDirectory(disk'[h])
    BY <2>1, <2>3, WriteOutDirectory
  <2> QED BY <1>5, <2>1, <2>3, <2>4 DEF session
<1>6. CASE Read
  <2>1. Whole \in Nat
    BY SessionAssumption, LenProperties DEF Whole
  <2> QED BY <1>5, <1>6, <2>1 DEF Read, luck
<1>7. CASE ReadSplit
  <2>1. Whole \in Nat
    BY SessionAssumption, LenProperties DEF Whole
  <2>2. faults' \in 0 .. MaxFaults /\ clean' \subseteq Clients
    BY <1>7, FaultTyped DEF ReadSplit
  <2> QED BY <1>5, <1>7, <2>1, <2>2 DEF ReadSplit
<1>8. CASE ReadEOF
  BY <1>8 DEF ReadEOF, Running, session, luck
<1>9. CASE Turn \/ TurnGarbled
  <2>1. Entries(TreeOf(disk[Server])) \subseteq [p : Paths, kind : Kinds]
    <3>1. IsDirectory(disk[Server])
      BY HostsApart
    <3>2. \A p \in DOMAIN TreeOf(disk[Server]) : p \in Paths /\ TreeOf(disk[Server])[p] \in Kinds
      BY <3>1 DEF TreeOf, IsDirectory, Nodes
    <3> QED BY <3>2 DEF Entries
  <2>2. cur # Nobody /\ cur \in Hosts
    BY <1>9, HostsApart DEF Turn, TurnGarbled, Turned, AllSynced, Syncing, Running
  <2>3. << >> \in Seq(Bytes)
    BY EmptySeq
  <2> QED BY <1>9, <2>1, <2>2, <2>3 DEF Turn, TurnGarbled, Turned, AllSynced, Syncing, luck
<1>10. CASE TurnSplit
  BY <1>10, FaultTyped DEF TurnSplit, transfer, session
<1>11. CASE Finish
  BY <1>11 DEF Finish, session, luck
<1>12. CASE Leave
  BY <1>12, EmptySeq DEF Leave, luck
<1>13. ASSUME NEW p \in ToSet(asked), OpenFile(p) \/ CannotOpen(p) PROVE TypeOK'
  <2>1. CASE OpenFile(p)
    <3>1. /\ Provider \in Hosts /\ IsFile(disk[Provider], p) /\ asked # << >>
          /\ cur # Nobody /\ fpc # "over"
      BY <2>1, HostsApart DEF OpenFile, Opens, Serving, Provider
    <3>2. left' \in Seq(Bytes)
      BY <2>1, <3>1 DEF OpenFile, IsFile, Exists, IsDirectory, Nodes
    <3>3. asked' \in Seq(Paths)
      BY <2>1, <3>1, HeadTailProperties DEF OpenFile
    <3> QED BY <2>1, <3>1, <3>2, <3>3 DEF OpenFile, session, luck
  <2>2. CASE CannotOpen(p)
    BY <2>2 DEF CannotOpen, transfer, session, luck
  <2> QED BY <1>13, <2>1, <2>2
<1>14. CASE SendBlock
  <2>1. cur # Nobody /\ fpc # "over"
    BY <1>14 DEF SendBlock, Serving
  <2>2. Len(left) \in Nat /\ WriteBlock \in Nat \ {0}
    BY SessionAssumption, LenProperties
  <2>3. Block \in Seq(Bytes) /\ Len(Block) \in 0 .. Len(left)
    <3>1. CASE Len(left) < WriteBlock
      BY <2>2, <3>1 DEF Block
    <3>2. CASE ~(Len(left) < WriteBlock)
      <4>1. /\ SubSeq(left, 1, WriteBlock) \in Seq(Bytes)
            /\ Len(SubSeq(left, 1, WriteBlock)) = WriteBlock
        <5>1. \A i \in 1 .. WriteBlock : left[i] \in Bytes
          BY <2>2, <3>2, ElementOfSeq
        <5> QED BY <2>2, <5>1, SubSeqProperties
      <4> QED BY <2>2, <3>2, <4>1 DEF Block
    <3> QED BY <3>1, <3>2
  <2>4. OnWire \in Seq(Bytes)
    <3>1. << Marker >> \in Seq(Bytes)
      <4>1. Marker \in Bytes
        BY DEF Bytes
      <4> QED BY <4>1
    <3> QED BY <2>3, <3>1 DEF OnWire
  <2>5. wire' \in Seq(Bytes)
    BY <1>14, <2>4, ConcatProperties DEF SendBlock
  <2>6. left' \in Seq(Bytes)
    BY <1>14, <2>2, <2>3, CutParts DEF SendBlock
  <2> QED BY <1>14, <2>1, <2>5, <2>6 DEF SendBlock, session, luck
<1>15. ASSUME NEW h \in Hosts, NEW p \in DOMAIN disk[h], RemoveNode(h, p) PROVE TypeOK'
  <2>1. IsDirectory(Without(disk[h], p))
    BY WithoutDirectory
  <2>2. UNCHANGED << transfer, session, up >> /\ disk' = [disk EXCEPT ![h] = Without(@, p)]
    BY <1>15 DEF RemoveNode
  <2>3. faults' \in 0 .. MaxFaults /\ clean' \subseteq Clients
    BY <1>15, FaultTyped DEF RemoveNode
  <2> QED BY <2>1, <2>2, <2>3 DEF transfer, session
<1>16. ASSUME NEW h \in Hosts, Crash(h) PROVE TypeOK'
  BY <1>16, FaultTyped DEF Crash, transfer, session
<1>17. CASE SurvivorExits
  BY <1>17 DEF SurvivorExits, transfer, session, luck
<1>18. CASE Restart
  BY <1>18, EmptySeq, HostsApart DEF Restart, luck
<1> QED
  BY <1>1, <1>2, <1>3, <1>4, <1>6, <1>7, <1>8, <1>9, <1>10, <1>11, <1>12, <1>13,
     <1>14, <1>15, <1>16, <1>17, <1>18
  DEF Next, Fetch, Provide, Unlucky, Removal

(* Type correctness: whatever the directories the hosts begin with, and    *)
(* whatever is removed, cut short or killed, a host's directory stays a    *)
(* tree of folders with files, and what crosses the socket is well formed. *)
THEOREM TypeCorrect == Spec => []TypeOK
<1>1. Init => TypeOK
  BY InitTyped
<1>2. TypeOK /\ [Next]_vars => TypeOK'
  BY NextTyped
<1> QED BY <1>1, <1>2, PTL DEF Spec

-----------------------------------------------------------------------------
(* Timestamps: a name that a session gives has not been given before.      *)
StampedTo(p, n) == \A i \in DOMAIN p : \A k \in DOMAIN p[i].times : p[i].times[k] <= n

(* Every timestamp of the path's label i is before n.                      *)
LEMMA LabelTimes ==
  ASSUME NEW p \in Paths, NEW i \in 1 .. Len(p)
  PROVE  /\ p[i].times \in Seq(Nat) /\ DOMAIN p[i].times = 1 .. Len(p[i].times)
         /\ Len(p[i].times) \in Nat
         /\ \A k \in DOMAIN p[i].times : p[i].times[k] \in Nat
<1>1. p[i].times \in Seq(Nat)
  BY PathParts DEF Labels
<1> QED BY <1>1, LenProperties, ElementOfSeq

LEMMA StampedLater ==
  ASSUME NEW p \in Paths, NEW m \in Int, NEW n \in Int, m <= n, StampedTo(p, m)
  PROVE  StampedTo(p, n)
<1> SUFFICES ASSUME NEW i \in DOMAIN p, NEW k \in DOMAIN p[i].times
             PROVE  p[i].times[k] <= n
  BY DEF StampedTo
<1>1. i \in 1 .. Len(p)
  BY PathParts
<1>2. p[i].times[k] \in Nat
  BY <1>1, LabelTimes
<1>3. p[i].times[k] <= m
  BY DEF StampedTo
<1> QED BY <1>2, <1>3

(* A stamped path has its stamp, in its last label.                        *)
LEMMA StampedTimes ==
  ASSUME NEW p \in Paths, NEW t \in Nat
  PROVE  /\ StampedAt(p, t)[Len(p)].times = Append(p[Len(p)].times, t)
         /\ StampedAt(p, t)[Len(p)].name = p[Len(p)].name
         /\ \E k \in DOMAIN StampedAt(p, t)[Len(p)].times :
              StampedAt(p, t)[Len(p)].times[k] = t
<1> DEFINE l == p[Len(p)]
<1>1. Len(p) \in 1 .. Len(p) /\ l \in Labels
  BY PathParts
<1>2. l.times \in Seq(Nat)
  BY <1>1, LabelTimes
<1>3. StampedAt(p, t)[Len(p)] = [l EXCEPT !.times = Append(@, t)]
  BY StampedParts
<1>4. /\ [l EXCEPT !.times = Append(@, t)].times = Append(l.times, t)
      /\ [l EXCEPT !.times = Append(@, t)].name = l.name
  BY <1>1 DEF Labels
<1>5. /\ Append(l.times, t) \in Seq(Nat) /\ Len(Append(l.times, t)) = Len(l.times) + 1
      /\ Append(l.times, t)[Len(l.times) + 1] = t /\ Len(l.times) \in Nat
  BY <1>2, AppendProperties, LenProperties
<1>6. Len(l.times) + 1 \in DOMAIN Append(l.times, t)
  BY <1>5, LenProperties
<1> QED BY <1>3, <1>4, <1>5, <1>6

LEMMA StampedNew ==
  ASSUME NEW p \in Paths, NEW q \in Paths, NEW t \in Nat, NEW n \in Int, n < t,
         StampedTo(q, n)
  PROVE  StampedAt(p, t) # q
<1> SUFFICES ASSUME StampedAt(p, t) = q PROVE FALSE
  OBVIOUS
<1>1. Len(p) \in DOMAIN q /\ Len(p) \in 1 .. Len(q)
  <2>1. Len(StampedAt(p, t)) = Len(p)
    BY StampedParts
  <2>2. Len(q) = Len(p) /\ DOMAIN q = 1 .. Len(q) /\ Len(p) \in Nat \ {0}
    BY <2>1, PathParts
  <2> QED BY <2>2
<1>2. PICK k \in DOMAIN q[Len(p)].times : q[Len(p)].times[k] = t
  BY StampedTimes
<1>3. t <= n
  BY <1>1, <1>2 DEF StampedTo
<1> QED BY <1>3

LEMMA StampedInjective ==
  ASSUME NEW p \in Paths, NEW q \in Paths, NEW t \in Nat, StampedAt(p, t) = StampedAt(q, t)
  PROVE  p = q
<1> DEFINE a == StampedAt(p, t)
           b == StampedAt(q, t)
           n == Len(p)
<1>1. /\ Len(a) = Len(p) /\ \A i \in 1 .. Len(p) - 1 : a[i] = p[i]
      /\ a[Len(p)].times = Append(p[Len(p)].times, t) /\ a[Len(p)].name = p[Len(p)].name
  BY StampedParts, StampedTimes
<1>2. /\ Len(b) = Len(q) /\ \A i \in 1 .. Len(q) - 1 : b[i] = q[i]
      /\ b[Len(q)].times = Append(q[Len(q)].times, t) /\ b[Len(q)].name = q[Len(q)].name
  BY StampedParts, StampedTimes
<1>3. a = b /\ n \in Nat \ {0}
  BY PathParts
<1> HIDE DEF a, b
<1>4. /\ Len(q) = n /\ \A i \in 1 .. n - 1 : p[i] = q[i]
      /\ Append(p[n].times, t) = Append(q[n].times, t) /\ p[n].name = q[n].name
  BY <1>1, <1>2, <1>3
<1>5. p[n] \in Labels /\ q[n] \in Labels /\ p[n].times = q[n].times
  <2>1. n \in 1 .. Len(p) /\ n \in 1 .. Len(q)
    BY <1>3, <1>4
  <2>2. p[n].times \in Seq(Nat) /\ q[n].times \in Seq(Nat)
    BY <2>1, LabelTimes
  <2>3. p[n].times = q[n].times
    <3>1. \A x, y \in Seq(Nat) : Append(x, t) = Append(y, t) => x = y
      BY AppendInjective
    <3> QED BY <1>4, <2>2, <3>1, Zenon
  <2> QED BY <2>1, <2>3, PathParts
<1>6. p[n] = q[n]
  BY <1>4, <1>5 DEF Labels
<1>7. \A i \in 1 .. n : p[i] = q[i]
  BY <1>3, <1>4, <1>6
<1>8. p \in Seq(Labels) /\ q \in Seq(Labels)
  BY DEF Paths
<1> QED BY <1>4, <1>7, <1>8, SeqEqual

(* What moves with a folder that is renamed in second t.                   *)
LEMMA SwapStamped ==
  ASSUME NEW p \in Paths, NEW s \in Paths, IsPrefix(p, s), NEW t \in Nat,
         StampedTo(s, t)
  PROVE  StampedTo(Swap(p, StampedAt(p, t), s), t)
<1> DEFINE q == StampedAt(p, t)
           r == Swap(p, q, s)
<1>1. /\ q \in Paths /\ Len(q) = Len(p) /\ \A i \in 1 .. Len(p) - 1 : q[i] = p[i]
      /\ q[Len(p)].times = Append(p[Len(p)].times, t)
  BY StampedParts, StampedTimes
<1> HIDE DEF q
<1>2. /\ r \in Paths /\ Len(r) = Len(s)
      /\ \A i \in 1 .. Len(s) : r[i] = IF i <= Len(p) THEN q[i] ELSE s[i]
  BY <1>1, SwapParts
<1> HIDE DEF r
<1>3. /\ Len(p) \in 1 .. Len(s) /\ Len(s) \in Nat /\ DOMAIN s = 1 .. Len(s)
      /\ \A i \in 1 .. Len(p) : p[i] = s[i]
  BY PrefixSub, PathParts, PrefixPoints
<1>4. ASSUME NEW i \in 1 .. Len(s), NEW k \in DOMAIN r[i].times PROVE r[i].times[k] <= t
  <2>1. CASE i # Len(p)
    <3>1. r[i] = s[i]
      BY <1>1, <1>2, <1>3, <2>1
    <3> QED BY <1>3, <3>1 DEF StampedTo
  <2>2. CASE i = Len(p)
    <3> DEFINE ts == s[i].times
    <3>1. ts \in Seq(Nat) /\ DOMAIN ts = 1 .. Len(ts) /\ Len(ts) \in Nat
      BY LabelTimes
    <3>2. r[i].times = Append(ts, t)
      BY <1>1, <1>2, <1>3, <2>2
    <3>3. \A j \in 1 .. Len(ts) : ts[j] <= t
      BY <1>3, <3>1 DEF StampedTo
    <3> HIDE DEF ts
    <3>4. /\ Append(ts, t) \in Seq(Nat) /\ Len(Append(ts, t)) = Len(ts) + 1
          /\ \A j \in 1 .. Len(ts) : Append(ts, t)[j] = ts[j]
          /\ Append(ts, t)[Len(ts) + 1] = t
      BY <3>1, AppendProperties
    <3>5. DOMAIN Append(ts, t) = 1 .. Len(ts) + 1
      BY <3>4, LenProperties
    <3> QED BY <3>1, <3>2, <3>3, <3>4, <3>5
  <2> QED BY <2>1, <2>2
<1>5. DOMAIN r = 1 .. Len(s)
  BY <1>2, PathParts
<1> QED BY <1>4, <1>5 DEF r, q, StampedTo

-----------------------------------------------------------------------------
(* The steps that change a directory.                                      *)
MakesFolder(e) ==
  /\ Entry(e, "dir") /\ list' = list \ {e} /\ CanCreate(disk[fetcher], e.p)
  /\ disk' = [disk EXCEPT ![fetcher] = Put(@, e.p, Folder)]
MakesFile(e) ==
  /\ Fetches(e) /\ CanCreate(Renamed(disk[fetcher], e.p), e.p)
  /\ disk' = [disk EXCEPT ![fetcher] = Put(Renamed(@, e.p), e.p, File(<< >>))]
OnlyRenames(e) ==
  Fetches(e) /\ disk' = [disk EXCEPT ![fetcher] = Renamed(@, e.p)]
Writes(n) ==
  /\ Running /\ fpc = "read" /\ n \in 1 .. Len(wire)
  /\ disk' = WriteOut(SubSeq(wire, 1, n))

LEMMA DiskSteps ==
  ASSUME [Next]_vars, ~Removal
  PROVE  \/ UNCHANGED disk
         \/ \E e \in list : MakesFolder(e) \/ MakesFile(e) \/ OnlyRenames(e)
         \/ \E n \in Nat : Writes(n)
<1>1. CASE UNCHANGED vars
  BY <1>1 DEF vars
<1>2. ASSUME NEW e \in list, SyncFile(e)
      PROVE  UNCHANGED disk \/ MakesFolder(e) \/ MakesFile(e) \/ OnlyRenames(e)
  BY <1>2 DEF SyncFile, SyncFolder, KeepOwn, AskFile, AskGone, CannotCreate, Creates,
              MakesFolder, MakesFile, OnlyRenames
<1>3. ASSUME NEW n, ReadBytes(n) PROVE UNCHANGED disk \/ (n \in Nat /\ Writes(n))
  BY <1>3 DEF ReadBytes, Writes
<1>4. CASE \E c \in Clients : Connect(c) \/ Begin(c)
  BY <1>4 DEF Connect, Begin
<1>5. CASE Fetch
  BY <1>2, <1>3, <1>5 DEF Fetch, Read, ReadEOF, Turn, TurnGarbled, Turned, Finish
<1>6. CASE Provide
  BY <1>6 DEF Provide, OpenFile, CannotOpen, SendBlock
<1>7. CASE Unlucky
  BY <1>3, <1>7 DEF Unlucky, ReadSplit, TurnSplit, Crash
<1>8. CASE Leave \/ SurvivorExits \/ Restart
  BY <1>8 DEF Leave, SurvivorExits, Restart
<1> QED BY <1>1, <1>4, <1>5, <1>6, <1>7, <1>8 DEF Next

(* The steps that change whose session it is, or its half.                 *)
LEMMA SessionSteps ==
  ASSUME [Next]_vars
  PROVE  \/ \E c \in Clients : Connect(c) \/ Begin(c)
         \/ Turn \/ TurnGarbled \/ Leave \/ Restart
         \/ UNCHANGED session /\ list' \subseteq list /\ (fpc = "over" => fpc' = "over")
<1> DEFINE Goes == UNCHANGED session /\ list' \subseteq list /\ (fpc = "over" => fpc' = "over")
<1>1. CASE UNCHANGED vars
  BY <1>1 DEF vars, transfer
<1>2. ASSUME NEW e \in list, SyncFile(e) PROVE Goes
  BY <1>2 DEF SyncFile, SyncFolder, KeepOwn, AskFile, AskGone, CannotCreate, Fetches,
              Entry, Syncing
<1>3. ASSUME NEW n, ReadBytes(n) PROVE Goes
  BY <1>3 DEF ReadBytes
<1>4. CASE Fetch /\ ~Turn /\ ~TurnGarbled
  BY <1>2, <1>3, <1>4 DEF Fetch, Read, ReadEOF, Finish
<1>5. CASE Provide
  BY <1>5 DEF Provide, OpenFile, CannotOpen, SendBlock, transfer
<1>6. CASE Unlucky
  BY <1>3, <1>6 DEF Unlucky, ReadSplit, TurnSplit, Removal, RemoveNode, Crash, transfer
<1>7. CASE SurvivorExits
  BY <1>7 DEF SurvivorExits, transfer
<1> QED BY <1>1, <1>4, <1>5, <1>6, <1>7 DEF Next

(* A client never renames: it fetches only what it does not have.          *)
LEMMA ClientFetches ==
  ASSUME NEW e, Fetches(e), fetcher # Server
  PROVE  ~Exists(disk[fetcher], e.p) /\ Renamed(disk[fetcher], e.p) = disk[fetcher]
BY DEF Fetches, Keeps, Renamed

-----------------------------------------------------------------------------
(* What a client has keeps its place and content, whatever the server has  *)
(* at the same paths, in every step of the programs and for every size of  *)
(* the blocks: syncFile leaves at once where the client has something.     *)
LEMMA ClientStep ==
  ASSUME TypeOK, [Next]_vars, ~Removal, NEW c \in Clients, NEW p \in DOMAIN disk[c],
         ~(fpc = "read" /\ fetcher = c /\ file = p)
  PROVE  Exists(disk'[c], p) /\ disk'[c][p] = disk[c][p]
<1>1. DOMAIN disk = Hosts /\ \A h \in Hosts : IsDirectory(disk[h])
  BY DEF TypeOK
<1>2. c \in Hosts /\ c # Server
  BY HostsApart
<1>3. ASSUME Running PROVE cur # Nobody /\ fetcher \in Hosts
  BY <1>3 DEF Running, TypeOK
<1>4. CASE UNCHANGED disk
  BY <1>4 DEF Exists
<1>5. ASSUME NEW e \in list, MakesFolder(e) PROVE Exists(disk'[c], p) /\ disk'[c][p] = disk[c][p]
  <2>1. fetcher \in Hosts
    BY <1>3, <1>5 DEF MakesFolder, Entry, Syncing
  <2> QED BY <1>1, <1>2, <1>5, <2>1 DEF MakesFolder, CanCreate, Put, Exists
<1>6. ASSUME NEW e \in list, MakesFile(e) PROVE Exists(disk'[c], p) /\ disk'[c][p] = disk[c][p]
  <2>1. fetcher \in Hosts
    BY <1>3, <1>6 DEF MakesFile, Fetches, Entry, Syncing
  <2>2. CASE fetcher = c
    <3>1. ~Exists(disk[c], e.p) /\ Renamed(disk[c], e.p) = disk[c]
      BY <1>2, <1>6, <2>2, ClientFetches DEF MakesFile
    <3> QED BY <1>1, <1>2, <1>6, <2>2, <3>1 DEF MakesFile, Put, Exists
  <2>3. CASE fetcher # c
    BY <1>1, <1>2, <1>6, <2>1, <2>3 DEF MakesFile, Exists
  <2> QED BY <2>2, <2>3
<1>7. ASSUME NEW e \in list, OnlyRenames(e) PROVE Exists(disk'[c], p) /\ disk'[c][p] = disk[c][p]
  <2>1. fetcher \in Hosts
    BY <1>3, <1>7 DEF OnlyRenames, Fetches, Entry, Syncing
  <2>2. CASE fetcher = c
    <3>1. Renamed(disk[c], e.p) = disk[c]
      BY <1>2, <1>7, <2>2, ClientFetches DEF OnlyRenames
    <3> QED BY <1>1, <1>2, <1>7, <2>2, <3>1 DEF OnlyRenames, Exists
  <2>3. CASE fetcher # c
    BY <1>1, <1>2, <1>7, <2>1, <2>3 DEF OnlyRenames, Exists
  <2> QED BY <2>2, <2>3
<1>8. ASSUME NEW n \in Nat, Writes(n) PROVE Exists(disk'[c], p) /\ disk'[c][p] = disk[c][p]
  <2>1. cur # Nobody /\ SubSeq(wire, 1, n) \in Seq(Bytes)
    BY <1>3, <1>8, CutParts DEF Writes, TypeOK
  <2>2. /\ \A h \in Hosts \ {fetcher} : disk'[h] = disk[h]
        /\ DOMAIN disk'[fetcher] = DOMAIN disk[fetcher]
        /\ \A q \in DOMAIN disk[fetcher] : q # file => disk'[fetcher][q] = disk[fetcher][q]
    BY <1>8, <2>1, WriteOutDirectory DEF Writes
  <2> QED BY <1>2, <1>8, <2>2 DEF Writes, Exists
<1> QED BY <1>4, <1>5, <1>6, <1>7, <1>8, DiskSteps

(* What a client has keeps its place and its content in every step of the  *)
(* programs, whatever the server sends it and whenever the other process   *)
(* is killed: only the file that is being read grows (syncFile).           *)
THEOREM ClientsContentKept == Spec => ClientKeeps
<1>1. TypeOK /\ [Next]_vars =>
        [~Removal =>
           \A c \in Clients : \A p \in DOMAIN disk[c] :
             ~(fpc = "read" /\ fetcher = c /\ file = p) =>
               Exists(disk'[c], p) /\ disk'[c][p] = disk[c][p]]_vars
  BY ClientStep
<1> QED BY <1>1, TypeCorrect, PTL DEF Spec, ClientKeeps

-----------------------------------------------------------------------------
(* No step takes content away: the inductive invariant.                    *)
ServerHalf == cur # Nobody /\ fpc # "over" /\ fetcher = Server

Locked ==
  /\ cur # Nobody => conn[cur] = "in"
  /\ cur = Nobody \/ fpc = "over" => up = Hosts
  /\ Hosts \ up \subseteq {Server, cur}

(* No timestamp is in the future.                                          *)
Stamps ==
  /\ \A h \in Hosts : \A p \in DOMAIN disk[h] : StampedTo(p, now)
  /\ \A c \in Clients : conn[c] = "waiting" => \A p \in DOMAIN tree[c] : StampedTo(p, now)
  /\ \A e \in list : StampedTo(e.p, now)

(* While the server fetches in another second than the session before, the *)
(* names it may yet give are new.                                          *)
Fresh ==
  ServerHalf =>
    /\ list \subseteq Entries(tree[cur])
    /\ ~Hurried =>
         /\ \A p \in DOMAIN tree[cur] : StampedTo(p, now - 1)
         /\ \A e \in list : ~Exists(disk[Server], StampedAt(e.p, now))

FreshInv == TypeOK /\ Locked /\ Stamps /\ Fresh

(* A path with the stamp of this second is one of a name given in it.      *)
LEMMA StampedGiven ==
  ASSUME NEW p \in Paths, now \in Nat
  PROVE  GivenNow(StampedAt(p, now))
<1> DEFINE q == StampedAt(p, now)
           ts == p[Len(p)].times
<1>1. /\ q \in Paths /\ Len(q) = Len(p) /\ q[Len(p)].times = Append(ts, now)
      /\ Len(p) \in 1 .. Len(p) /\ ts \in Seq(Nat)
  <2>1. Len(p) \in 1 .. Len(p)
    BY PathParts
  <2> QED BY <2>1, StampedParts, StampedTimes, LabelTimes
<1> HIDE DEF q, ts
<1>2. q # << >> /\ Last(q) = q[Len(p)]
  BY <1>1, PathParts DEF Paths
<1>3. /\ Len(Append(ts, now)) = Len(ts) + 1 /\ Append(ts, now)[Len(ts) + 1] = now
      /\ Len(ts) \in Nat /\ Append(ts, now) \in Seq(Nat)
  BY <1>1, AppendProperties, LenProperties
<1>4. Last(Append(ts, now)) = now /\ Append(ts, now) # << >>
  BY <1>3 DEF Last
<1> QED BY <1>1, <1>2, <1>4 DEF GivenNow, q

(* What a renamed directory has in it: everything it had, but for a file   *)
(* that the renamed file replaces; and p only if it could not be moved.    *)
LEMMA RenamedParts ==
  ASSUME NEW dk, IsDirectory(dk), NEW p \in Paths, now \in Nat
  PROVE  /\ \A s \in DOMAIN dk :
              \/ \E r \in DOMAIN Renamed(dk, p) : Renamed(dk, p)[r] = dk[s]
              \/ s = Stamped(p)
         /\ \A r \in DOMAIN dk : ~IsPrefix(p, r) =>
              /\ Exists(Renamed(dk, p), r) /\ Renamed(dk, p)[r].kind = dk[r].kind
              /\ Renamed(dk, p)[r] = dk[r] \/ r = Stamped(p)
         /\ Exists(Renamed(dk, p), p) =>
              /\ Renamed(dk, p) = dk /\ Exists(dk, Stamped(p))
              /\ ~Movable(dk, p, Stamped(p))
<1> DEFINE q == Stamped(p)
           new == Moved(dk, p, q)
<1>1. CASE ~(Exists(dk, p) /\ Movable(dk, p, q))
  <2>1. Renamed(dk, p) = dk
    BY <1>1 DEF Renamed
  <2> QED BY <1>1, <2>1 DEF Exists, Movable
<1>2. CASE Exists(dk, p) /\ Movable(dk, p, q)
  <2>1. Renamed(dk, p) = new /\ p \in DOMAIN dk
    BY <1>2 DEF Renamed, Exists
  <2>2. Beside(dk, p, q)
    BY <1>2, <2>1, StampedBeside
  <2>3. q \in DOMAIN dk => dk[p].kind = dk[q].kind
    BY <1>2 DEF Movable, Exists
  <2> HIDE DEF q
  <2>4. /\ \A s \in Below(dk, p) :
             Swap(p, q, s) \in DOMAIN new /\ new[Swap(p, q, s)] = dk[s]
        /\ \A r \in DOMAIN dk : ~IsPrefix(p, r) /\ r # q =>
             r \in DOMAIN new /\ new[r] = dk[r]
        /\ \A r \in DOMAIN new :
             \/ r \in DOMAIN dk /\ ~IsPrefix(p, r) /\ r # q
             \/ \E s \in Below(dk, p) : r = Swap(p, q, s)
    BY <2>1, <2>2, MovedParts
  <2>5. q \in Paths /\ Len(q) = Len(p) /\ q # p /\ IsPrefix(p, p)
    BY <2>2, PrefixOrder DEF Beside
  <2>6. q \in DOMAIN new /\ new[q] = dk[p]
    <3>1. Swap(p, q, p) \in Paths /\ Len(Swap(p, q, p)) = Len(q) /\ IsPrefix(q, Swap(p, q, p))
      BY <2>5, SwapParts
    <3>2. Swap(p, q, p) = q
      BY <2>5, <3>1, PrefixOrder
    <3> QED BY <2>1, <2>4, <2>5, <3>2 DEF Below
  <2>7. p \notin DOMAIN new
    <3>1. ASSUME NEW s \in Below(dk, p), p = Swap(p, q, s) PROVE FALSE
      <4>1. s \in Paths /\ IsPrefix(p, s)
        BY DEF Below, IsDirectory
      <4>2. IsPrefix(q, p)
        BY <2>5, <3>1, <4>1, SwapParts
      <4> QED BY <2>5, <4>2, PrefixOrder
    <3> QED BY <2>4, <2>5, <3>1
  <2> HIDE DEF new
  <2>8. \A s \in DOMAIN dk : s = q \/ \E r \in DOMAIN new : new[r] = dk[s]
    BY <2>4 DEF Below
  <2>9. \A r \in DOMAIN dk : ~IsPrefix(p, r) =>
          r \in DOMAIN new /\ new[r].kind = dk[r].kind /\ (new[r] = dk[r] \/ r = q)
    BY <2>3, <2>4, <2>6
  <2> QED BY <2>1, <2>7, <2>8, <2>9 DEF Exists, q
<1> QED BY <1>1, <1>2

(* A folder that is replaced is replaced by a folder.                      *)
LEMMA ReplacedFolder ==
  ASSUME NEW dk, IsDirectory(dk), NEW p \in Paths, now \in Nat,
         Exists(dk, Stamped(p)), dk[Stamped(p)].kind = "dir"
  PROVE  \E r \in DOMAIN Renamed(dk, p) : Renamed(dk, p)[r] = dk[Stamped(p)]
<1> DEFINE q == Stamped(p)
<1>1. CASE ~(Exists(dk, p) /\ Movable(dk, p, q))
  BY <1>1 DEF Renamed, Exists
<1>2. CASE Exists(dk, p) /\ Movable(dk, p, q)
  <2>1. Renamed(dk, p) = Moved(dk, p, q) /\ p \in DOMAIN dk /\ dk[p].kind = dk[q].kind
        /\ q \in DOMAIN dk
    BY <1>2 DEF Renamed, Exists, Movable
  <2>2. dk[p] = dk[q]
    BY <2>1 DEF IsDirectory
  <2>3. Beside(dk, p, q)
    BY <1>2, <2>1, StampedBeside
  <2> HIDE DEF q
  <2>4. p \in Below(dk, p)
    BY <2>1, PrefixOrder DEF Below
  <2>5. \E r \in DOMAIN Moved(dk, p, q) : Moved(dk, p, q)[r] = dk[p]
    BY <2>1, <2>3, <2>4, MovedParts
  <2> QED BY <2>1, <2>2, <2>5 DEF q
<1> QED BY <1>1, <1>2

(* Where what is in a renamed directory comes from.                        *)
LEMMA RenamedFrom ==
  ASSUME NEW dk, IsDirectory(dk), NEW p \in Paths, now \in Nat,
         NEW r \in DOMAIN Renamed(dk, p)
  PROVE  \/ r \in DOMAIN dk
         \/ \E s \in DOMAIN dk : IsPrefix(p, s) /\ r = Swap(p, StampedAt(p, now), s)
<1>1. StampedAt(p, now) = Stamped(p)
  BY DEF Stamped, StampedAt
<1>2. CASE Exists(dk, p) /\ Movable(dk, p, Stamped(p))
  <2>1. Beside(dk, p, Stamped(p)) /\ p \in DOMAIN dk
    BY <1>2, StampedBeside DEF Exists
  <2>2. r \in DOMAIN dk \/ \E s \in Below(dk, p) : r = Swap(p, Stamped(p), s)
    BY <1>2, <2>1, MovedParts DEF Renamed
  <2> QED BY <1>1, <2>2 DEF Below
<1>3. CASE ~(Exists(dk, p) /\ Movable(dk, p, Stamped(p)))
  BY <1>3 DEF Renamed
<1> QED BY <1>2, <1>3

LEMMA RenamedStamped ==
  ASSUME NEW dk, IsDirectory(dk), NEW p \in Paths, now \in Nat,
         \A s \in DOMAIN dk : StampedTo(s, now), NEW r \in DOMAIN Renamed(dk, p)
  PROVE  StampedTo(r, now)
<1>1. CASE r \in DOMAIN dk
  BY <1>1
<1>2. ASSUME NEW s \in DOMAIN dk, IsPrefix(p, s), r = Swap(p, StampedAt(p, now), s)
      PROVE  StampedTo(r, now)
  BY <1>2, SwapStamped DEF IsDirectory
<1> QED BY <1>1, <1>2, RenamedFrom

(* The other names the server may yet give stay new when one is given.     *)
LEMMA RenamedFresh ==
  ASSUME NEW dk, IsDirectory(dk), NEW p \in Paths, NEW o \in Paths, now \in Nat, o # p,
         StampedTo(o, now - 1), ~Exists(dk, StampedAt(o, now))
  PROVE  ~Exists(Renamed(dk, p), StampedAt(o, now))
<1> DEFINE q == StampedAt(p, now)
           w == StampedAt(o, now)
<1> SUFFICES ASSUME w \in DOMAIN Renamed(dk, p) PROVE FALSE
  BY DEF Exists
<1>1. PICK s \in DOMAIN dk : IsPrefix(p, s) /\ w = Swap(p, q, s)
  BY RenamedFrom DEF Exists
<1>2. /\ q \in Paths /\ Len(q) = Len(p) /\ q[Len(p)].times = Append(p[Len(p)].times, now)
      /\ \E k \in DOMAIN q[Len(p)].times : q[Len(p)].times[k] = now
  BY StampedParts, StampedTimes
<1>3. /\ w \in Paths /\ Len(w) = Len(o) /\ \A i \in 1 .. Len(o) - 1 : w[i] = o[i]
  BY StampedParts
<1>4. w = q => FALSE
  BY StampedInjective
<1> HIDE DEF q, w
<1>5. s \in Paths /\ Len(p) \in 1 .. Len(s) /\ Len(s) \in Nat
  BY <1>1, PrefixSub, PathParts DEF IsDirectory
<1>6. /\ Len(w) = Len(s) /\ IsPrefix(q, w)
      /\ \A i \in 1 .. Len(s) : w[i] = IF i <= Len(p) THEN q[i] ELSE s[i]
  <2>1. /\ Len(Swap(p, q, s)) = Len(s) /\ IsPrefix(q, Swap(p, q, s))
        /\ \A i \in 1 .. Len(s) :
             Swap(p, q, s)[i] = IF i <= Len(p) THEN q[i] ELSE s[i]
    BY <1>1, <1>2, <1>5, SwapParts
  <2> QED BY <1>1, <2>1
<1>7. CASE Len(s) = Len(p)
  BY <1>2, <1>3, <1>4, <1>6, <1>7, PrefixOrder
<1>8. CASE Len(s) # Len(p)
  <2>1. Len(p) \in 1 .. Len(o) - 1 /\ Len(p) \in DOMAIN o
    <3>1. Len(o) \in Nat /\ DOMAIN o = 1 .. Len(o)
      BY PathParts
    <3>2. Len(o) = Len(s)
      BY <1>3, <1>6
    <3> QED BY <1>5, <1>8, <3>1, <3>2
  <2>2. o[Len(p)] = q[Len(p)]
    BY <1>3, <1>5, <1>6, <2>1
  <2>3. \E k \in DOMAIN o[Len(p)].times : o[Len(p)].times[k] = now
    BY <1>2, <2>2
  <2>4. now <= now - 1
    BY <2>1, <2>3 DEF StampedTo
  <2> QED BY <2>4
<1> QED BY <1>7, <1>8

LEMMA DiskStamped ==
  ASSUME TypeOK, Stamps, [Next]_vars, NEW h \in Hosts, NEW p \in DOMAIN disk'[h]
  PROVE  StampedTo(p, now)
<1>1. /\ DOMAIN disk = Hosts /\ \A x \in Hosts : IsDirectory(disk[x])
      /\ now \in Nat /\ \A e \in list : e.p \in Paths
  BY DEF TypeOK
<1>2. /\ \A x \in Hosts : \A q \in DOMAIN disk[x] : StampedTo(q, now)
      /\ \A e \in list : StampedTo(e.p, now)
  BY DEF Stamps
<1>3. CASE Removal
  <2>1. PICK x \in Hosts : \E q \in DOMAIN disk[x] : RemoveNode(x, q)
    BY <1>3 DEF Removal
  <2>2. p \in DOMAIN disk[h]
    BY <1>1, <2>1 DEF RemoveNode, Without
  <2> QED BY <1>2, <2>2
<1>4. CASE UNCHANGED disk
  BY <1>2, <1>4
<1>5. ASSUME NEW e \in list, MakesFolder(e) \/ MakesFile(e) \/ OnlyRenames(e)
      PROVE  StampedTo(p, now)
  <2>1. fetcher \in Hosts /\ IsDirectory(disk[fetcher])
    BY <1>5 DEF MakesFolder, MakesFile, OnlyRenames, Fetches, Entry, Syncing, Running, TypeOK
  <2>2. \A r \in DOMAIN Renamed(disk[fetcher], e.p) : StampedTo(r, now)
    BY <1>1, <1>2, <2>1, RenamedStamped
  <2>3. \/ p \in DOMAIN disk[h] \/ p = e.p \/ p \in DOMAIN Renamed(disk[fetcher], e.p)
    <3>1. CASE MakesFolder(e)
      BY <1>1, <2>1, <3>1 DEF MakesFolder, Put
    <3>2. CASE MakesFile(e)
      BY <1>1, <2>1, <3>2 DEF MakesFile, Put
    <3>3. CASE OnlyRenames(e)
      BY <1>1, <2>1, <3>3 DEF OnlyRenames
    <3> QED BY <1>5, <3>1, <3>2, <3>3
  <2> QED BY <1>2, <2>2, <2>3
<1>6. ASSUME NEW n \in Nat, Writes(n) PROVE StampedTo(p, now)
  <2>1. cur # Nobody /\ SubSeq(wire, 1, n) \in Seq(Bytes)
    BY <1>6, CutParts DEF Writes, Running, TypeOK
  <2>2. \A x \in Hosts : DOMAIN disk'[x] = DOMAIN disk[x]
    BY <1>6, <2>1, WriteOutDirectory DEF Writes
  <2> QED BY <1>2, <2>2
<1> QED BY <1>3, <1>4, <1>5, <1>6, DiskSteps

(* The server's half of a session begins with its first step, and its      *)
(* list only gets shorter.                                                 *)
LEMMA HalfSteps ==
  ASSUME TypeOK, Locked, [Next]_vars, ServerHalf'
  PROVE  \/ \E c \in Clients : Begin(c)
         \/ /\ ServerHalf /\ cur' = cur /\ fetcher' = fetcher /\ now' = now /\ before' = before
            /\ list' \subseteq list /\ tree'[cur] = tree[cur]
<1> DEFINE Same == /\ ServerHalf /\ cur' = cur /\ fetcher' = fetcher
                   /\ now' = now /\ before' = before
                   /\ list' \subseteq list /\ tree'[cur] = tree[cur]
<1>1. ASSUME NEW c \in Clients, Connect(c) PROVE Same
  <2>1. ServerHalf /\ UNCHANGED << cur, fetcher, now, before, list, fpc >>
    BY <1>1 DEF Connect, transfer, ServerHalf
  <2>2. c # cur
    BY <1>1, <2>1 DEF Connect, Locked, ServerHalf
  <2>3. tree'[cur] = tree[cur]
    BY <1>1, <2>1, <2>2 DEF Connect, TypeOK, ServerHalf
  <2> QED BY <2>1, <2>3
<1>2. ~Turn /\ ~TurnGarbled
  <2>1. Server # Nobody
    BY DEF Server, Nobody
  <2>2. cur # Server
    BY <2>1, HostsApart DEF TypeOK
  <2> QED BY <2>2 DEF Turn, TurnGarbled, Turned, ServerHalf
<1>3. ~Leave /\ ~Restart
  BY DEF Leave, Restart, ServerHalf
<1>4. UNCHANGED session /\ list' \subseteq list /\ (fpc = "over" => fpc' = "over") => Same
  BY DEF session, ServerHalf
<1> QED BY <1>1, <1>2, <1>3, <1>4, SessionSteps

LEMMA FreshStep ==
  ASSUME FreshInv, [Next]_vars, ServerHalf'
  PROVE  /\ list' \subseteq Entries(tree'[cur'])
         /\ ~Hurried' =>
              /\ \A p \in DOMAIN tree'[cur'] : StampedTo(p, now' - 1)
              /\ \A e \in list' : ~Exists(disk'[Server], StampedAt(e.p, now'))
<1>1. /\ TypeOK /\ Locked /\ Stamps /\ Fresh
      /\ DOMAIN disk = Hosts /\ (\A x \in Hosts : IsDirectory(disk[x]))
      /\ now \in Nat /\ (\A e \in list : e.p \in Paths)
      /\ \A c \in Clients : \A p \in DOMAIN tree[c] : p \in Paths
  BY DEF FreshInv, TypeOK
<1>2. ASSUME NEW c \in Clients, Begin(c)
      PROVE  list' \subseteq Entries(tree'[cur'])
  BY <1>2 DEF Begin
<1>3. ASSUME NEW c \in Clients, Begin(c), ~Hurried'
      PROVE  /\ \A p \in DOMAIN tree'[cur'] : StampedTo(p, now' - 1)
             /\ \A e \in list' : ~Exists(disk'[Server], StampedAt(e.p, now'))
  <2>1. /\ now' = now + 1 /\ cur' = c /\ list' = Entries(tree[c]) /\ UNCHANGED << disk, tree >>
        /\ conn[c] = "waiting"
    BY <1>3 DEF Begin, Hurried
  <2>2. \A p \in DOMAIN tree[c] : p \in Paths /\ StampedTo(p, now)
    BY <1>1, <2>1 DEF Stamps
  <2>3. ASSUME NEW e \in list' PROVE ~Exists(disk'[Server], StampedAt(e.p, now'))
    <3>1. e.p \in Paths
      BY <2>1, <2>2 DEF Entries
    <3>2. \A q \in DOMAIN disk[Server] : q \in Paths /\ StampedTo(q, now)
      BY <1>1, HostsApart DEF Stamps, IsDirectory
    <3>3. \A q \in DOMAIN disk[Server] : StampedAt(e.p, now + 1) # q
      BY <1>1, <3>1, <3>2, StampedNew
    <3> QED BY <2>1, <3>3 DEF Exists
  <2>4. now' - 1 = now
    BY <1>1, <2>1
  <2> QED BY <2>1, <2>2, <2>3, <2>4
<1>4. ASSUME ServerHalf, cur' = cur, now' = now, before' = before, list' \subseteq list,
             tree'[cur] = tree[cur]
      PROVE  list' \subseteq Entries(tree'[cur'])
  BY <1>1, <1>4 DEF Fresh
<1>5. ASSUME ServerHalf, cur' = cur, now' = now, before' = before, list' \subseteq list,
             tree'[cur] = tree[cur], ~Hurried'
      PROVE  /\ \A p \in DOMAIN tree'[cur'] : StampedTo(p, now' - 1)
             /\ \A e \in list' : ~Exists(disk'[Server], StampedAt(e.p, now'))
  <2>1. /\ list \subseteq Entries(tree[cur])
        /\ \A p \in DOMAIN tree[cur] : StampedTo(p, now - 1)
        /\ \A e \in list : ~Exists(disk[Server], StampedAt(e.p, now))
    BY <1>1, <1>5 DEF Fresh, Hurried
  <2>2. \A e, o \in list : e # o => e.p # o.p
    BY <2>1 DEF Entries
  <2>3. fetcher = Server /\ Server \in Hosts /\ cur \in Clients /\ cur # Nobody
    BY <1>1, <1>5, HostsApart DEF ServerHalf, TypeOK
  <2>4. \A e \in list : e.p \in Paths /\ StampedTo(e.p, now - 1)
    BY <1>1, <2>1 DEF Entries
  <2>5. ASSUME NEW o \in list' PROVE ~Exists(disk'[Server], StampedAt(o.p, now))
    <3>1. o \in list /\ o.p \in Paths /\ ~Exists(disk[Server], StampedAt(o.p, now))
      BY <1>5, <2>1, <2>4
    <3>2. CASE Removal
      <4>1. PICK x \in Hosts : \E q \in DOMAIN disk[x] : RemoveNode(x, q)
        BY <3>2 DEF Removal
      <4>2. DOMAIN disk'[Server] \subseteq DOMAIN disk[Server]
        BY <1>1, <2>3, <4>1 DEF RemoveNode, Without
      <4> QED BY <3>1, <4>2 DEF Exists
    <3>3. CASE UNCHANGED disk
      BY <3>1, <3>3
    <3>4. ASSUME NEW e \in list, MakesFolder(e) \/ MakesFile(e) \/ OnlyRenames(e)
          PROVE  ~Exists(disk'[Server], StampedAt(o.p, now))
      <4>1. e \notin list' /\ e.p # o.p
        BY <2>2, <3>1, <3>4 DEF MakesFolder, MakesFile, OnlyRenames, Fetches
      <4>2. ~Exists(Renamed(disk[Server], e.p), StampedAt(o.p, now))
        BY <1>1, <2>3, <2>4, <3>1, <4>1, RenamedFresh
      <4>3. StampedAt(o.p, now) # e.p
        BY <1>1, <2>4, <3>1, StampedNew
      <4>4. \/ DOMAIN disk'[Server] = DOMAIN disk[Server] \cup {e.p}
            \/ DOMAIN disk'[Server] \subseteq DOMAIN Renamed(disk[Server], e.p) \cup {e.p}
        <5>1. CASE MakesFolder(e)
          BY <1>1, <2>3, <5>1 DEF MakesFolder, Put
        <5>2. CASE MakesFile(e)
          BY <1>1, <2>3, <5>2 DEF MakesFile, Put
        <5>3. CASE OnlyRenames(e)
          BY <1>1, <2>3, <5>3 DEF OnlyRenames
        <5> QED BY <3>4, <5>1, <5>2, <5>3
      <4> QED BY <3>1, <4>2, <4>3, <4>4 DEF Exists
    <3>5. ASSUME NEW n \in Nat, Writes(n) PROVE ~Exists(disk'[Server], StampedAt(o.p, now))
      <4>1. SubSeq(wire, 1, n) \in Seq(Bytes)
        BY <1>1, <3>5, CutParts DEF Writes, TypeOK
      <4>2. DOMAIN disk'[Server] = DOMAIN disk[Server]
        BY <1>1, <2>3, <3>5, <4>1, WriteOutDirectory DEF Writes
      <4> QED BY <3>1, <4>2 DEF Exists
    <3> QED BY <3>2, <3>3, <3>4, <3>5, DiskSteps
  <2> QED BY <1>5, <2>1, <2>5
<1> QED BY <1>1, <1>2, <1>3, <1>4, <1>5, HalfSteps

LEMMA FreshInitial == Init => FreshInv
<1> SUFFICES ASSUME Init PROVE FreshInv
  OBVIOUS
<1>1. TypeOK
  BY InitTyped
<1>2. Locked /\ Fresh
  BY DEF Init, Locked, Fresh, ServerHalf, Hosts
<1>3. ASSUME NEW h \in Hosts, NEW p \in DOMAIN disk[h] PROVE StampedTo(p, now)
  <2>1. \A i \in DOMAIN p : p[i].times = << >>
    BY DiskAssumption DEF Init
  <2>2. DOMAIN << >> = {}
    OBVIOUS
  <2> QED BY <2>1, <2>2 DEF StampedTo
<1>4. Stamps
  BY <1>3 DEF Stamps, Init
<1> QED BY <1>1, <1>2, <1>4 DEF FreshInv

LEMMA LockedStep ==
  ASSUME TypeOK, Locked, [Next]_vars
  PROVE  Locked'
<1> USE DEF Locked
<1>0. cur # Nobody => fetcher \in {Server, cur} /\ Provider \in {Server, cur}
  BY DEF TypeOK, Provider
<1>1. CASE UNCHANGED vars
  BY <1>1 DEF vars, transfer, session
<1>2. ASSUME NEW c \in Clients, Connect(c) \/ Begin(c) PROVE Locked'
  BY <1>2, HostsApart DEF Connect, Begin, transfer, TypeOK
<1>3. ASSUME NEW e \in list, SyncFile(e) PROVE Locked'
  BY <1>0, <1>3 DEF SyncFile, SyncFolder, KeepOwn, AskFile, AskGone, CannotCreate, Fetches,
              Entry, Syncing, Running, session
<1>4. ASSUME NEW n, ReadBytes(n) PROVE Locked'
  BY <1>4 DEF ReadBytes, Running, session
<1>5. CASE Fetch
  <2>1. CASE Finish
    <3>1. cur # Nobody /\ fetcher = cur /\ cur \in up /\ Server \in up
      BY <2>1, HostsApart
         DEF Finish, AllSynced, Syncing, Running, Connected, Provider, TypeOK
    <3>2. up = Hosts
      BY <3>1 DEF TypeOK
    <3> QED BY <2>1, <3>1, <3>2 DEF Finish, session
  <2>2. CASE ~Finish
    BY <1>3, <1>4, <1>5, <2>2
      DEF Fetch, Read, ReadEOF, Turn, TurnGarbled, Turned, AllSynced, Syncing, Running, session
  <2> QED BY <2>1, <2>2
<1>6. CASE Provide
  <2>1. ASSUME NEW p, CannotOpen(p) PROVE Locked'
    <3>1. fpc # "over" /\ cur # Nobody
      BY <2>1 DEF CannotOpen, Opens, Serving, TypeOK, Quiet
    <3> QED BY <1>0, <2>1, <3>1 DEF CannotOpen, session, transfer
  <2>2. ASSUME NEW p, OpenFile(p) PROVE Locked'
    BY <2>2 DEF OpenFile, session
  <2>3. CASE SendBlock
    BY <2>3 DEF SendBlock, session
  <2> QED BY <1>6, <2>1, <2>2, <2>3 DEF Provide
<1>7. CASE Unlucky
  <2>1. CASE ReadSplit
    BY <1>4, <2>1 DEF ReadSplit
  <2>2. CASE TurnSplit
    BY <2>2 DEF TurnSplit, AllSynced, Syncing, Running, session, transfer
  <2>3. CASE Removal
    BY <2>3 DEF Removal, RemoveNode, session, transfer
  <2>4. ASSUME NEW h \in Hosts, Crash(h) PROVE Locked'
    BY <2>4 DEF Crash, session, transfer
  <2> QED BY <1>7, <2>1, <2>2, <2>3, <2>4 DEF Unlucky
<1>8. CASE Leave
  BY <1>8 DEF Leave
<1>9. CASE SurvivorExits
  BY <1>0, <1>9 DEF SurvivorExits, session, transfer
<1>10. CASE Restart
  BY <1>10 DEF Restart
<1> QED BY <1>1, <1>2, <1>5, <1>6, <1>7, <1>8, <1>9, <1>10 DEF Next

LEMMA StampsStep ==
  ASSUME TypeOK, Stamps, [Next]_vars
  PROVE  Stamps'
<1>1. /\ now \in Nat /\ DOMAIN tree = Clients /\ conn \in [Clients -> {"out", "waiting", "in"}]
      /\ \A h \in Hosts : \A p \in DOMAIN disk[h] : p \in Paths
      /\ \A h \in Hosts : \A p \in DOMAIN disk'[h] : p \in Paths
      /\ \A c \in Clients : \A p \in DOMAIN tree[c] : p \in Paths
      /\ \A e \in list : e.p \in Paths
  <2>1. TypeOK'
    BY NextTyped
  <2> QED BY <2>1 DEF TypeOK, IsDirectory
<1>2. now' = now \/ now' = now + 1
  BY SessionSteps DEF Connect, Begin, Turn, TurnGarbled, Turned, Leave, Restart, session
<1>3. \A p \in Paths : StampedTo(p, now) => StampedTo(p, now')
  BY <1>1, <1>2, StampedLater
<1>4. \A h \in Hosts : \A p \in DOMAIN disk'[h] : StampedTo(p, now')
  BY <1>1, <1>3, DiskStamped
<1>5. ASSUME NEW c \in Clients, conn'[c] = "waiting"
      PROVE  \A p \in DOMAIN tree'[c] : StampedTo(p, now')
  <2>1. \/ conn[c] = "waiting" /\ tree'[c] = tree[c]
        \/ tree'[c] = TreeOf(disk[c])
    BY <1>1, <1>5, SessionSteps DEF Connect, Begin, Turn, TurnGarbled, Turned, Leave, Restart, session
  <2>2. c \in Hosts
    BY HostsApart
  <2> QED BY <1>1, <1>3, <2>1, <2>2 DEF Stamps, TreeOf
<1>6. ASSUME NEW e \in list' PROVE StampedTo(e.p, now')
  <2>1. \/ e \in list
        \/ \E c \in Clients : conn[c] = "waiting" /\ e \in Entries(tree[c])
        \/ e \in Entries(TreeOf(disk[Server]))
    BY SessionSteps
       DEF Connect, Begin, Turn, TurnGarbled, Turned, Leave, Restart, transfer
  <2>2. CASE e \in list
    BY <1>1, <1>3, <2>2 DEF Stamps
  <2>3. ASSUME NEW c \in Clients, conn[c] = "waiting", e \in Entries(tree[c])
        PROVE  StampedTo(e.p, now')
    BY <1>1, <1>3, <2>3 DEF Stamps, Entries
  <2>4. CASE e \in Entries(TreeOf(disk[Server]))
    <3>1. e.p \in DOMAIN disk[Server]
      BY <2>4, EntryParts, TreeParts
    <3> QED BY <1>1, <1>3, <3>1, HostsApart DEF Stamps
  <2> QED BY <2>1, <2>2, <2>3, <2>4
<1> QED BY <1>4, <1>5, <1>6 DEF Stamps

LEMMA FreshInductive ==
  ASSUME FreshInv, [Next]_vars
  PROVE  FreshInv'
<1>1. TypeOK' /\ Locked' /\ Stamps'
  BY NextTyped, LockedStep, StampsStep DEF FreshInv
<1>2. Fresh'
  BY FreshStep DEF Fresh
<1> QED BY <1>1, <1>2 DEF FreshInv

LEMMA ContentStep ==
  ASSUME FreshInv, [Next]_vars, ~Removal, NEW h \in Hosts, NEW p \in DOMAIN disk[h]
  PROVE  \/ \E q \in DOMAIN disk'[h] :
              /\ disk'[h][q].kind = disk[h][p].kind
              /\ IsPrefix(disk[h][p].data, disk'[h][q].data)
         \/ h = Server /\ Replaced(p) /\ ServerHalf
<1> DEFINE Goal == \/ \E q \in DOMAIN disk'[h] :
                        /\ disk'[h][q].kind = disk[h][p].kind
                        /\ IsPrefix(disk[h][p].data, disk'[h][q].data)
                   \/ h = Server /\ Replaced(p) /\ ServerHalf
<1>1. /\ TypeOK /\ Fresh /\ DOMAIN disk = Hosts /\ (\A x \in Hosts : IsDirectory(disk[x]))
      /\ now \in Nat /\ \A e \in list : e.p \in Paths
  BY DEF FreshInv, TypeOK
<1>2. disk[h][p].data \in Seq(Bytes)
  BY <1>1 DEF IsDirectory, Nodes
<1>3. IsPrefix(disk[h][p].data, disk[h][p].data)
  BY <1>2, PrefixPoints, LenProperties
<1>4. (\E q \in DOMAIN disk'[h] : disk'[h][q] = disk[h][p]) => Goal
  BY <1>3
<1>5. CASE UNCHANGED disk
  BY <1>4, <1>5
<1>6. ASSUME NEW e \in list, MakesFolder(e) PROVE Goal
  <2>1. fetcher \in Hosts
    BY <1>1, <1>6 DEF MakesFolder, Entry, Syncing, Running, TypeOK
  <2>2. p \in DOMAIN disk'[h] /\ disk'[h][p] = disk[h][p]
    BY <1>1, <1>6, <2>1 DEF MakesFolder, CanCreate, Exists, Put
  <2> QED BY <1>4, <2>2
<1>7. ASSUME NEW e \in list, MakesFile(e) \/ OnlyRenames(e) PROVE Goal
  <2>1. /\ Fetches(e) /\ fetcher \in Hosts /\ fetcher \in {Server, cur}
        /\ cur # Nobody /\ fpc # "over"
    BY <1>1, <1>7 DEF MakesFile, OnlyRenames, Fetches, Entry, Syncing, Running, TypeOK
  <2>2. h = fetcher =>
          \/ \E q \in DOMAIN Renamed(disk[fetcher], e.p) :
               Renamed(disk[fetcher], e.p)[q] = disk[h][p]
          \/ h = Server /\ Replaced(p) /\ ServerHalf
    <3>1. CASE h = fetcher /\ fetcher = Server
      <4>1. \/ \E q \in DOMAIN Renamed(disk[Server], e.p) :
                 Renamed(disk[Server], e.p)[q] = disk[Server][p]
            \/ p = Stamped(e.p)
        BY <1>1, <2>1, <3>1, RenamedParts
      <4>2. CASE p = Stamped(e.p)
        <5>1. ServerHalf /\ Hurried
          <6>1. Stamped(e.p) = StampedAt(e.p, now)
            BY DEF Stamped, StampedAt
          <6> QED BY <1>1, <2>1, <3>1, <4>2, <6>1 DEF Fresh, ServerHalf, Exists
        <5>2. CASE disk[Server][p].kind = "dir"
          BY <1>1, <2>1, <3>1, <4>2, <5>2, ReplacedFolder DEF Exists
        <5>3. CASE disk[Server][p].kind # "dir"
          <6>1. IsFile(disk[Server], p)
            BY <1>1, <3>1, <5>3 DEF IsFile, Exists, IsDirectory, Nodes, Kinds
          <6> QED BY <2>1, <3>1, <4>2, <5>1, <6>1 DEF Replaced
        <5> QED BY <5>2, <5>3
      <4> QED BY <3>1, <4>1, <4>2
    <3>2. CASE fetcher # Server
      BY <2>1, <3>2, ClientFetches
    <3> QED BY <3>1, <3>2
  <2>3. CASE h # fetcher
    BY <1>1, <1>4, <1>7, <2>1, <2>3 DEF MakesFile, OnlyRenames
  <2>4. CASE h = fetcher
    <3> SUFFICES ASSUME \E q \in DOMAIN Renamed(disk[h], e.p) :
                          Renamed(disk[h], e.p)[q] = disk[h][p]
                 PROVE  Goal
      BY <2>2, <2>4
    <3>1. PICK q \in DOMAIN Renamed(disk[h], e.p) : Renamed(disk[h], e.p)[q] = disk[h][p]
      OBVIOUS
    <3>2. CASE MakesFile(e)
      BY <1>1, <1>4, <2>1, <2>4, <3>1, <3>2 DEF MakesFile, CanCreate, Exists, Put
    <3>3. CASE OnlyRenames(e)
      BY <1>1, <1>4, <2>1, <2>4, <3>1, <3>3 DEF OnlyRenames
    <3> QED BY <1>7, <3>2, <3>3
  <2> QED BY <2>3, <2>4
<1>8. ASSUME NEW n \in Nat, Writes(n) PROVE Goal
  <2> DEFINE chunk == SubSeq(wire, 1, n)
  <2>1. cur # Nobody /\ chunk \in Seq(Bytes) /\ disk' = WriteOut(chunk)
    BY <1>1, <1>8, CutParts DEF Writes, Running, TypeOK
  <2> HIDE DEF chunk
  <2>2. /\ \A x \in Hosts \ {fetcher} : disk'[x] = disk[x]
        /\ DOMAIN disk'[fetcher] = DOMAIN disk[fetcher]
        /\ \A q \in DOMAIN disk[fetcher] : q # file => disk'[fetcher][q] = disk[fetcher][q]
        /\ IsFile(disk[fetcher], file) =>
             disk'[fetcher][file] = File(disk[fetcher][file].data \o Text(chunk))
    BY <1>1, <2>1, WriteOutDirectory
  <2>3. CASE h # fetcher \/ p # file
    BY <1>4, <2>2, <2>3
  <2>4. CASE h = fetcher /\ p = file /\ disk[h][p].kind = "file"
    <3> DEFINE d == disk[h][p].data
    <3>1. disk'[h][p] = File(d \o Text(chunk))
      BY <2>2, <2>4 DEF IsFile, Exists
    <3>2. d \in Seq(Bytes) /\ Text(chunk) \in Seq(Bytes)
      BY <1>2, <2>1, TextParts
    <3> HIDE DEF d
    <3>3. IsPrefix(d, d \o Text(chunk))
      <4>1. /\ d \o Text(chunk) \in Seq(Bytes) /\ Len(d \o Text(chunk)) = Len(d) + Len(Text(chunk))
            /\ \A i \in 1 .. Len(d) + Len(Text(chunk)) : (d \o Text(chunk))[i] =
                 IF i <= Len(d) THEN d[i] ELSE Text(chunk)[i - Len(d)]
            /\ Len(d) \in Nat /\ Len(Text(chunk)) \in Nat
        BY <3>2, ConcatProperties, LenProperties
      <4>2. Len(d) <= Len(d \o Text(chunk)) /\ \A i \in 1 .. Len(d) : (d \o Text(chunk))[i] = d[i]
        BY <4>1
      <4> QED BY <3>2, <4>1, <4>2, PrefixPoints
    <3>4. disk'[h][p].kind = "file" /\ disk'[h][p].data = d \o Text(chunk)
      BY <3>1 DEF File
    <3>5. p \in DOMAIN disk'[h]
      BY <2>2, <2>4
    <3> QED BY <2>4, <3>3, <3>4, <3>5 DEF d
  <2>5. CASE h = fetcher /\ p = file /\ disk[h][p].kind # "file"
    <3>1. disk' = disk
      BY <2>1, <2>5 DEF WriteOut, IsFile
    <3> QED BY <1>4, <3>1
  <2> QED BY <2>3, <2>4, <2>5
<1> QED BY <1>5, <1>6, <1>7, <1>8, DiskSteps

(* Whatever goes wrong, no step of the programs takes away content: a file *)
(* that is fetched is created, never overwritten (open with O_EXCL), and a *)
(* rename meets a file of the new name only in a session that begins in    *)
(* the second of the one before (renameFileWithUnique); then that one file *)
(* is replaced, and everything else stays.                                 *)
THEOREM NoContentLost == Spec => NothingLost
<1>1. Init => FreshInv
  BY FreshInitial
<1>2. FreshInv /\ [Next]_vars => FreshInv'
  BY FreshInductive
<1>3. FreshInv /\ [Next]_vars =>
        [~Removal =>
           \A h \in Hosts : \A p \in DOMAIN disk[h] :
             \/ \E q \in DOMAIN disk'[h] :
                  /\ disk'[h][q].kind = disk[h][p].kind
                  /\ IsPrefix(disk[h][p].data, disk'[h][q].data)
             \/ h = Server /\ Replaced(p)]_vars
  BY ContentStep
<1> QED BY <1>1, <1>2, <1>3, PTL DEF Spec, NothingLost

-----------------------------------------------------------------------------
(* The invariant.                                                          *)

ClientHalf == cur # Nobody /\ fetcher = cur
Sane == cur # Nobody /\ cur \in clean
Live == Sane /\ up = Hosts

(* The lock, the fetcher at the end, and what makes a session unclean.     *)
Lifecycle ==
  /\ cur # Nobody /\ fpc = "over" => fetcher = cur /\ list = {}
  /\ faults = 0 => \A c \in Clients : conn[c] # "out" => c \in clean

(* What a client remembers of its directory is so until it fetches.        *)
Remembered ==
  \A c \in clean : conn[c] = "waiting" \/ (ServerHalf /\ c = cur) =>
    tree[c] = TreeOf(disk[c])

(* Why a process may have ended in a session in which nothing went wrong.  *)
Excused ==
  \/ HasEarly(cur)
  \/ \E p \in DOMAIN disk[Server] : BlockedFolder(cur, p)
  \/ Hurried /\ \E p \in DOMAIN tree[cur] : tree[cur][p] = "file" /\ Clash(p)
Ended == Sane => up = Hosts \/ (Server \notin up /\ Excused)

(* A node of h that is still on the fetcher's list.                        *)
Pending(h, p) == Exists(disk[h], p) /\ [p |-> p, kind |-> disk[h][p].kind] \in list
SameKind(p) ==
  Exists(disk[cur], p) /\ Exists(disk[Server], p)
  /\ disk[Server][p].kind = disk[cur][p].kind
Agreed(p) == SameKind(p) \/ (IsFolder(disk[cur], p) /\ Blocked(cur, p))

(* What the fetcher has asked for, and which nodes both have.              *)
Requested ==
  /\ \A i \in DOMAIN asked : IsFile(disk[Provider], asked[i])
  /\ fpc = "read" =>
       /\ IsFile(disk[Provider], file) /\ IsFile(disk[fetcher], file)
       /\ ~Pending(Provider, file)
Offered ==
  ServerHalf => \A p \in DOMAIN disk[cur] : Pending(cur, p) \/ Agreed(p)
Returned ==
  ClientHalf =>
    /\ list \subseteq Entries(TreeOf(disk[Server]))
    /\ \A p \in DOMAIN disk[Server] : Pending(Server, p) \/ Exists(disk[cur], p)
    /\ \A p \in DOMAIN disk[cur] : Agreed(p)
Shape == Live => Requested /\ Offered /\ Returned

(* How far a file d is: the fetcher has read n bytes and holds got; the    *)
(* provider has yet to open the file, has sent m bytes, or has sent all.   *)
Part(d, m, n) == SubSeq(d, m + 1, n)
Stream(d) == IF Len(d) % WriteBlock = 0 THEN Append(d, Marker) ELSE d
Ordered(n) == asked = << file >> /\ ppc = "wait" /\ wire = << >> /\ n = 0
Sending(n, d) ==
  /\ asked = << >> /\ ppc = "send"
  /\ \E m \in n .. Len(d) :
       m % WriteBlock = 0 /\ wire = Part(d, n, m) /\ left = Part(d, m, Len(d))
Sent(n, d) ==
  asked = << >> /\ ppc = "wait" /\ wire = Part(Stream(d), n, Len(Stream(d)))
Reads(n, d, got) ==
  /\ n % ReadBlock = 0
  /\ ~Contains(d, Nul) => got = Part(d, 0, n)
  /\ Ordered(n) \/ Sending(n, d) \/ Sent(n, d)
Streams ==
  Live /\ ~HasEarly(Provider) =>
    IF fpc = "read"
    THEN \E n \in 0 .. Len(disk[Provider][file].data) :
           Reads(n, disk[Provider][file].data, disk[fetcher][file].data)
    ELSE Quiet /\ wire = << >>

(* The content of the files both have.                                     *)
Reading(p) == fpc = "read" /\ p = file
SameData(p) ==
  \/ disk[cur][p] = disk[Server][p]
  \/ ~Plain(disk[cur][p].data) \/ ~Plain(disk[Server][p].data)
  \/ Hurried /\ GivenNow(p)
Settled(p) == Reading(p) \/ SameData(p)
Contents ==
  Live /\ ~HasEarly(cur) =>
    /\ ServerHalf => \A p \in DOMAIN disk[cur] :
         IsFile(disk[cur], p) => Pending(cur, p) \/ Settled(p)
    /\ ClientHalf /\ ~HasEarly(Server) => \A p \in DOMAIN disk[cur] :
         IsFile(disk[cur], p) => Settled(p)

Invariant ==
  /\ FreshInv
  /\ Lifecycle /\ Remembered /\ Ended /\ Shape /\ Streams /\ Contents

-----------------------------------------------------------------------------
(* Sizes in blocks.                                                        *)
LEMMA Quotient ==
  ASSUME NEW x \in Nat, NEW k \in Nat \ {0}, x % k = 0
  PROVE  \E q \in Nat : x = q * k
<1>1. x = k * (x \div k) + (x % k)
  OBVIOUS
<1>2. x \div k \in Nat
  OBVIOUS
<1>3. k * (x \div k) = (x \div k) * k
  BY <1>2
<1> QED BY <1>1, <1>2, <1>3

LEMMA Product ==
  ASSUME NEW q \in Nat, NEW k \in Nat \ {0}
  PROVE  (q * k) % k = 0
OBVIOUS

(* Fewer than k bytes after whole blocks of k are the rest.                *)
LEMMA Remainder ==
  ASSUME NEW x \in Nat, NEW y \in Nat, NEW k \in Nat \ {0},
         x % k = 0, x <= y, y < x + k
  PROVE  y % k = y - x
OBVIOUS

LEMMA NextBlock ==
  ASSUME NEW x \in Nat, NEW k \in Nat \ {0}, x % k = 0
  PROVE  (x + k) % k = 0
<1>1. PICK q \in Nat : x = q * k
  BY Quotient, Zenon
<1>2. x + k = (q + 1) * k /\ q + 1 \in Nat
  BY <1>1
<1>3. ((q + 1) * k) % k = 0
  BY <1>2, Product, Zenon
<1> QED BY <1>2, <1>3

LEMMA WholeBlocks ==
  ASSUME NEW x \in Nat, NEW y \in Nat, NEW k \in Nat \ {0},
         x % k = 0, y % k = 0, x < y
  PROVE  x + k <= y
<1>1. ASSUME y < x + k PROVE FALSE
  <2>1. x <= y
    OBVIOUS
  <2>2. y % k = y - x
    BY <1>1, <2>1, Remainder, Zenon
  <2> QED BY <2>2
<1> QED BY <1>1

LEMMA BlocksOfBlocks ==
  ASSUME NEW x \in Nat, NEW w \in Nat \ {0}, NEW k \in Nat \ {0}, x % w = 0, w % k = 0
  PROVE  x % k = 0
<1>1. PICK q \in Nat : x = q * w
  BY Quotient, Zenon
<1>2. PICK r \in Nat : w = r * k
  BY Quotient, Zenon
<1>3. x = (q * r) * k /\ q * r \in Nat
  BY <1>1, <1>2
<1>4. ((q * r) * k) % k = 0
  BY <1>3, Product, Zenon
<1> QED BY <1>3, <1>4

-----------------------------------------------------------------------------
(* Parts of a file.                                                        *)
LEMMA PartParts ==
  ASSUME NEW S, NEW d \in Seq(S), NEW n \in 0 .. Len(d), NEW m \in 0 .. n
  PROVE  /\ Part(d, m, n) \in Seq(S) /\ Len(Part(d, m, n)) = n - m
         /\ \A i \in 1 .. n - m : Part(d, m, n)[i] = d[m + i]
<1>1. \A i \in m + 1 .. n : d[i] \in S
  OBVIOUS
<1>2. m + 1 \in Int /\ n \in Int
  OBVIOUS
<1> DEFINE s == SubSeq(d, m + 1, n)
<1>3. /\ s \in Seq(S) /\ Len(s) = IF m + 1 <= n THEN n - (m + 1) + 1 ELSE 0
      /\ \A i \in 1 .. n - (m + 1) + 1 : s[i] = d[(m + 1) + i - 1]
  BY <1>1, <1>2, SubSeqProperties, SMT
<1> HIDE DEF s
<1>4. s \in Seq(S) /\ Len(s) = n - m /\ \A i \in 1 .. n - m : s[i] = d[m + i]
  BY <1>3
<1> QED BY <1>4 DEF s, Part

LEMMA PartRest ==
  ASSUME NEW S, NEW d \in Seq(S), NEW m \in 0 .. Len(d)
  PROVE  /\ Part(d, m, Len(d)) \in Seq(S) /\ Len(Part(d, m, Len(d))) = Len(d) - m
         /\ \A i \in 1 .. Len(d) - m : Part(d, m, Len(d))[i] = d[m + i]
<1>1. Len(d) \in 0 .. Len(d)
  OBVIOUS
<1> QED BY <1>1, PartParts, Zenon

LEMMA PartEmpty ==
  ASSUME NEW S, NEW d \in Seq(S), NEW n \in 0 .. Len(d)
  PROVE  Part(d, n, n) = << >> /\ Part(d, 0, Len(d)) = d
<1>1. Len(d) \in Nat
  OBVIOUS
<1>2. n + 1 \in Int /\ n \in Int /\ n < n + 1
  OBVIOUS
<1>3. SubSeq(d, n + 1, n) = << >>
  BY <1>2, SubSeqEmpty
<1>4. SubSeq(d, 1, Len(d)) = d
  BY SubSeqFull
<1> QED BY <1>3, <1>4 DEF Part

LEMMA PartJoin ==
  ASSUME NEW S, NEW d \in Seq(S), NEW n \in 0 .. Len(d), NEW m \in 0 .. n, NEW l \in 0 .. m
  PROVE  Part(d, l, m) \o Part(d, m, n) = Part(d, l, n)
<1>1. /\ l + 1 \in 1 .. Len(d) + 1 /\ m \in (l + 1) - 1 .. Len(d) /\ n \in m .. Len(d)
  OBVIOUS
<1>2. SubSeq(d, l + 1, m) \o SubSeq(d, m + 1, n) = SubSeq(d, l + 1, n)
  BY <1>1, ConcatAdjacentSubSeq, Zenon
<1> QED BY <1>2 DEF Part

(* Cutting a part in two.                                                  *)
LEMMA PartCut ==
  ASSUME NEW S, NEW d \in Seq(S), NEW n \in 0 .. Len(d), NEW m \in 0 .. n,
         NEW k \in 0 .. n - m
  PROVE  /\ SubSeq(Part(d, m, n), 1, k) = Part(d, m, m + k)
         /\ SubSeq(Part(d, m, n), k + 1, Len(Part(d, m, n))) = Part(d, m + k, n)
<1> DEFINE s == Part(d, m, n)
           a == Part(d, m, m + k)
           b == Part(d, m + k, n)
           sa == Part(s, 0, k)
           sb == Part(s, k, Len(s))
<1>0. Len(d) \in Nat /\ m + k \in 0 .. Len(d) /\ m \in 0 .. m + k /\ m + k \in 0 .. n
  OBVIOUS
<1>1. /\ s \in Seq(S) /\ Len(s) = n - m /\ \A i \in 1 .. n - m : s[i] = d[m + i]
  BY PartParts, Zenon
<1>2. /\ a \in Seq(S) /\ Len(a) = (m + k) - m
      /\ \A i \in 1 .. (m + k) - m : a[i] = d[m + i]
  BY <1>0, PartParts, Zenon
<1>3. /\ b \in Seq(S) /\ Len(b) = n - (m + k)
      /\ \A i \in 1 .. n - (m + k) : b[i] = d[(m + k) + i]
  BY <1>0, PartParts, Zenon
<1> HIDE DEF s, a, b
<1>4. k \in 0 .. Len(s) /\ 0 \in 0 .. k /\ Len(s) \in 0 .. Len(s) /\ k \in 0 .. Len(s)
  BY <1>1
<1>5. /\ sa \in Seq(S) /\ Len(sa) = k - 0 /\ \A i \in 1 .. k - 0 : sa[i] = s[0 + i]
  BY <1>1, <1>4, PartParts, Zenon
<1>6. /\ sb \in Seq(S) /\ Len(sb) = Len(s) - k
      /\ \A i \in 1 .. Len(s) - k : sb[i] = s[k + i]
  BY <1>1, <1>4, PartParts, Zenon
<1> HIDE DEF sa, sb
<1>7. sa = a
  <2>1. Len(sa) = k /\ Len(a) = k
    BY <1>0, <1>2, <1>5
  <2>2. ASSUME NEW i \in 1 .. Len(sa) PROVE sa[i] = a[i]
    <3>1. i \in 1 .. k - 0 /\ i \in 1 .. n - m /\ i \in 1 .. (m + k) - m /\ 0 + i = i
      BY <1>0, <2>1
    <3> QED BY <3>1, <1>1, <1>2, <1>5
  <2> QED BY <2>1, <2>2, <1>2, <1>5, SeqEqual
<1>8. sb = b
  <2>1. Len(sb) = Len(b) /\ \A i \in 1 .. Len(b) : sb[i] = b[i]
    BY <1>1, <1>3, <1>6
  <2> QED BY <2>1, <1>3, <1>6, SeqEqual
<1>9. SubSeq(s, 1, k) = sa /\ SubSeq(s, k + 1, Len(s)) = sb
  BY DEF sa, sb, Part
<1> QED BY <1>7, <1>8, <1>9 DEF s, a, b

LEMMA RestCut ==
  ASSUME NEW S, NEW d \in Seq(S), NEW m \in 0 .. Len(d), NEW k \in 0 .. Len(d) - m
  PROVE  /\ SubSeq(Part(d, m, Len(d)), 1, k) = Part(d, m, m + k)
         /\ SubSeq(Part(d, m, Len(d)), k + 1, Len(Part(d, m, Len(d)))) = Part(d, m + k, Len(d))
<1>1. Len(d) \in 0 .. Len(d)
  OBVIOUS
<1> QED BY <1>1, PartCut, ZenonT(60)

(* What crosses the socket for a file: the file, and a marker when its     *)
(* last block is full.                                                     *)
LEMMA StreamParts ==
  ASSUME NEW d \in Seq(Bytes)
  PROVE  /\ Stream(d) \in Seq(Bytes)
         /\ Len(d) % WriteBlock # 0 => Stream(d) = d
         /\ Len(d) % WriteBlock = 0 =>
              Len(Stream(d)) = Len(d) + 1 /\ Stream(d)[Len(d) + 1] = Marker
         /\ \A i \in 1 .. Len(d) : Stream(d)[i] = d[i]
         /\ Len(d) <= Len(Stream(d)) /\ Len(Stream(d)) <= Len(d) + 1
<1>1. Marker \in Bytes
  BY DEF Bytes
<1>2. CASE Len(d) % WriteBlock = 0
  <2>1. Stream(d) = Append(d, Marker)
    BY <1>2 DEF Stream
  <2>2. /\ Append(d, Marker) \in Seq(Bytes) /\ Len(Append(d, Marker)) = Len(d) + 1
        /\ \A i \in 1 .. Len(d) : Append(d, Marker)[i] = d[i]
        /\ Append(d, Marker)[Len(d) + 1] = Marker
    BY <1>1, AppendProperties
  <2> QED BY <1>2, <2>1, <2>2
<1>3. CASE Len(d) % WriteBlock # 0
  <2>1. Stream(d) = d
    BY <1>3 DEF Stream
  <2> QED BY <1>3, <2>1
<1> QED BY <1>2, <1>3

LEMMA StreamPart ==
  ASSUME NEW d \in Seq(Bytes), NEW n \in 0 .. Len(d), NEW m \in 0 .. n
  PROVE  Part(Stream(d), m, n) = Part(d, m, n)
<1> DEFINE s == Stream(d)
           a == Part(s, m, n)
           b == Part(d, m, n)
<1>1. /\ s \in Seq(Bytes) /\ Len(d) <= Len(s) /\ \A i \in 1 .. Len(d) : s[i] = d[i]
  BY StreamParts
<1> HIDE DEF s
<1>2. n \in 0 .. Len(s) /\ m \in 0 .. n
  BY <1>1
<1>3. a \in Seq(Bytes) /\ Len(a) = n - m /\ \A i \in 1 .. n - m : a[i] = s[m + i]
  BY <1>1, <1>2, PartParts, Zenon
<1>4. b \in Seq(Bytes) /\ Len(b) = n - m /\ \A i \in 1 .. n - m : b[i] = d[m + i]
  BY PartParts, Zenon
<1> HIDE DEF a, b
<1>5. \A i \in 1 .. Len(a) : a[i] = b[i]
  BY <1>1, <1>3, <1>4
<1>6. a = b
  BY <1>3, <1>4, <1>5, SeqEqual
<1> QED BY <1>6 DEF a, b, s

(* The marker, when one comes.                                             *)
LEMMA StreamEnd ==
  ASSUME NEW d \in Seq(Bytes), NEW m \in 0 .. Len(d), Len(d) % WriteBlock = 0
  PROVE  Part(Stream(d), m, Len(Stream(d))) = Append(Part(d, m, Len(d)), Marker)
<1> DEFINE s == Stream(d)
<1>1. /\ s \in Seq(Bytes) /\ Len(s) = Len(d) + 1 /\ s[Len(d) + 1] = Marker
      /\ \A i \in 1 .. Len(d) : s[i] = d[i]
  BY StreamParts
<1> HIDE DEF s
<1>2. s \in Seq(Bytes) /\ m \in 0 .. Len(s)
  BY <1>1
<1> DEFINE a == Part(s, m, Len(s))
<1>3. a \in Seq(Bytes) /\ Len(a) = Len(s) - m /\ \A i \in 1 .. Len(s) - m : a[i] = s[m + i]
  BY <1>2, PartRest, Zenon
<1> HIDE DEF a
<1> DEFINE b == Part(d, m, Len(d))
<1>4. b \in Seq(Bytes) /\ Len(b) = Len(d) - m /\ \A i \in 1 .. Len(d) - m : b[i] = d[m + i]
  BY PartRest, Zenon
<1> HIDE DEF b
<1> DEFINE c == Append(b, Marker)
<1>5. Marker \in Bytes
  BY DEF Bytes
<1>6. /\ c \in Seq(Bytes) /\ Len(c) = Len(b) + 1 /\ c[Len(b) + 1] = Marker
      /\ \A i \in 1 .. Len(b) : c[i] = b[i]
  BY <1>4, <1>5, AppendProperties
<1> HIDE DEF c
<1>7. Len(a) = Len(c)
  BY <1>1, <1>3, <1>4, <1>6
<1>8. ASSUME NEW i \in 1 .. Len(a) PROVE a[i] = c[i]
  <2>1. CASE i = Len(b) + 1
    BY <2>1, <1>1, <1>3, <1>4, <1>6
  <2>2. CASE i # Len(b) + 1
    <3>1. /\ i \in 1 .. Len(b) /\ i \in 1 .. Len(d) - m /\ i \in 1 .. Len(s) - m
          /\ m + i \in 1 .. Len(d)
      <4>1. Len(a) = Len(b) + 1 /\ Len(b) = Len(d) - m /\ Len(s) - m = Len(b) + 1
        BY <1>1, <1>2, <1>3, <1>4
      <4> QED BY <4>1, <2>2, <1>2
    <3> QED BY <3>1, <1>1, <1>3, <1>4, <1>6
  <2> QED BY <2>1, <2>2
<1>9. a = c
  BY <1>3, <1>6, <1>7, <1>8, SeqEqual
<1> QED BY <1>9 DEF a, b, c, s

(* No length is a multiple of the block and one more.                      *)
LEMMA BlockSizes ==
  /\ ReadBlock \in Nat \ {0, 1} /\ WriteBlock \in Nat \ {0} /\ WriteBlock % ReadBlock = 0
  /\ ReadBlock \in Nat \ {0} /\ Marker # Nul
BY SessionAssumption DEF Marker, Nul

(* The provider opens the file it was asked for.                           *)
LEMMA OpenStep ==
  ASSUME NEW d \in Seq(Bytes), Ordered(0), wire' = wire, left' = d,
         asked' = Tail(asked), ppc' = "send"
  PROVE  Sending(0, d)'
<1>1. asked' = << >>
  BY DEF Ordered
<1>2. wire' = << >>
  BY DEF Ordered
<1>3. Len(d) \in Nat /\ 0 \in 0 .. Len(d) /\ 0 % WriteBlock = 0
  <2>1. Len(d) \in Nat
    OBVIOUS
  <2>2. 0 % WriteBlock = 0
    BY BlockSizes
  <2> QED BY <2>1, <2>2
<1>4. Part(d, 0, 0) = << >> /\ Part(d, 0, Len(d)) = d
  BY <1>3, PartEmpty, Zenon
<1> QED BY <1>1, <1>2, <1>3, <1>4 DEF Sending

(* It sends a block.                                                       *)
LEMMA SendStep ==
  ASSUME NEW d \in Seq(Bytes), NEW n \in 0 .. Len(d), Sending(n, d), SendBlock
  PROVE  (Sending(n, d) \/ Sent(n, d))'
<1>0. asked' = << >>
  BY DEF Sending, SendBlock
<1>1. PICK m \in n .. Len(d) :
        m % WriteBlock = 0 /\ wire = Part(d, n, m) /\ left = Part(d, m, Len(d))
  BY DEF Sending
<1>2. /\ Len(d) \in Nat /\ n \in Nat /\ m \in Nat /\ m \in 0 .. Len(d)
      /\ Len(d) \in 0 .. Len(d) /\ n \in 0 .. m /\ m <= Len(d)
  BY <1>1
<1>3. left \in Seq(Bytes) /\ Len(left) = Len(d) - m
  BY <1>1, <1>2, PartParts, Zenon
<1>4. CASE Len(left) < WriteBlock
  <2>1. Block = left /\ ppc' = "wait" /\ wire' = wire \o OnWire
    BY <1>4 DEF Block, SendBlock
  <2>2. Part(d, n, m) \o left = Part(d, n, Len(d))
    BY <1>1, <1>2, PartJoin, Zenon
  <2>3. CASE left = << >>
    <3>1. m = Len(d) /\ Len(d) % WriteBlock = 0
      BY <2>3, <1>1, <1>2, <1>3
    <3>2. wire' = Part(d, n, Len(d)) \o << Marker >>
      BY <2>1, <2>3, <1>1, <3>1 DEF OnWire
    <3>3. Part(d, n, Len(d)) \in Seq(Bytes)
      BY <1>2, PartParts, Zenon
    <3>4. wire' = Append(Part(d, n, Len(d)), Marker)
      <4>1. Marker \in Bytes
        BY DEF Bytes
      <4> QED BY <4>1, <3>2, <3>3, AppendIsConcat
    <3>5. wire' = Part(Stream(d), n, Len(Stream(d)))
      BY <3>1, <3>4, StreamEnd
    <3> QED BY <1>0, <2>1, <3>5 DEF Sent
  <2>4. CASE left # << >>
    <3>1. m < Len(d) /\ Len(d) < m + WriteBlock
      <4>1. Len(left) # 0
        BY <1>3, <2>4
      <4> QED BY <4>1, <1>2, <1>3, <1>4, BlockSizes
    <3>2. Len(d) % WriteBlock = Len(d) - m
      <4>1. WriteBlock \in Nat \ {0} /\ m <= Len(d)
        BY <1>2, BlockSizes
      <4> QED BY <1>1, <1>2, <3>1, <4>1, Remainder, Zenon
    <3>3. Len(d) % WriteBlock # 0
      BY <1>2, <3>1, <3>2
    <3>4. Stream(d) = d
      BY <3>3 DEF Stream
    <3>5. wire' = Part(d, n, Len(d))
      BY <2>1, <2>2, <2>4, <1>1 DEF OnWire
    <3> QED BY <1>0, <2>1, <3>4, <3>5 DEF Sent
  <2> QED BY <2>3, <2>4
<1>5. CASE ~(Len(left) < WriteBlock)
  <2> DEFINE k == m + WriteBlock
  <2>0. WriteBlock \in Nat \ {0} /\ Len(left) \in Nat
    BY <1>3, BlockSizes
  <2>1. /\ k \in m .. Len(d) /\ k \in n .. Len(d) /\ k \in 0 .. Len(d) /\ m \in 0 .. k
        /\ WriteBlock \in 0 .. Len(d) - m /\ n \in 0 .. m
    BY <1>2, <1>3, <1>5, <2>0
  <2>2. Block = SubSeq(left, 1, WriteBlock)
    BY <1>5 DEF Block
  <2>3. /\ SubSeq(left, 1, WriteBlock) = Part(d, m, k)
        /\ SubSeq(left, WriteBlock + 1, Len(left)) = Part(d, k, Len(d))
    <3>1. /\ SubSeq(Part(d, m, Len(d)), 1, WriteBlock) = Part(d, m, k)
          /\ SubSeq(Part(d, m, Len(d)), WriteBlock + 1, Len(Part(d, m, Len(d))))
               = Part(d, k, Len(d))
      BY <1>2, <2>1, PartCut, ZenonT(60)
    <3> QED BY <3>1, <1>1
  <2>4. Part(d, m, k) \in Seq(Bytes) /\ Len(Part(d, m, k)) = k - m
    BY <2>1, PartParts, Zenon
  <2>5. Len(Block) = WriteBlock /\ Block # << >> /\ Block = Part(d, m, k)
    <3>1. Len(Block) = WriteBlock /\ Block \in Seq(Bytes)
      BY <1>2, <2>0, <2>2, <2>3, <2>4
    <3> QED BY <2>0, <3>1, <2>2, <2>3
  <2>6. ppc' = "send" /\ left' = Part(d, k, Len(d)) /\ wire' = wire \o Block
    BY <2>0, <2>3, <2>5 DEF SendBlock, OnWire
  <2>7. wire' = Part(d, n, k)
    <3>1. Part(d, n, m) \o Part(d, m, k) = Part(d, n, k)
      BY <2>1, PartJoin, Zenon
    <3> QED BY <3>1, <1>1, <2>5, <2>6
  <2>8. k % WriteBlock = 0
    BY <1>1, <1>2, <2>0, NextBlock, Zenon
  <2> HIDE DEF k
  <2> QED BY <1>0, <2>1, <2>6, <2>7, <2>8 DEF Sending
<1> QED BY <1>4, <1>5

(* A full block, in a file that does not end early: the fetcher goes on.   *)
FullBlock(n, d, chunk) ==
  /\ n + ReadBlock \in 0 .. Len(d) /\ (n + ReadBlock) % ReadBlock = 0
  /\ chunk = Part(d, n, n + ReadBlock)
  /\ Text(chunk) # << Marker >> /\ ~LastBlock(chunk)
  /\ (Sending(n + ReadBlock, d) \/ Sent(n + ReadBlock, d))'
(* The last block: the whole of what is left, or the marker after it.      *)
FinalBlock(n, d, chunk) ==
  /\ asked' = << >> /\ ppc' = "wait" /\ wire' = << >> /\ LastBlock(chunk)
  /\ ~Contains(d, Nul) /\ Text(chunk) # << Marker >> => chunk = Part(d, n, Len(d))
  /\ Plain(d) /\ Text(chunk) = << Marker >> => n = Len(d)

LEMMA NotEarly ==
  ASSUME NEW d \in Seq(Bytes), ~Early(d), NEW n \in 0 .. Len(d), n % ReadBlock = 0,
         n + ReadBlock <= Len(d)
  PROVE  LET chunk == Part(d, n, n + ReadBlock) IN
         /\ Text(chunk) # << Marker >> /\ ~LastBlock(chunk) /\ Len(chunk) = ReadBlock
<1> DEFINE chunk == Part(d, n, n + ReadBlock)
<1>1. n + ReadBlock \in 0 .. Len(d) /\ n \in 0 .. n + ReadBlock
  BY BlockSizes
<1>2. Len(chunk) = (n + ReadBlock) - n
  BY <1>1, PartParts, Zenon
<1>3. Len(chunk) = ReadBlock
  BY <1>2, BlockSizes
<1>4. chunk = SubSeq(d, n + 1, n + ReadBlock)
  BY DEF Part
<1> HIDE DEF chunk
<1>5. Text(chunk) # << Marker >> /\ Last(chunk) # Nul
  BY <1>4, Zenon DEF Early
<1> QED BY <1>3, <1>5 DEF chunk, LastBlock

(* Without a byte 0 a part of a file is written as it is.                  *)
LEMMA PartText ==
  ASSUME NEW d \in Seq(Bytes), NEW n \in 0 .. Len(d), NEW m \in 0 .. n, ~Contains(d, Nul)
  PROVE  Text(Part(d, m, n)) = Part(d, m, n)
<1> DEFINE b == Part(d, m, n)
<1>1. b \in Seq(Bytes) /\ Len(b) = n - m /\ \A i \in 1 .. n - m : b[i] = d[m + i]
  BY PartParts, Zenon
<1> HIDE DEF b
<1>2. \A i \in 1 .. Len(d) : d[i] # Nul
  BY DEF Contains
<1>3. \A i \in 1 .. Len(b) : b[i] # Nul
  <2> TAKE i \in 1 .. Len(b)
  <2>1. i \in 1 .. n - m /\ m + i \in 1 .. Len(d)
    BY <1>1
  <2> QED BY <2>1, <1>1, <1>2
<1>4. ~Contains(b, Nul)
  BY <1>3 DEF Contains
<1> QED BY <1>1, <1>4, TextParts DEF b

(* The marker alone.                                                       *)
LEMMA MarkerText == Text(<< Marker >>) = << Marker >> /\ << Marker >> \in Seq(Bytes)
<1>1. << Marker >> \in Seq(Bytes)
  BY DEF Bytes
<1>2. ~Contains(<< Marker >>, Nul)
  <2>1. \A i \in 1 .. Len(<< Marker >>) : << Marker >>[i] # Nul
    BY BlockSizes
  <2> QED BY <2>1 DEF Contains
<1> QED BY <1>1, <1>2, TextParts

LEMMA ReadStep ==
  ASSUME NEW d \in Seq(Bytes), ~Early(d), NEW n \in 0 .. Len(d), n % ReadBlock = 0,
         Sending(n, d) \/ Sent(n, d), wire # << >>,
         NEW chunk, chunk = SubSeq(wire, 1, Whole),
         wire' = SubSeq(wire, Whole + 1, Len(wire)), UNCHANGED << asked, ppc, left >>
  PROVE  FullBlock(n, d, chunk) \/ FinalBlock(n, d, chunk)
<1> DEFINE k == n + ReadBlock
<1>0. /\ ReadBlock \in Nat \ {0, 1} /\ WriteBlock \in Nat \ {0} /\ ReadBlock \in Nat \ {0}
      /\ Len(d) \in Nat /\ n \in Nat /\ n <= Len(d)
  BY BlockSizes
<1>k. k % ReadBlock = 0
  BY <1>0, NextBlock, Zenon
<1>1. CASE Sending(n, d)
  <2>1. PICK m \in n .. Len(d) :
          m % WriteBlock = 0 /\ wire = Part(d, n, m) /\ left = Part(d, m, Len(d))
    BY <1>1 DEF Sending
  <2>2. m \in Nat /\ m \in 0 .. Len(d) /\ n \in 0 .. m /\ m \in n .. Len(d)
    BY <2>1, <1>0
  <2>3. wire \in Seq(Bytes) /\ Len(wire) = m - n
    BY <2>1, <2>2, PartParts, Zenon
  <2>4. m # n
    BY <2>1, <2>2, <2>3
  <2>5. m % ReadBlock = 0
    BY <1>0, <2>1, <2>2, BlocksOfBlocks, BlockSizes, Zenon
  <2>6. n < m
    BY <2>2, <2>4, <1>0
  <2>7. k <= m
    BY <1>0, <2>2, <2>5, <2>6, WholeBlocks, Zenon
  <2>8. Whole = ReadBlock
    BY <1>0, <2>2, <2>3, <2>7 DEF Whole
  <2>9. k \in 0 .. Len(d) /\ k \in 0 .. m /\ ReadBlock \in 0 .. m - n /\ m \in k .. Len(d)
    BY <1>0, <2>2, <2>7
  <2>10. chunk = Part(d, n, k) /\ wire' = Part(d, k, m)
    <3>1. /\ SubSeq(Part(d, n, m), 1, ReadBlock) = Part(d, n, k)
          /\ SubSeq(Part(d, n, m), ReadBlock + 1, Len(Part(d, n, m))) = Part(d, k, m)
      <4>1. m \in 0 .. Len(d) /\ n \in 0 .. m /\ ReadBlock \in 0 .. m - n
        BY <2>2, <2>9
      <4> QED BY <4>1, PartCut, ZenonT(60)
    <3> QED BY <3>1, <2>1, <2>8
  <2>11. Text(chunk) # << Marker >> /\ ~LastBlock(chunk)
    <3>1. k <= Len(d)
      BY <2>9, <1>0
    <3>2. /\ Text(Part(d, n, k)) # << Marker >> /\ ~LastBlock(Part(d, n, k))
      BY <3>1, NotEarly
    <3> QED BY <3>2, <2>10, Zenon
  <2>12. Sending(k, d)'
    BY <1>1, <2>1, <2>9, <2>10 DEF Sending
  <2> QED BY <1>k, <2>9, <2>10, <2>11, <2>12 DEF FullBlock
<1>2. CASE Sent(n, d)
  <2> DEFINE s == Stream(d)
  <2>1. /\ s \in Seq(Bytes) /\ Len(s) \in Nat /\ Len(d) <= Len(s) /\ Len(s) <= Len(d) + 1
        /\ Len(d) % WriteBlock # 0 => s = d
        /\ Len(d) % WriteBlock = 0 => Len(s) = Len(d) + 1
    <3>1. /\ s \in Seq(Bytes) /\ Len(d) <= Len(s) /\ Len(s) <= Len(d) + 1
          /\ Len(d) % WriteBlock # 0 => s = d
          /\ Len(d) % WriteBlock = 0 => Len(s) = Len(d) + 1
      BY StreamParts, Zenon
    <3> HIDE DEF s
    <3> QED BY <3>1
  <2> HIDE DEF s
  <2>2. wire = Part(s, n, Len(s)) /\ asked = << >> /\ ppc = "wait"
    BY <1>2 DEF Sent, s
  <2>3. n \in 0 .. Len(s) /\ Len(s) \in 0 .. Len(s)
    BY <1>0, <2>1
  <2>4. wire \in Seq(Bytes) /\ Len(wire) = Len(s) - n
    <3>1. s \in Seq(Bytes)
      BY <2>1
    <3>2. Part(s, n, Len(s)) \in Seq(Bytes) /\ Len(Part(s, n, Len(s))) = Len(s) - n
      BY <3>1, <2>3, PartRest, Zenon
    <3> QED BY <2>2, <3>2
  <2>5. CASE k <= Len(s)
    <3>1. Whole = ReadBlock
      BY <1>0, <2>1, <2>4, <2>5 DEF Whole
    <3>2. k <= Len(d)
      <4>1. ASSUME Len(d) < k PROVE FALSE
        <5>1. Len(s) = Len(d) + 1 /\ Len(d) % WriteBlock = 0
          BY <1>0, <2>1, <2>5, <4>1
        <5>2. Len(d) % ReadBlock = 0
          BY <1>0, <5>1, BlocksOfBlocks, BlockSizes, Zenon
        <5>3. n # Len(d)
          BY <1>0, <2>5, <5>1
        <5>4. n < Len(d)
          BY <1>0, <5>3
        <5>5. k <= Len(d)
          BY <1>0, <5>2, <5>4, WholeBlocks, Zenon
        <5> QED BY <1>0, <5>5, <4>1
      <4> QED BY <4>1, <1>0
    <3>3. /\ k \in 0 .. Len(d) /\ k \in 0 .. Len(s) /\ n \in 0 .. k
          /\ ReadBlock \in 0 .. Len(s) - n
      BY <1>0, <2>1, <2>5, <3>2
    <3>4. chunk = Part(s, n, k) /\ wire' = Part(s, k, Len(s))
      <4>1. /\ SubSeq(Part(s, n, Len(s)), 1, ReadBlock) = Part(s, n, k)
            /\ SubSeq(Part(s, n, Len(s)), ReadBlock + 1, Len(Part(s, n, Len(s))))
                 = Part(s, k, Len(s))
        <5>1. s \in Seq(Bytes)
          BY <2>1
        <5>2. ReadBlock \in 0 .. Len(s) - n
          BY <3>3
        <5>3. n \in 0 .. Len(s)
          BY <2>3
        <5> QED BY <5>1, <5>2, <5>3, RestCut, Zenon
      <4> QED BY <4>1, <2>2, <3>1
    <3>5. chunk = Part(d, n, k)
      BY <3>3, <3>4, StreamPart DEF s
    <3>6. Text(chunk) # << Marker >> /\ ~LastBlock(chunk)
      <4>1. /\ Text(Part(d, n, k)) # << Marker >> /\ ~LastBlock(Part(d, n, k))
        BY <3>2, NotEarly
      <4> QED BY <4>1, <3>5, Zenon
    <3>7. Sent(k, d)'
      BY <2>2, <3>4 DEF Sent, s
    <3> QED BY <1>k, <3>3, <3>5, <3>6, <3>7 DEF FullBlock
  <2>6. CASE ~(k <= Len(s))
    <3>1. Whole = Len(wire) /\ Len(wire) < ReadBlock /\ Len(wire) \in Nat
      BY <1>0, <2>1, <2>3, <2>4, <2>6 DEF Whole
    <3>2. chunk = wire /\ wire' = << >>
      <4>1. SubSeq(wire, 1, Len(wire)) = wire
        BY <2>4, SubSeqFull
      <4>2. SubSeq(wire, Len(wire) + 1, Len(wire)) = << >>
        <5>1. Len(wire) + 1 \in Int /\ Len(wire) \in Int /\ Len(wire) < Len(wire) + 1
          BY <3>1
        <5> QED BY <5>1, SubSeqEmpty
      <4> QED BY <3>1, <4>1, <4>2
    <3>3. LastBlock(chunk)
      BY <3>1, <3>2, <1>0 DEF LastBlock
    <3>4. CASE Len(d) % WriteBlock # 0
      <4>1. chunk = Part(d, n, Len(d)) /\ Len(chunk) = Len(d) - n
        BY <3>2, <3>4, <2>1, <2>2, <2>4
      <4>2. ASSUME Plain(d), Text(chunk) = << Marker >> PROVE FALSE
        <5>1. chunk = << Marker >>
          <6>1. Len(d) \in 0 .. Len(d) /\ n \in 0 .. Len(d) /\ ~Contains(d, Nul)
            BY <4>2, <1>0 DEF Plain
          <6>2. Text(Part(d, n, Len(d))) = Part(d, n, Len(d))
            BY <6>1, PartText, Zenon
          <6> QED BY <6>2, <4>1, <4>2
        <5>2. Len(chunk) = 1 /\ chunk[1] = Marker
          <6>1. Len(<< Marker >>) = 1 /\ << Marker >>[1] = Marker
            OBVIOUS
          <6> QED BY <6>1, <5>1, Zenon
        <5>3. Len(d) = n + 1
          <6>1. Len(d) - n = 1
            BY <5>2, <4>1, Zenon
          <6> QED BY <6>1, <1>0
        <5>4. d[Len(d)] = Marker
          <6>1. \A i \in 1 .. Len(d) - n : Part(d, n, Len(d))[i] = d[n + i]
            BY PartRest, Zenon
          <6>2. 1 \in 1 .. Len(d) - n /\ n + 1 = Len(d)
            BY <5>3, <1>0
          <6> QED BY <6>1, <6>2, <5>2, <4>1, Zenon
        <5>5. Len(d) % ReadBlock = 1
          <6>1. n <= Len(d) /\ Len(d) < n + ReadBlock
            BY <5>3, <1>0
          <6>2. Len(d) % ReadBlock = Len(d) - n
            BY <6>1, <1>0, Remainder, Zenon
          <6> QED BY <6>2, <5>3, <1>0
        <5> QED BY <5>4, <5>5, <4>2 DEF Plain, Last
      <4> QED BY <3>2, <3>3, <4>1, <4>2, <2>2 DEF FinalBlock
    <3>5. CASE Len(d) % WriteBlock = 0
      <4>1. n = Len(d)
        <5>1. Len(d) % ReadBlock = 0
          BY <1>0, <3>5, BlocksOfBlocks, BlockSizes, Zenon
        <5>2. ASSUME n < Len(d) PROVE FALSE
          <6>1. k <= Len(d)
            BY <5>1, <5>2, <1>0, WholeBlocks, Zenon
          <6> QED BY <6>1, <2>1, <2>6, <1>0
        <5> QED BY <5>2, <1>0
      <4>2. Part(d, n, Len(d)) = << >>
        BY <4>1, <1>0, PartEmpty
      <4>3. chunk = << Marker >>
        <5>1. Part(Stream(d), n, Len(Stream(d))) = Append(Part(d, n, Len(d)), Marker)
          BY <3>5, StreamEnd, Zenon
        <5>2. Append(<< >>, Marker) = << Marker >>
          OBVIOUS
        <5> QED BY <5>1, <5>2, <3>2, <2>2, <4>2, Zenon DEF s
      <4>4. Text(chunk) = << Marker >>
        BY <4>3, MarkerText
      <4> QED BY <3>2, <3>3, <4>1, <4>4, <2>2 DEF FinalBlock
    <3> QED BY <3>4, <3>5
  <2> QED BY <2>5, <2>6
<1> QED BY <1>1, <1>2

-----------------------------------------------------------------------------
(* The steps of a session in which nothing has gone wrong.                 *)
Stays == UNCHANGED << disk, transfer, cur, fetcher, up >>

LEMMA SessionHosts ==
  ASSUME TypeOK, cur # Nobody
  PROVE  /\ cur \in Clients /\ cur \in Hosts /\ cur # Server /\ Server \in Hosts
         /\ fetcher \in {Server, cur} /\ Provider \in {Server, cur}
         /\ Provider # fetcher /\ {fetcher, Provider} = {Server, cur}
         /\ DOMAIN disk = Hosts /\ \A h \in Hosts : IsDirectory(disk[h])
BY HostsApart DEF TypeOK, Provider

LEMMA UnluckySteps ==
  ASSUME TypeOK, Locked, Unlucky, cur # Nobody
  PROVE  cur' = cur /\ cur \notin clean'
<1>1. cur \in Clients
  BY DEF TypeOK
<1>2. CASE ReadSplit
  BY <1>2 DEF ReadSplit, ReadBytes, Fault, session
<1>3. CASE TurnSplit
  BY <1>3 DEF TurnSplit, Fault, session
<1>4. CASE Removal
  BY <1>1, <1>4 DEF Removal, RemoveNode, Fault, session
<1>5. ASSUME NEW h \in Hosts, Crash(h) PROVE cur' = cur /\ cur \notin clean'
  BY <1>5 DEF Crash, Fault, session
<1> QED BY <1>2, <1>3, <1>4, <1>5 DEF Unlucky

LEMMA LiveSteps ==
  ASSUME TypeOK, Locked, Live, [Next]_vars, Sane'
  PROVE  /\ cur' = cur /\ now' = now /\ before' = before
         /\ \/ Stays
            \/ \E e \in list : SyncFolder(e) \/ KeepOwn(e) \/ AskFile(e) \/ CannotCreate(e)
            \/ Read \/ Turn \/ TurnGarbled \/ Finish \/ SendBlock
            \/ \E p : OpenFile(p) \/ CannotOpen(p)
<1> DEFINE Goal ==
             \/ Stays
             \/ \E e \in list : SyncFolder(e) \/ KeepOwn(e) \/ AskFile(e) \/ CannotCreate(e)
             \/ Read \/ Turn \/ TurnGarbled \/ Finish \/ SendBlock
             \/ \E p : OpenFile(p) \/ CannotOpen(p)
<1>1. cur # Nobody /\ up = Hosts /\ fetcher \in Hosts /\ Provider \in Hosts
  BY SessionHosts DEF Live, Sane
<1>2. Connected
  BY <1>1 DEF Connected
<1>3. cur' = cur /\ now' = now /\ before' = before
  <2>1. CASE Leave \/ Restart
    BY <2>1 DEF Leave, Restart, Sane
  <2>2. ASSUME NEW c \in Clients, Connect(c) \/ Begin(c)
        PROVE  cur' = cur /\ now' = now /\ before' = before
    BY <1>1, <2>2 DEF Connect, Begin
  <2> QED BY <2>1, <2>2, SessionSteps DEF Turn, TurnGarbled, Turned, session
<1>4. ASSUME UNCHANGED vars PROVE Goal
  BY <1>4 DEF vars, session, Stays
<1>5. ASSUME NEW c \in Clients, Connect(c) \/ Begin(c) PROVE Goal
  BY <1>1, <1>5 DEF Connect, Begin, Stays
<1>6. ASSUME Fetch PROVE Goal
  <2>1. ~ReadEOF
    BY <1>2 DEF ReadEOF
  <2>2. \A e : ~AskGone(e)
    BY <1>2 DEF AskGone
  <2>3. ASSUME NEW e \in list, SyncFile(e) PROVE Goal
    BY <2>2, <2>3 DEF SyncFile
  <2> QED BY <1>6, <2>1, <2>3 DEF Fetch
<1>7. ASSUME Provide PROVE Goal
  BY <1>7 DEF Provide
<1>8. ASSUME Leave \/ Restart PROVE Goal
  BY <1>8 DEF Leave, Restart, Sane
<1>9. ASSUME SurvivorExits PROVE Goal
  BY <1>1, <1>2, <1>9 DEF SurvivorExits
<1>10. ASSUME Unlucky PROVE Goal
  BY <1>1, <1>10, UnluckySteps DEF Sane
<1> HIDE DEF Goal
<1>11. Goal
  BY <1>4, <1>5, <1>6, <1>7, <1>8, <1>9, <1>10 DEF Next
<1> QED BY <1>3, <1>11 DEF Goal

(* A session becomes one in which nothing has gone wrong only at its       *)
(* beginning, and while it is one processes only end.                      *)
LEMMA SaneSteps ==
  ASSUME TypeOK, Locked, [Next]_vars, Sane'
  PROVE  \/ \E c \in Clients : Begin(c)
         \/ /\ Sane /\ cur' = cur /\ now' = now /\ before' = before
            /\ up' \subseteq up /\ ~Unlucky
<1>1. CASE cur = Nobody
  <2>1. CASE Leave \/ Restart
    BY <2>1 DEF Leave, Restart, Sane
  <2>2. CASE Turn \/ TurnGarbled
    BY <1>1, <2>2 DEF Turn, TurnGarbled, Turned, AllSynced, Syncing, Running
  <2>3. ASSUME NEW c \in Clients, Connect(c) PROVE cur' = cur
    BY <2>3 DEF Connect
  <2>4. cur' # Nobody
    BY DEF Sane
  <2> QED BY <1>1, <2>1, <2>2, <2>3, <2>4, SessionSteps DEF session
<1>2. CASE cur # Nobody
  <2>1. cur \in Clients /\ conn[cur] = "in" /\ fetcher \in Hosts /\ Provider \in Hosts
    BY <1>2, SessionHosts DEF Locked
  <2>2. ~Leave /\ ~Restart /\ ~Unlucky
    <3>1. ~Leave /\ ~Restart
      BY DEF Leave, Restart, Sane
    <3>2. ~Unlucky
      BY <1>2, UnluckySteps DEF Sane
    <3> QED BY <3>1, <3>2
  <2>3. cur' = cur /\ now' = now /\ before' = before
    <3>1. ASSUME NEW c \in Clients, Connect(c) \/ Begin(c)
          PROVE  cur' = cur /\ now' = now /\ before' = before
      BY <1>2, <3>1 DEF Connect, Begin
    <3> QED BY <2>2, <3>1, SessionSteps DEF Turn, TurnGarbled, Turned, session
  <2>4. cur \in clean /\ up' \subseteq up
    <3>1. CASE UNCHANGED vars
      BY <2>3, <3>1 DEF vars, luck, Sane
    <3>2. ASSUME NEW c \in Clients, Connect(c) \/ Begin(c) PROVE cur \in clean /\ up' \subseteq up
      BY <1>2, <2>1, <2>3, <3>2 DEF Connect, Begin, luck, Sane
    <3>3. ASSUME NEW n, ReadBytes(n) PROVE up' \subseteq up
      BY <3>3 DEF ReadBytes
    <3>4. CASE Fetch
      <4>1. ASSUME NEW e \in list, SyncFile(e) PROVE cur \in clean /\ up' \subseteq up
        BY <2>3, <4>1 DEF SyncFile, SyncFolder, KeepOwn, AskFile, AskGone, CannotCreate,
                          luck, Sane
      <4>2. CASE Read
        BY <2>3, <3>3, <4>2 DEF Read, luck, Sane
      <4>3. CASE ReadEOF \/ Turn \/ TurnGarbled \/ Finish
        BY <2>3, <4>3 DEF ReadEOF, Turn, TurnGarbled, Turned, Finish, luck, Sane
      <4> QED BY <3>4, <4>1, <4>2, <4>3 DEF Fetch
    <3>5. CASE Provide
      BY <2>3, <3>5 DEF Provide, OpenFile, CannotOpen, SendBlock, luck, Sane
    <3>6. CASE SurvivorExits
      BY <2>3, <3>6 DEF SurvivorExits, luck, Sane
    <3> QED BY <2>2, <3>1, <3>2, <3>4, <3>5, <3>6 DEF Next
  <2> QED BY <1>2, <2>2, <2>3, <2>4 DEF Sane
<1> QED BY <1>1, <1>2

LEMMA BecomesLive ==
  ASSUME TypeOK, Locked, [Next]_vars, Live', ~Live
  PROVE  \E c \in Clients : Begin(c)
<1>1. ASSUME Sane, up' \subseteq up PROVE FALSE
  BY <1>1 DEF TypeOK, Live
<1> QED BY <1>1, SaneSteps DEF Live

-----------------------------------------------------------------------------
(* A file that ends early goes on doing so: files only grow, and none is   *)
(* replaced but where the server fetches.                                  *)
LEMMA EarlyPrefix ==
  ASSUME NEW d \in Seq(Bytes), NEW b \in Seq(Bytes), IsPrefix(d, b), Early(d)
  PROVE  Early(b)
<1>1. PICK i \in 0 .. Len(d) :
        /\ i % ReadBlock = 0 /\ i + ReadBlock <= Len(d)
        /\ \/ Text(SubSeq(d, i + 1, i + ReadBlock)) = << Marker >>
           \/ Last(SubSeq(d, i + 1, i + ReadBlock)) = Nul
  BY Zenon DEF Early
<1>2. Len(d) <= Len(b) /\ \A k \in 1 .. Len(d) : d[k] = b[k]
  BY PrefixPoints
<1> DEFINE x == Part(d, i, i + ReadBlock)
           y == Part(b, i, i + ReadBlock)
<1>3. /\ i + ReadBlock \in 0 .. Len(d) /\ i + ReadBlock \in 0 .. Len(b) /\ i \in 0 .. i + ReadBlock
      /\ i \in 0 .. Len(b) /\ i + ReadBlock <= Len(b) /\ i \in Nat /\ ReadBlock \in Nat
      /\ Len(d) \in Nat
  BY <1>1, <1>2, BlockSizes, LenProperties
<1>4. /\ x \in Seq(Bytes) /\ Len(x) = (i + ReadBlock) - i
      /\ \A k \in 1 .. (i + ReadBlock) - i : x[k] = d[i + k]
  BY <1>3, PartParts, Zenon
<1>5. /\ y \in Seq(Bytes) /\ Len(y) = (i + ReadBlock) - i
      /\ \A k \in 1 .. (i + ReadBlock) - i : y[k] = b[i + k]
  BY <1>3, PartParts, Zenon
<1> HIDE DEF x, y
<1>6. \A k \in 1 .. Len(x) : x[k] = y[k]
  <2> TAKE k \in 1 .. Len(x)
  <2>1. k \in 1 .. (i + ReadBlock) - i /\ i + k \in 1 .. Len(d)
    BY <1>3, <1>4
  <2> QED BY <2>1, <1>2, <1>4, <1>5
<1>7. x = y
  BY <1>4, <1>5, <1>6, SeqEqual
<1>8. SubSeq(d, i + 1, i + ReadBlock) = SubSeq(b, i + 1, i + ReadBlock)
  BY <1>7 DEF x, y, Part
<1> QED BY <1>1, <1>3, <1>8, Zenon DEF Early

LEMMA EarlyStays ==
  ASSUME FreshInv, [Next]_vars, ~Removal, NEW h \in Hosts, HasEarly(h),
         h # Server \/ ~ServerHalf
  PROVE  HasEarly(h)'
<1>1. PICK p \in DOMAIN disk[h] : Early(disk[h][p].data)
  BY DEF HasEarly
<1>2. PICK q \in DOMAIN disk'[h] : IsPrefix(disk[h][p].data, disk'[h][q].data)
  BY ContentStep
<1>3. TypeOK /\ TypeOK'
  BY NextTyped DEF FreshInv
<1>4. disk[h][p].data \in Seq(Bytes) /\ disk'[h][q].data \in Seq(Bytes)
  BY <1>3 DEF TypeOK, IsDirectory, Nodes
<1>5. Early(disk'[h][q].data)
  BY <1>1, <1>2, <1>4, EarlyPrefix
<1> QED BY <1>5 DEF HasEarly

(* In a live session nothing is removed.                                   *)
LEMMA LiveNoRemoval ==
  ASSUME TypeOK, Locked, [Next]_vars, cur # Nobody, cur \in clean'
  PROVE  ~Removal
BY UnluckySteps DEF Unlucky

-----------------------------------------------------------------------------
(* What the steps of the fetcher do to the directories.                    *)
Kept(h, q) ==
  Exists(disk[h], q) => Exists(disk'[h], q) /\ disk'[h][q] = disk[h][q]
KindKept(h, q) ==
  Exists(disk[h], q) => Exists(disk'[h], q) /\ disk'[h][q].kind = disk[h][q].kind

LEMMA FetcherRuns ==
  ASSUME TypeOK, Running
  PROVE  /\ fetcher \in Hosts /\ cur # Nobody /\ fpc # "over" /\ DOMAIN disk = Hosts
         /\ fetcher \in {Server, cur} /\ \A h \in Hosts : IsDirectory(disk[h])
BY DEF TypeOK, Running

LEMMA FolderEffect ==
  ASSUME TypeOK, NEW e \in list, SyncFolder(e)
  PROVE  /\ \A h \in Hosts : \A q : Kept(h, q)
         /\ \A h \in Hosts \ {fetcher} : disk'[h] = disk[h]
         /\ \A q \in DOMAIN disk'[fetcher] :
              q \in DOMAIN disk[fetcher] \/ (q = e.p /\ disk'[fetcher][q] = Folder)
         /\ CanCreate(disk[fetcher], e.p) =>
              Exists(disk'[fetcher], e.p) /\ disk'[fetcher][e.p] = Folder
<1>1. fetcher \in Hosts /\ DOMAIN disk = Hosts
  BY FetcherRuns DEF SyncFolder, Entry, Syncing
<1>2. CASE CanCreate(disk[fetcher], e.p)
  <2> DEFINE new == Put(disk[fetcher], e.p, Folder)
  <2>1. disk' = [disk EXCEPT ![fetcher] = new]
    BY <1>2 DEF SyncFolder
  <2>2. DOMAIN new = DOMAIN disk[fetcher] \cup {e.p} /\ new[e.p] = Folder
        /\ \A q \in DOMAIN disk[fetcher] : q # e.p => new[q] = disk[fetcher][q]
    BY DEF Put
  <2>3. e.p \notin DOMAIN disk[fetcher]
    BY <1>2 DEF CanCreate, Exists
  <2> HIDE DEF new
  <2>4. disk'[fetcher] = new /\ \A h \in Hosts \ {fetcher} : disk'[h] = disk[h]
    BY <1>1, <2>1
  <2> QED BY <2>2, <2>3, <2>4 DEF Kept, Exists
<1>3. CASE ~CanCreate(disk[fetcher], e.p)
  BY <1>3 DEF SyncFolder, Kept
<1> QED BY <1>2, <1>3

(* A file that keeps its place may be replaced only where it has a name    *)
(* that the session before gave in the same second.                        *)
Replaceable(q) == Hurried /\ GivenNow(q)

LEMMA RenameEffect ==
  ASSUME TypeOK, Fresh, NEW e \in list, Fetches(e), NEW q, ~IsPrefix(e.p, q),
         Exists(disk[fetcher], q)
  PROVE  /\ Exists(Renamed(disk[fetcher], e.p), q)
         /\ Renamed(disk[fetcher], e.p)[q].kind = disk[fetcher][q].kind
         /\ Renamed(disk[fetcher], e.p)[q] = disk[fetcher][q] \/ Replaceable(q)
<1>1. /\ fetcher \in Hosts /\ cur # Nobody /\ fpc # "over" /\ fetcher \in {Server, cur}
      /\ IsDirectory(disk[fetcher])
  BY FetcherRuns DEF Fetches, Entry, Syncing
<1>2. e.p \in Paths /\ now \in Nat
  BY DEF TypeOK
<1>3. CASE fetcher # Server
  BY <1>3, ClientFetches
<1>4. CASE fetcher = Server
  <2>1. Stamped(e.p) = StampedAt(e.p, now)
    BY DEF Stamped, StampedAt
  <2>2. q = Stamped(e.p) => Replaceable(q)
    BY <1>1, <1>2, <1>4, <2>1, StampedGiven DEF Fresh, ServerHalf, Replaceable
  <2> QED BY <1>1, <1>2, <1>4, <2>2, RenamedParts DEF Exists
<1> QED BY <1>3, <1>4

LEMMA FileEffect ==
  ASSUME TypeOK, Fresh, NEW e \in list, AskFile(e)
  PROVE  /\ \A h \in Hosts \ {fetcher} : disk'[h] = disk[h]
         /\ \A q : ~IsPrefix(e.p, q) =>
              KindKept(fetcher, q) /\ (Kept(fetcher, q) \/ Replaceable(q))
         /\ Exists(disk'[fetcher], e.p) /\ disk'[fetcher][e.p] = File(<< >>)
         /\ fetcher # Server =>
              /\ ~Exists(disk[fetcher], e.p)
              /\ \A q : Kept(fetcher, q)
              /\ \A q : Exists(disk'[fetcher], q) => Exists(disk[fetcher], q) \/ q = e.p
<1>1. fetcher \in Hosts /\ DOMAIN disk = Hosts
  BY FetcherRuns DEF AskFile, Fetches, Entry, Syncing
<1>2. Fetches(e) /\ CanCreate(Renamed(disk[fetcher], e.p), e.p)
  BY DEF AskFile, Creates
<1> DEFINE moved == Renamed(disk[fetcher], e.p)
           new == Put(moved, e.p, File(<< >>))
<1>3. disk' = [disk EXCEPT ![fetcher] = new]
  BY DEF AskFile, Creates
<1>4. \A q : ~IsPrefix(e.p, q) /\ Exists(disk[fetcher], q) =>
         /\ Exists(moved, q) /\ moved[q].kind = disk[fetcher][q].kind
         /\ moved[q] = disk[fetcher][q] \/ Replaceable(q)
  BY <1>2, RenameEffect
<1>5. fetcher # Server => ~Exists(disk[fetcher], e.p) /\ moved = disk[fetcher]
  BY <1>2, ClientFetches
<1>6. ~Exists(moved, e.p)
  BY <1>2 DEF CanCreate
<1> HIDE DEF moved
<1>7. /\ DOMAIN new = DOMAIN moved \cup {e.p} /\ new[e.p] = File(<< >>)
      /\ \A q \in DOMAIN moved : q # e.p => new[q] = moved[q]
  BY DEF Put
<1> HIDE DEF new
<1>8. disk'[fetcher] = new /\ \A h \in Hosts \ {fetcher} : disk'[h] = disk[h]
  BY <1>1, <1>3
<1>9. \A q : ~IsPrefix(e.p, q) =>
        KindKept(fetcher, q) /\ (Kept(fetcher, q) \/ Replaceable(q))
  BY <1>4, <1>6, <1>7, <1>8 DEF Kept, KindKept, Exists
<1>10. Exists(disk'[fetcher], e.p) /\ disk'[fetcher][e.p] = File(<< >>)
  BY <1>7, <1>8 DEF Exists
<1>11. ASSUME fetcher # Server
       PROVE /\ ~Exists(disk[fetcher], e.p) /\ \A q : Kept(fetcher, q)
             /\ \A q : Exists(disk'[fetcher], q) => Exists(disk[fetcher], q) \/ q = e.p
  BY <1>5, <1>7, <1>8, <1>11 DEF Kept, Exists
<1> QED BY <1>8, <1>9, <1>10, <1>11

LEMMA ReadEffect ==
  ASSUME TypeOK, Read, NEW chunk, chunk = SubSeq(wire, 1, Whole)
  PROVE  /\ \A h \in Hosts \ {fetcher} : disk'[h] = disk[h]
         /\ DOMAIN disk'[fetcher] = DOMAIN disk[fetcher]
         /\ \A q : q # file => Kept(fetcher, q)
         /\ \A q : KindKept(fetcher, q)
         /\ IF Text(chunk) = << Marker >> THEN fpc' = "sync" /\ disk' = disk
            ELSE /\ fpc' = IF LastBlock(chunk) THEN "sync" ELSE "read"
                 /\ IsFile(disk[fetcher], file) =>
                      disk'[fetcher][file] = File(disk[fetcher][file].data \o Text(chunk))
<1>1. /\ Running /\ Whole \in 1 .. Len(wire) /\ wire \in Seq(Bytes)
      /\ IF Text(chunk) = << Marker >> THEN fpc' = "sync" /\ disk' = disk
         ELSE disk' = WriteOut(chunk) /\ fpc' = IF LastBlock(chunk) THEN "sync" ELSE "read"
  BY DEF Read, ReadBytes, TypeOK
<1>2. fetcher \in Hosts /\ DOMAIN disk = Hosts /\ cur # Nobody
  BY <1>1, FetcherRuns
<1>3. CASE Text(chunk) = << Marker >>
  BY <1>1, <1>3 DEF Kept, KindKept
<1>4. CASE Text(chunk) # << Marker >>
  <2>1. chunk \in Seq(Bytes)
    <3>1. 1 \in Nat \ {0} /\ Whole \in 0 .. Len(wire)
      BY <1>1
    <3> QED BY <1>1, <3>1, CutParts
  <2>2. disk' = WriteOut(chunk) /\ fpc' = IF LastBlock(chunk) THEN "sync" ELSE "read"
    BY <1>1, <1>4
  <2>3. /\ \A h \in Hosts \ {fetcher} : disk'[h] = disk[h]
        /\ DOMAIN disk'[fetcher] = DOMAIN disk[fetcher]
        /\ \A p \in DOMAIN disk[fetcher] : p # file => disk'[fetcher][p] = disk[fetcher][p]
        /\ IsFile(disk[fetcher], file) =>
             disk'[fetcher][file] = File(disk[fetcher][file].data \o Text(chunk))
    BY <1>2, <2>1, <2>2, WriteOutDirectory
  <2>4. ASSUME NEW q PROVE KindKept(fetcher, q)
    <3>1. CASE IsFile(disk[fetcher], file)
      BY <2>3, <3>1 DEF KindKept, Exists, IsFile, File
    <3>2. CASE ~IsFile(disk[fetcher], file)
      <4>1. disk' = disk
        BY <2>2, <3>2 DEF WriteOut
      <4> QED BY <4>1 DEF KindKept
    <3> QED BY <3>1, <3>2
  <2> QED BY <1>4, <2>2, <2>3, <2>4 DEF Kept, Exists
<1> QED BY <1>3, <1>4

-----------------------------------------------------------------------------
(* The entries of the list are nodes of the provider.                      *)
LEMMA Listed ==
  ASSUME TypeOK, Fresh, Remembered, Live, Shape, fpc # "over", NEW e \in list
  PROVE  /\ e.p \in Paths /\ e.p \in DOMAIN disk[Provider]
         /\ e.kind = disk[Provider][e.p].kind
         /\ e = [p |-> e.p, kind |-> disk[Provider][e.p].kind]
<1>1. cur # Nobody /\ cur \in clean /\ fetcher \in {Server, cur} /\ cur # Server
  BY SessionHosts DEF Live, Sane
<1>2. e \in [p : Paths, kind : Kinds]
  BY DEF TypeOK
<1>3. e.p \in Paths /\ e = [p |-> e.p, kind |-> e.kind]
  BY <1>2
<1>4. e \in Entries(TreeOf(disk[Provider]))
  <2>1. CASE fetcher = Server
    BY <1>1, <2>1 DEF Fresh, Remembered, ServerHalf, Provider
  <2>2. CASE fetcher = cur
    BY <1>1, <2>2 DEF Shape, Returned, ClientHalf, Provider
  <2> QED BY <1>1, <2>1, <2>2
<1>5. e.p \in DOMAIN disk[Provider] /\ e.kind = disk[Provider][e.p].kind
  BY <1>4, EntryParts, TreeParts
<1> QED BY <1>3, <1>5

LEMMA FrontParts ==
  ASSUME NEW p \in Paths, Len(p) # 1
  PROVE  /\ Front(p) \in Paths /\ IsPrefix(Front(p), p) /\ Front(p) # p
         /\ ~IsPrefix(p, Front(p)) /\ IsStrictPrefix(Front(p), p)
<1>1. Len(p) \in Nat \ {0, 1}
  BY PathParts
<1>2. Len(p) - 1 \in 1 .. Len(p)
  BY <1>1
<1>3. Front(p) = SubSeq(p, 1, Len(p) - 1)
  BY DEF Front
<1>4. Front(p) \in Paths /\ Len(Front(p)) = Len(p) - 1 /\ IsPrefix(Front(p), p)
  BY <1>2, <1>3, SubPath
<1>5. ~IsPrefix(p, Front(p)) /\ Front(p) # p
  BY <1>1, <1>4 DEF IsPrefix
<1> QED BY <1>4, <1>5 DEF IsStrictPrefix

(* What leads to the entry that is next is a folder of the provider, and   *)
(* no longer on the list.                                                  *)
LEMMA HeadFront ==
  ASSUME TypeOK, Fresh, Remembered, Live, Shape, fpc # "over", NEW e \in Heads(list),
         Len(e.p) # 1
  PROVE  /\ Front(e.p) \in Paths /\ ~IsPrefix(e.p, Front(e.p))
         /\ IsFolder(disk[Provider], Front(e.p)) /\ ~Pending(Provider, Front(e.p))
<1>1. e \in list /\ \A o \in list : ~IsStrictPrefix(o.p, e.p)
  BY DEF Heads
<1>2. e.p \in Paths /\ e.p \in DOMAIN disk[Provider] /\ IsDirectory(disk[Provider])
  BY <1>1, Listed, SessionHosts DEF Live, Sane
<1>3. /\ Front(e.p) \in Paths /\ IsPrefix(Front(e.p), e.p) /\ Front(e.p) # e.p
      /\ ~IsPrefix(e.p, Front(e.p)) /\ IsStrictPrefix(Front(e.p), e.p)
  BY <1>2, FrontParts
<1>4. Front(e.p) \in DOMAIN disk[Provider] /\ disk[Provider][Front(e.p)] = Folder
  BY <1>2, <1>3, Leads
<1>5. IsFolder(disk[Provider], Front(e.p))
  BY <1>4 DEF IsFolder, Exists, Folder
<1>6. ~Pending(Provider, Front(e.p))
  BY <1>1, <1>3 DEF Pending
<1> QED BY <1>3, <1>5, <1>6

-----------------------------------------------------------------------------
(* Which nodes client and server both have.                                *)
LEMMA AgreedStays ==
  ASSUME cur' = cur, NEW p, Agreed(p), \A q : KindKept(cur, q),
         \A q : q = p \/ IsFolder(disk[cur], q) => KindKept(Server, q)
  PROVE  Agreed(p)'
<1>1. CASE SameKind(p)
  <2>1. SameKind(p)'
    BY <1>1 DEF SameKind, KindKept, Exists
  <2> QED BY <2>1 DEF Agreed
<1>2. CASE IsFolder(disk[cur], p) /\ Blocked(cur, p)
  <2>1. PICK q \in DOMAIN disk[cur] : IsPrefix(q, p) /\ BlockedFolder(cur, q)
    BY <1>2 DEF Blocked
  <2>2. BlockedFolder(cur, q)' /\ q \in DOMAIN disk'[cur']
    BY <2>1 DEF BlockedFolder, KindKept, IsFolder, IsFile, Exists
  <2>3. Blocked(cur, p)'
    BY <2>1, <2>2 DEF Blocked
  <2>4. IsFolder(disk[cur], p)'
    BY <1>2 DEF KindKept, IsFolder, Exists
  <2> QED BY <2>3, <2>4 DEF Agreed
<1> QED BY <1>1, <1>2 DEF Agreed

LEMMA KeptKinds ==
  ASSUME NEW h, \A q : Kept(h, q)
  PROVE  \A q : KindKept(h, q)
BY DEF Kept, KindKept

(* A folder that leads to a folder of the client's which both do not have  *)
(* is one that met a file.                                                 *)
LEMMA AgreedFolder ==
  ASSUME NEW p, Agreed(p), IsFolder(disk[cur], p)
  PROVE  IsFolder(disk[Server], p) \/ Blocked(cur, p)
BY DEF Agreed, SameKind, IsFolder

LEMMA OfferedFolder ==
  ASSUME TypeOK, Fresh, Remembered, Live, Shape, ServerHalf, NEW e \in list,
         SyncFolder(e), cur' = cur, fetcher' = fetcher, Live', ServerHalf'
  PROVE  Offered'
<1>1. /\ cur \in Hosts /\ cur # Server /\ Server \in Hosts /\ Provider = cur
      /\ IsDirectory(disk[cur]) /\ IsDirectory(disk[Server]) /\ fpc # "over" /\ fetcher = Server
  BY SessionHosts DEF ServerHalf, Provider
<1>2. /\ \A h \in Hosts : \A q : Kept(h, q)
      /\ disk'[cur] = disk[cur]
      /\ CanCreate(disk[Server], e.p) =>
           Exists(disk'[Server], e.p) /\ disk'[Server][e.p] = Folder
  BY <1>1, FolderEffect
<1>3. e \in Heads(list) /\ e.kind = "dir" /\ list' = list \ {e}
  BY DEF SyncFolder, Entry
<1>4. e.p \in Paths /\ e.p \in DOMAIN disk[cur] /\ disk[cur][e.p].kind = "dir"
      /\ e = [p |-> e.p, kind |-> disk[cur][e.p].kind]
  BY <1>1, <1>3, Listed
<1>5. (\A q : KindKept(cur, q)) /\ (\A q : KindKept(Server, q))
  BY <1>1, <1>2, KeptKinds
<1>6. \A p : Agreed(p) => Agreed(p)'
  BY <1>5, AgreedStays
<1>7. ASSUME NEW p \in DOMAIN disk[cur], p # e.p, Pending(cur, p) PROVE Pending(cur, p)'
  BY <1>2, <1>3, <1>4, <1>7 DEF Pending, Exists
<1>8. Agreed(e.p)'
  <2>1. CASE CanCreate(disk[Server], e.p)
    <3>1. SameKind(e.p)'
      BY <1>2, <1>4, <2>1 DEF SameKind, Exists, Folder
    <3> QED BY <3>1 DEF Agreed
  <2>2. CASE Exists(disk[Server], e.p)
    <3>1. disk[Server][e.p].kind \in {"dir", "file"}
      BY <1>1, <2>2 DEF Exists, IsDirectory, Nodes, Kinds
    <3>2. IsPrefix(e.p, e.p)
      BY <1>4, PrefixOrder
    <3>3. Agreed(e.p)
      BY <1>4, <2>2, <3>1, <3>2
         DEF Agreed, SameKind, Blocked, BlockedFolder, IsFolder, IsFile, Exists
    <3> QED BY <1>6, <3>3
  <2>3. CASE ~InFolder(disk[Server], e.p)
    <3>1. Len(e.p) # 1 /\ ~IsFolder(disk[Server], Front(e.p))
      BY <2>3 DEF InFolder
    <3>2. IsFolder(disk[cur], Front(e.p)) /\ ~Pending(cur, Front(e.p)) /\ Front(e.p) \in Paths
      BY <1>1, <1>3, <3>1, HeadFront
    <3>3. Agreed(Front(e.p))
      BY <3>2 DEF Shape, Offered, IsFolder, Exists
    <3>4. Blocked(cur, Front(e.p))
      BY <3>1, <3>2, <3>3, AgreedFolder
    <3>5. PICK q \in DOMAIN disk[cur] : IsPrefix(q, Front(e.p)) /\ BlockedFolder(cur, q)
      BY <3>4 DEF Blocked
    <3>6. q \in Paths /\ IsPrefix(Front(e.p), e.p)
      BY <1>1, <1>4, <3>1, FrontParts DEF IsDirectory
    <3>7. IsPrefix(q, e.p)
      BY <1>4, <3>2, <3>5, <3>6, PrefixOrder
    <3>8. Agreed(e.p)
      BY <1>4, <3>5, <3>7 DEF Agreed, Blocked, IsFolder, Exists
    <3> QED BY <1>6, <3>8
  <2> QED BY <2>1, <2>2, <2>3 DEF CanCreate
<1>9. ASSUME NEW p \in DOMAIN disk[cur] PROVE Pending(cur, p)' \/ Agreed(p)'
  <2>1. Pending(cur, p) \/ Agreed(p)
    BY DEF Shape, Offered
  <2> QED BY <2>1, <1>6, <1>7, <1>8
<1> QED BY <1>2, <1>9 DEF Offered

LEMMA OfferedFile ==
  ASSUME TypeOK, Fresh, Remembered, Live, Shape, ServerHalf, NEW e \in list,
         AskFile(e), cur' = cur, fetcher' = fetcher, Live', ServerHalf'
  PROVE  /\ Offered'
         /\ \A q \in DOMAIN disk[cur] : q # e.p => Kept(Server, q) \/ Replaceable(q)
<1>1. /\ cur \in Hosts /\ cur # Server /\ Server \in Hosts /\ Provider = cur
      /\ IsDirectory(disk[cur]) /\ IsDirectory(disk[Server]) /\ fpc # "over" /\ fetcher = Server
  BY SessionHosts DEF ServerHalf, Provider
<1>2. /\ \A q : ~IsPrefix(e.p, q) =>
           KindKept(Server, q) /\ (Kept(Server, q) \/ Replaceable(q))
      /\ disk'[cur] = disk[cur]
      /\ Exists(disk'[Server], e.p) /\ disk'[Server][e.p] = File(<< >>)
  BY <1>1, FileEffect
<1>3. e.kind = "file" /\ list' = list \ {e}
  BY DEF AskFile, Fetches, Entry
<1>4. e.p \in Paths /\ e.p \in DOMAIN disk[cur] /\ disk[cur][e.p].kind = "file"
      /\ e = [p |-> e.p, kind |-> disk[cur][e.p].kind]
  BY <1>1, <1>3, Listed
<1>5. ASSUME NEW q \in DOMAIN disk[cur], q # e.p
      PROVE  KindKept(Server, q) /\ (Kept(Server, q) \/ Replaceable(q))
  <2>1. ~IsPrefix(e.p, q)
    <3>1. q \in Paths
      BY <1>1 DEF IsDirectory
    <3> QED BY <1>1, <1>4, <1>5, <3>1, Leads DEF Folder
  <2> QED BY <1>2, <2>1
<1>6. \A q : KindKept(cur, q)
  BY <1>2 DEF KindKept
<1>7. \A q : IsFolder(disk[cur], q) => KindKept(Server, q)
  BY <1>4, <1>5 DEF IsFolder, Exists
<1>8. ASSUME NEW p \in DOMAIN disk[cur], p # e.p, Agreed(p) PROVE Agreed(p)'
  <2>1. KindKept(Server, p)
    BY <1>5, <1>8
  <2>2. \A q : q = p \/ IsFolder(disk[cur], q) => KindKept(Server, q)
    BY <1>7, <2>1
  <2> QED BY <1>6, <1>8, <2>2, AgreedStays
<1>9. Agreed(e.p)'
  BY <1>2, <1>4 DEF Agreed, SameKind, Exists, File
<1>10. ASSUME NEW p \in DOMAIN disk[cur], p # e.p, Pending(cur, p) PROVE Pending(cur, p)'
  BY <1>2, <1>3, <1>4, <1>10 DEF Pending, Exists
<1>11. ASSUME NEW p \in DOMAIN disk[cur] PROVE Pending(cur, p)' \/ Agreed(p)'
  <2>1. Pending(cur, p) \/ Agreed(p)
    BY DEF Shape, Offered
  <2> QED BY <2>1, <1>8, <1>9, <1>10
<1> QED BY <1>2, <1>5, <1>11 DEF Offered

LEMMA ReturnedFolder ==
  ASSUME TypeOK, Fresh, Remembered, Live, Shape, ClientHalf, NEW e \in list,
         SyncFolder(e), cur' = cur, fetcher' = fetcher, Live'
  PROVE  Returned'
<1>1. /\ cur \in Hosts /\ cur # Server /\ Server \in Hosts /\ Provider = Server
      /\ IsDirectory(disk[cur]) /\ IsDirectory(disk[Server]) /\ fetcher = cur
  BY SessionHosts DEF ClientHalf, Provider
<1>2. /\ \A q : Kept(cur, q)
      /\ disk'[Server] = disk[Server]
      /\ \A q \in DOMAIN disk'[cur] :
           q \in DOMAIN disk[cur] \/ (q = e.p /\ disk'[cur][q] = Folder)
      /\ CanCreate(disk[cur], e.p) => Exists(disk'[cur], e.p)
  BY <1>1, FolderEffect
<1>3. e \in Heads(list) /\ e.kind = "dir" /\ list' = list \ {e} /\ fpc # "over"
  BY DEF SyncFolder, Entry, Syncing
<1>4. e.p \in Paths /\ e.p \in DOMAIN disk[Server] /\ disk[Server][e.p].kind = "dir"
      /\ e = [p |-> e.p, kind |-> disk[Server][e.p].kind]
  BY <1>1, <1>3, Listed
<1>5. (\A q : KindKept(cur, q)) /\ (\A q : KindKept(Server, q))
  BY <1>2, KeptKinds DEF KindKept
<1>6. \A p : Agreed(p) => Agreed(p)'
  BY <1>5, AgreedStays
<1>7. Exists(disk'[cur], e.p)
  <2>1. CASE Exists(disk[cur], e.p)
    BY <1>2, <2>1 DEF Kept
  <2>2. CASE ~Exists(disk[cur], e.p)
    <3>1. ASSUME ~InFolder(disk[cur], e.p) PROVE FALSE
      <4>1. Len(e.p) # 1 /\ ~IsFolder(disk[cur], Front(e.p))
        BY <3>1 DEF InFolder
      <4>2. IsFolder(disk[Server], Front(e.p)) /\ ~Pending(Server, Front(e.p))
        BY <1>1, <1>3, <4>1, HeadFront
      <4>3. Exists(disk[cur], Front(e.p))
        BY <4>2 DEF Shape, Returned, IsFolder, Exists
      <4>4. Agreed(Front(e.p))
        BY <4>3 DEF Shape, Returned, Exists
      <4> QED BY <4>1, <4>2, <4>4 DEF Agreed, SameKind, IsFolder
    <3> QED BY <1>2, <2>2, <3>1 DEF CanCreate
  <2> QED BY <2>1, <2>2
<1>8. ASSUME NEW p \in DOMAIN disk[Server] PROVE Pending(Server, p)' \/ Exists(disk'[cur], p)
  <2>1. Pending(Server, p) \/ Exists(disk[cur], p)
    BY DEF Shape, Returned
  <2>2. Exists(disk[cur], p) => Exists(disk'[cur], p)
    BY <1>2 DEF Kept
  <2>3. Pending(Server, p) /\ p # e.p => Pending(Server, p)'
    BY <1>2, <1>3, <1>4 DEF Pending, Exists
  <2> QED BY <2>1, <2>2, <2>3, <1>7
<1>9. ASSUME NEW p \in DOMAIN disk'[cur] PROVE Agreed(p)'
  <2>1. CASE p \in DOMAIN disk[cur]
    BY <1>6, <2>1 DEF Shape, Returned
  <2>2. CASE p = e.p /\ disk'[cur][p] = Folder
    BY <1>2, <1>4, <1>7, <2>2 DEF Agreed, SameKind, Exists, Folder
  <2> QED BY <1>2, <2>1, <2>2
<1>10. list' \subseteq Entries(TreeOf(disk'[Server]))
  BY <1>2, <1>3 DEF Shape, Returned
<1> QED BY <1>2, <1>8, <1>9, <1>10 DEF Returned

LEMMA ReturnedFile ==
  ASSUME TypeOK, Fresh, Remembered, Live, Shape, ClientHalf, NEW e \in list,
         AskFile(e), cur' = cur, fetcher' = fetcher, Live'
  PROVE  Returned'
<1>1. /\ cur \in Hosts /\ cur # Server /\ Server \in Hosts /\ Provider = Server
      /\ IsDirectory(disk[cur]) /\ IsDirectory(disk[Server]) /\ fetcher = cur
  BY SessionHosts DEF ClientHalf, Provider
<1>2. /\ \A q : Kept(cur, q)
      /\ disk'[Server] = disk[Server]
      /\ \A q : Exists(disk'[cur], q) => Exists(disk[cur], q) \/ q = e.p
      /\ Exists(disk'[cur], e.p) /\ disk'[cur][e.p] = File(<< >>)
  BY <1>1, FileEffect
<1>3. e.kind = "file" /\ list' = list \ {e} /\ fpc # "over"
  BY DEF AskFile, Fetches, Entry, Syncing
<1>4. e.p \in Paths /\ e.p \in DOMAIN disk[Server] /\ disk[Server][e.p].kind = "file"
      /\ e = [p |-> e.p, kind |-> disk[Server][e.p].kind]
  BY <1>1, <1>3, Listed
<1>5. (\A q : KindKept(cur, q)) /\ (\A q : KindKept(Server, q))
  BY <1>2, KeptKinds DEF KindKept
<1>6. \A p : Agreed(p) => Agreed(p)'
  BY <1>5, AgreedStays
<1>8. ASSUME NEW p \in DOMAIN disk[Server] PROVE Pending(Server, p)' \/ Exists(disk'[cur], p)
  <2>1. Pending(Server, p) \/ Exists(disk[cur], p)
    BY DEF Shape, Returned
  <2>2. Exists(disk[cur], p) => Exists(disk'[cur], p)
    BY <1>2 DEF Kept
  <2>3. Pending(Server, p) /\ p # e.p => Pending(Server, p)'
    BY <1>2, <1>3, <1>4 DEF Pending, Exists
  <2> QED BY <2>1, <2>2, <2>3, <1>2
<1>9. ASSUME NEW p \in DOMAIN disk'[cur] PROVE Agreed(p)'
  <2>1. CASE p \in DOMAIN disk[cur]
    BY <1>6, <2>1 DEF Shape, Returned
  <2>2. CASE p = e.p
    BY <1>2, <1>4, <2>2 DEF Agreed, SameKind, Exists, File
  <2> QED BY <1>2, <2>1, <2>2 DEF Exists
<1>10. list' \subseteq Entries(TreeOf(disk'[Server]))
  BY <1>2, <1>3 DEF Shape, Returned
<1> QED BY <1>2, <1>8, <1>9, <1>10 DEF Returned

(* Steps that change no list, and of the directories at most what is in a  *)
(* file.                                                                   *)
SameTrees ==
  \A h \in {Server, cur} : DOMAIN disk'[h] = DOMAIN disk[h] /\ \A q : KindKept(h, q)

LEMMA TreesAlike ==
  ASSUME SameTrees, NEW h \in {Server, cur}
  PROVE  /\ \A q : Exists(disk'[h], q) <=> Exists(disk[h], q)
         /\ \A q \in DOMAIN disk[h] : disk'[h][q].kind = disk[h][q].kind
         /\ TreeOf(disk'[h]) = TreeOf(disk[h])
         /\ \A q : IsFile(disk'[h], q) <=> IsFile(disk[h], q)
<1>1. DOMAIN disk'[h] = DOMAIN disk[h] /\ \A q : KindKept(h, q)
  BY DEF SameTrees
<1>2. \A q \in DOMAIN disk[h] : disk'[h][q].kind = disk[h][q].kind
  BY <1>1 DEF KindKept, Exists
<1>3. TreeOf(disk'[h]) = TreeOf(disk[h])
  BY <1>1, <1>2 DEF TreeOf
<1> QED BY <1>1, <1>2, <1>3 DEF Exists, IsFile

LEMMA SameTreesShape ==
  ASSUME Offered, Returned, Live, SameTrees, list' = list, cur' = cur, fetcher' = fetcher,
         ServerHalf' => ServerHalf
  PROVE  Offered' /\ Returned'
<1>1. /\ \A q : Exists(disk'[cur], q) <=> Exists(disk[cur], q)
      /\ \A q \in DOMAIN disk[cur] : disk'[cur][q].kind = disk[cur][q].kind
  BY TreesAlike
<1>2. /\ \A q : Exists(disk'[Server], q) <=> Exists(disk[Server], q)
      /\ \A q \in DOMAIN disk[Server] : disk'[Server][q].kind = disk[Server][q].kind
      /\ TreeOf(disk'[Server]) = TreeOf(disk[Server])
  BY TreesAlike
<1>3. \A p : Agreed(p) => Agreed(p)'
  BY AgreedStays DEF SameTrees
<1>4. \A p : Pending(cur, p) => Pending(cur, p)'
  BY <1>1 DEF Pending, Exists
<1>5. \A p : Pending(Server, p) => Pending(Server, p)'
  BY <1>2 DEF Pending, Exists
<1>6. Offered'
  <2> SUFFICES ASSUME ServerHalf', NEW p \in DOMAIN disk'[cur]
               PROVE  Pending(cur, p)' \/ Agreed(p)'
    BY DEF Offered
  <2>1. p \in DOMAIN disk[cur]
    BY <1>1 DEF Exists
  <2> QED BY <1>3, <1>4, <2>1 DEF Offered
<1>7. Returned'
  <2> SUFFICES ASSUME ClientHalf'
               PROVE  /\ list' \subseteq Entries(TreeOf(disk'[Server]))
                      /\ \A p \in DOMAIN disk'[Server] : Pending(Server, p)' \/ Exists(disk'[cur], p)
                      /\ \A p \in DOMAIN disk'[cur] : Agreed(p)'
    BY DEF Returned
  <2>1. ClientHalf
    BY DEF ClientHalf
  <2> QED BY <1>1, <1>2, <1>3, <1>5, <2>1 DEF Returned, Exists
<1> QED BY <1>6, <1>7

LEMMA ReturnedKeep ==
  ASSUME TypeOK, Fresh, Remembered, Live, Shape, NEW e \in list, KeepOwn(e),
         cur' = cur, fetcher' = fetcher
  PROVE  Offered' /\ Returned'
<1>1. /\ cur \in Hosts /\ cur # Server /\ Server \in Hosts
      /\ fetcher = cur /\ Provider = Server
  BY SessionHosts DEF KeepOwn, Keeps, Provider, Live, Sane
<1>2. /\ disk' = disk /\ list' = list \ {e} /\ fpc # "over" /\ Exists(disk[cur], e.p)
      /\ cur # Nobody
  BY <1>1 DEF KeepOwn, Keeps, Entry, Syncing, Live, Sane
<1>3. e = [p |-> e.p, kind |-> disk[Server][e.p].kind]
  BY <1>1, <1>2, Listed
<1>4. Returned
  BY DEF Shape
<1>5. ClientHalf
  BY <1>1, <1>2 DEF ClientHalf
<1>6. \A p : Agreed(p) => Agreed(p)'
  BY <1>2, AgreedStays DEF KindKept
<1>7. ASSUME NEW p \in DOMAIN disk[Server] PROVE Pending(Server, p)' \/ Exists(disk'[cur], p)
  <2>1. Pending(Server, p) \/ Exists(disk[cur], p)
    BY <1>4, <1>5 DEF Returned
  <2>2. Pending(Server, p) /\ p # e.p => Pending(Server, p)'
    BY <1>2, <1>3 DEF Pending, Exists
  <2> QED BY <1>2, <2>1, <2>2
<1>8. list' \subseteq Entries(TreeOf(disk'[Server])) /\ \A p \in DOMAIN disk'[cur] : Agreed(p)'
  BY <1>2, <1>4, <1>5, <1>6 DEF Returned
<1>9. ~ServerHalf'
  BY <1>1 DEF ServerHalf
<1> QED BY <1>2, <1>7, <1>8, <1>9 DEF Offered, Returned

(* The lists change hands: what the client has is settled, and all of what *)
(* the server has is on the new list.                                      *)
LEMMA TurnShape ==
  ASSUME TypeOK, Live, Shape, Turn, cur' = cur
  PROVE  Requested' /\ Offered' /\ Returned'
<1>1. /\ cur \in Hosts /\ cur # Server /\ Server \in Hosts /\ fetcher = Server
      /\ fetcher' = cur /\ disk' = disk /\ list = {} /\ list' = Entries(TreeOf(disk[Server]))
      /\ asked' = << >> /\ fpc' = "sync" /\ ServerHalf
  BY SessionHosts
     DEF Turn, Turned, AllSynced, Syncing, Running, Quiet, Live, Sane, ServerHalf
<1>2. \A p \in DOMAIN disk[cur] : Agreed(p)
  BY <1>1 DEF Shape, Offered, Pending
<1>3. \A p : Agreed(p) => Agreed(p)'
  BY <1>1, AgreedStays DEF KindKept
<1>4. \A p \in DOMAIN disk[Server] : Pending(Server, p)'
  BY <1>1, EntryParts, TreeParts DEF Pending, Exists
<1>5. ~ServerHalf'
  BY <1>1 DEF ServerHalf
<1>6. Returned'
  BY <1>1, <1>2, <1>3, <1>4 DEF Returned
<1>7. Requested'
  BY <1>1 DEF Requested
<1> QED BY <1>5, <1>6, <1>7 DEF Offered

LEMMA BeginShape ==
  ASSUME TypeOK, Remembered, NEW c \in Clients, Begin(c), Live'
  PROVE  Requested' /\ Offered' /\ Returned'
<1>1. /\ conn[c] = "waiting" /\ cur' = c /\ fetcher' = Server /\ list' = Entries(tree[c])
      /\ disk' = disk /\ asked' = << >> /\ fpc' = "sync" /\ c # Server /\ c \in clean
  BY HostsApart DEF Begin, TypeOK, Quiet, luck, Live, Sane
<1>2. tree[c] = TreeOf(disk[c])
  BY <1>1 DEF Remembered
<1>3. \A p \in DOMAIN disk[c] : Pending(c, p)'
  BY <1>1, <1>2, EntryParts, TreeParts DEF Pending, Exists
<1>4. Offered'
  BY <1>1, <1>3 DEF Offered
<1>5. ~ClientHalf'
  BY <1>1 DEF ClientHalf
<1>6. Requested'
  BY <1>1 DEF Requested
<1> QED BY <1>4, <1>5, <1>6 DEF Returned

LEMMA LiveToLive ==
  ASSUME TypeOK, Locked, Live, [Next]_vars, Live'
  PROVE  /\ cur' = cur /\ now' = now /\ before' = before
         /\ \/ Stays
            \/ \E e \in list : SyncFolder(e) \/ KeepOwn(e) \/ AskFile(e)
            \/ Read \/ Turn \/ Finish \/ SendBlock
            \/ \E p : OpenFile(p)
<1>1. up = Hosts /\ up' = Hosts /\ fetcher \in Hosts /\ Provider \in Hosts /\ Server \in Hosts
  BY SessionHosts DEF Live, Sane
<1>2. ~TurnGarbled /\ (\A e : ~CannotCreate(e)) /\ (\A p : ~CannotOpen(p))
  BY <1>1 DEF TurnGarbled, CannotCreate, CannotOpen
<1>3. Sane'
  BY DEF Live
<1> QED BY <1>2, <1>3, LiveSteps

LEMMA RequestedStays ==
  ASSUME TypeOK, Live, Requested, cur' = cur, fetcher' = fetcher,
         \A h \in {Server, cur} : \A q : KindKept(h, q),
         asked' = asked \/ (asked # << >> /\ asked' = Tail(asked)),
         fpc' = "read" => fpc = "read" /\ file' = file /\ list' = list
  PROVE  Requested'
<1>1. fetcher \in {Server, cur} /\ Provider \in {Server, cur} /\ asked \in Seq(Paths)
  BY SessionHosts DEF Live, Sane, TypeOK
<1>2. Provider' = Provider
  BY DEF Provider
<1>3. \A q : IsFile(disk[Provider], q) => IsFile(disk'[Provider], q)
  BY <1>1 DEF IsFile, KindKept, Exists
<1>4. \A q : IsFile(disk[fetcher], q) => IsFile(disk'[fetcher], q)
  BY <1>1 DEF IsFile, KindKept, Exists
<1>5. ASSUME NEW i \in DOMAIN asked' PROVE IsFile(disk'[Provider], asked'[i])
  <2>1. \E j \in DOMAIN asked : asked'[i] = asked[j]
    BY <1>1
  <2> QED BY <1>3, <2>1 DEF Requested
<1>6. ASSUME fpc' = "read" PROVE ~Pending(Provider, file)'
  BY <1>1, <1>2, <1>6 DEF Requested, Pending, KindKept, IsFile
<1> QED BY <1>2, <1>3, <1>4, <1>5, <1>6 DEF Requested

LEMMA RequestedFile ==
  ASSUME TypeOK, Fresh, Remembered, Live, Shape, NEW e \in list, AskFile(e),
         cur' = cur, fetcher' = fetcher
  PROVE  Requested'
<1>1. /\ fetcher \in {Server, cur} /\ Provider \in {Server, cur} /\ Provider # fetcher
      /\ cur \in Hosts /\ Server \in Hosts /\ asked \in Seq(Paths) /\ Requested
  BY SessionHosts DEF Live, Sane, TypeOK, Shape
<1>2. Provider' = Provider
  BY DEF Provider
<1>3. disk'[Provider] = disk[Provider] /\ IsFile(disk'[fetcher], e.p)
  BY <1>1, FileEffect DEF IsFile, File
<1>4. /\ asked' = Append(asked, e.p) /\ file' = e.p /\ list' = list \ {e} /\ e.kind = "file"
      /\ fpc # "over"
  BY DEF AskFile, Fetches, Entry, Syncing
<1>5. /\ e.p \in Paths /\ e = [p |-> e.p, kind |-> disk[Provider][e.p].kind]
      /\ IsFile(disk[Provider], e.p)
  BY <1>4, Listed DEF IsFile, Exists
<1>6. ASSUME NEW i \in DOMAIN asked' PROVE IsFile(disk'[Provider], asked'[i])
  <2>1. asked'[i] = e.p \/ \E j \in DOMAIN asked : asked'[i] = asked[j]
    BY <1>1, <1>4, <1>5
  <2> QED BY <1>1, <1>3, <1>5, <2>1 DEF Requested
<1>7. ~Pending(Provider, file)'
  BY <1>2, <1>3, <1>4, <1>5 DEF Pending
<1> QED BY <1>2, <1>3, <1>4, <1>5, <1>6, <1>7 DEF Requested

LEMMA ShapeStep ==
  ASSUME FreshInv, Remembered, Shape, [Next]_vars
  PROVE  Shape'
<1> SUFFICES ASSUME Live' PROVE Requested' /\ Offered' /\ Returned'
  BY DEF Shape
<1>0. TypeOK /\ Locked /\ Fresh
  BY DEF FreshInv
<1>1. CASE ~Live
  BY <1>0, <1>1, BecomesLive, BeginShape
<1>2. CASE Live
  <2>1. /\ cur' = cur /\ Requested /\ Offered /\ Returned /\ cur # Nobody
        /\ fetcher \in {Server, cur} /\ cur \in Hosts /\ Server \in Hosts /\ cur # Server
    BY <1>0, <1>2, LiveToLive, SessionHosts DEF Shape, Live, Sane
  <2>2. ASSUME disk' = disk, list' = list, fetcher' = fetcher,
               asked' = asked \/ (asked # << >> /\ asked' = Tail(asked)),
               (fpc' = fpc /\ file' = file) \/ (fpc' # "read" /\ fetcher # Server)
        PROVE  Requested' /\ Offered' /\ Returned'
    <3>1. SameTrees /\ \A h \in {Server, cur} : \A q : KindKept(h, q)
      BY <2>2 DEF SameTrees, KindKept
    <3>2. ServerHalf' => ServerHalf
      BY <2>1, <2>2 DEF ServerHalf
    <3>3. Offered' /\ Returned'
      BY <1>2, <2>1, <2>2, <3>1, <3>2, SameTreesShape
    <3>4. fpc' = "read" => fpc = "read" /\ file' = file /\ list' = list
      BY <2>2
    <3> QED BY <1>0, <1>2, <2>1, <2>2, <3>1, <3>3, <3>4, RequestedStays
  <2>3. CASE Stays
    BY <2>2, <2>3 DEF Stays, transfer
  <2>4. ASSUME NEW e \in list, SyncFolder(e) PROVE Requested' /\ Offered' /\ Returned'
    <3>1. fetcher' = fetcher /\ fpc = "sync" /\ fpc' = fpc /\ asked' = asked /\ fpc # "over"
      BY <2>4 DEF SyncFolder, Entry, Syncing, session
    <3>2. \A h \in {Server, cur} : \A q : KindKept(h, q)
      BY <1>0, <2>1, <2>4, FolderEffect, KeptKinds
    <3>3. Requested'
      BY <1>0, <1>2, <2>1, <3>1, <3>2, RequestedStays
    <3>4. CASE fetcher = Server
      <4>1. ServerHalf /\ ServerHalf' /\ ~ClientHalf'
        BY <2>1, <3>1, <3>4 DEF ServerHalf, ClientHalf
      <4>2. Offered'
        BY <1>0, <1>2, <2>1, <2>4, <3>1, <4>1, OfferedFolder
      <4> QED BY <3>3, <4>1, <4>2 DEF Returned
    <3>5. CASE fetcher = cur
      <4>1. ClientHalf /\ ~ServerHalf'
        BY <2>1, <3>1, <3>5 DEF ServerHalf, ClientHalf
      <4>2. Returned'
        BY <1>0, <1>2, <2>1, <2>4, <3>1, <4>1, ReturnedFolder
      <4> QED BY <3>3, <4>1, <4>2 DEF Offered
    <3> QED BY <2>1, <3>4, <3>5
  <2>5. ASSUME NEW e \in list, AskFile(e) PROVE Requested' /\ Offered' /\ Returned'
    <3>1. fetcher' = fetcher /\ fpc = "sync" /\ fpc' = "read"
      BY <2>5 DEF AskFile, Fetches, Entry, Syncing, session
    <3>2. Requested'
      BY <1>0, <1>2, <2>1, <2>5, <3>1, RequestedFile
    <3>3. CASE fetcher = Server
      <4>1. ServerHalf /\ ServerHalf' /\ ~ClientHalf'
        BY <2>1, <3>1, <3>3 DEF ServerHalf, ClientHalf
      <4>2. Offered'
        BY <1>0, <1>2, <2>1, <2>5, <3>1, <4>1, OfferedFile
      <4> QED BY <3>2, <4>1, <4>2 DEF Returned
    <3>4. CASE fetcher = cur
      <4>1. ClientHalf /\ ~ServerHalf'
        BY <2>1, <3>1, <3>4 DEF ServerHalf, ClientHalf
      <4>2. Returned'
        BY <1>0, <1>2, <2>1, <2>5, <3>1, <4>1, ReturnedFile
      <4> QED BY <3>2, <4>1, <4>2 DEF Offered
    <3> QED BY <2>1, <3>3, <3>4
  <2>6. ASSUME NEW e \in list, KeepOwn(e) PROVE Requested' /\ Offered' /\ Returned'
    <3>1. /\ fetcher' = fetcher /\ fpc = "sync" /\ fpc' = fpc /\ asked' = asked /\ disk' = disk
      BY <2>6 DEF KeepOwn, Entry, Syncing, session
    <3>2. Requested'
      BY <1>0, <1>2, <2>1, <3>1, RequestedStays DEF KindKept
    <3> QED BY <1>0, <1>2, <2>1, <2>6, <3>1, <3>2, ReturnedKeep
  <2>7. CASE Read
    <3>1. /\ fetcher' = fetcher /\ fpc = "read" /\ asked' = asked /\ list' = list
          /\ file' = file
      BY <2>7 DEF Read, ReadBytes, session
    <3>2. SameTrees /\ \A h \in {Server, cur} : \A q : KindKept(h, q)
      <4>1. /\ \A h \in Hosts \ {fetcher} : disk'[h] = disk[h]
            /\ DOMAIN disk'[fetcher] = DOMAIN disk[fetcher]
            /\ \A q : KindKept(fetcher, q)
        BY <1>0, <2>7, ReadEffect
      <4> QED BY <2>1, <4>1 DEF SameTrees, KindKept
    <3>3. Requested'
      BY <1>0, <1>2, <2>1, <3>1, <3>2, RequestedStays
    <3>4. ServerHalf' => ServerHalf
      BY <2>1, <3>1 DEF ServerHalf
    <3>5. Offered' /\ Returned'
      BY <1>2, <2>1, <3>1, <3>2, <3>4, SameTreesShape
    <3> QED BY <3>3, <3>5
  <2>8. CASE Turn
    BY <1>0, <1>2, <2>1, <2>8, TurnShape
  <2>9. CASE Finish
    BY <2>1, <2>2, <2>9 DEF Finish, AllSynced, session
  <2>10. CASE SendBlock
    BY <2>2, <2>10 DEF SendBlock, session
  <2>11. ASSUME NEW p, OpenFile(p) PROVE Requested' /\ Offered' /\ Returned'
    BY <2>2, <2>11 DEF OpenFile, Opens, session
  <2> QED BY <1>0, <1>2, <2>3, <2>4, <2>5, <2>6, <2>7, <2>8, <2>9, <2>10, <2>11, LiveToLive
<1> QED BY <1>1, <1>2

-----------------------------------------------------------------------------
(* How far the file that is being sent has come.                           *)
LEMMA FileData ==
  ASSUME TypeOK, NEW h \in Hosts, NEW p, IsFile(disk[h], p)
  PROVE  /\ disk[h][p].data \in Seq(Bytes) /\ disk[h][p] = File(disk[h][p].data)
         /\ p \in DOMAIN disk[h]
<1>1. p \in DOMAIN disk[h] /\ disk[h][p].kind = "file" /\ disk[h][p] \in Nodes
  BY DEF TypeOK, IsFile, Exists, IsDirectory
<1>2. disk[h][p] = [kind |-> disk[h][p].kind, data |-> disk[h][p].data]
      /\ disk[h][p].data \in Seq(Bytes)
  BY <1>1 DEF Nodes
<1> QED BY <1>1, <1>2 DEF File

(* What one read of the file does.                                         *)
LEMMA ReadOutcome ==
  ASSUME TypeOK, Live, Requested, Read, NEW d \in Seq(Bytes), ~Early(d), NEW n \in 0 .. Len(d),
         NEW got, got = disk[fetcher][file].data, Reads(n, d, got),
         NEW gets, gets = disk'[fetcher][file].data
  PROVE  /\ disk'[fetcher][file] = File(gets)
         /\ \/ /\ fpc' = "read" /\ n + ReadBlock \in 0 .. Len(d)
               /\ Reads(n + ReadBlock, d, gets)'
            \/ /\ fpc' = "sync" /\ Quiet' /\ wire' = << >>
               /\ Plain(d) => gets = d
<1> DEFINE chunk == SubSeq(wire, 1, Whole)
<1>1. /\ fpc = "read" /\ Whole \in 1 .. Len(wire)
      /\ wire' = SubSeq(wire, Whole + 1, Len(wire))
      /\ UNCHANGED << asked, ppc, left, file >>
  BY DEF Read, ReadBytes
<1>2. wire # << >>
  BY <1>1
<1>3. n % ReadBlock = 0 /\ (Sending(n, d) \/ Sent(n, d)) /\ (~Contains(d, Nul) => got = Part(d, 0, n))
  BY <1>2 DEF Reads, Ordered
<1>4. FullBlock(n, d, chunk) \/ FinalBlock(n, d, chunk)
  BY <1>1, <1>2, <1>3, ReadStep
<1>5. /\ fetcher \in Hosts /\ IsFile(disk[fetcher], file)
  BY <1>1, SessionHosts DEF Requested, Live, Sane
<1>e. IF Text(chunk) = << Marker >> THEN fpc' = "sync" /\ disk' = disk
      ELSE /\ fpc' = IF LastBlock(chunk) THEN "sync" ELSE "read"
           /\ IsFile(disk[fetcher], file) =>
                disk'[fetcher][file] = File(disk[fetcher][file].data \o Text(chunk))
  BY ReadEffect
<1> HIDE DEF chunk
<1>6. IF Text(chunk) = << Marker >> THEN fpc' = "sync" /\ gets = got
      ELSE /\ fpc' = IF LastBlock(chunk) THEN "sync" ELSE "read"
           /\ gets = got \o Text(chunk)
  BY <1>e, <1>5 DEF File
<1>f. disk'[fetcher][file] = File(gets)
  <2>1. disk[fetcher][file] = File(got)
    BY <1>5, FileData
  <2>2. CASE Text(chunk) = << Marker >>
    BY <1>e, <1>6, <2>1, <2>2
  <2>3. CASE Text(chunk) # << Marker >>
    BY <1>e, <1>5, <1>6, <2>3
  <2> QED BY <2>2, <2>3
<1>7. Len(d) \in Nat /\ n \in Nat /\ ReadBlock \in Nat /\ n \in 0 .. Len(d)
      /\ 0 \in 0 .. n /\ Len(d) \in 0 .. Len(d)
  BY BlockSizes, LenProperties
<1>8. CASE FullBlock(n, d, chunk)
  <2> DEFINE k == n + ReadBlock
  <2>1. /\ k \in 0 .. Len(d) /\ k % ReadBlock = 0 /\ chunk = Part(d, n, k)
        /\ Text(chunk) # << Marker >> /\ ~LastBlock(chunk)
        /\ (Sending(k, d) \/ Sent(k, d))'
    BY <1>8 DEF FullBlock
  <2>2. fpc' = "read" /\ gets = got \o Text(chunk)
    BY <1>6, <2>1
  <2>3. ASSUME ~Contains(d, Nul) PROVE gets = Part(d, 0, k)
    <3>1. n \in 0 .. k
      BY <1>7
    <3>2. Text(Part(d, n, k)) = Part(d, n, k)
      BY <2>1, <2>3, <3>1, PartText, Zenon
    <3>3. Part(d, 0, n) \o Part(d, n, k) = Part(d, 0, k)
      BY <1>7, <2>1, <3>1, PartJoin, Zenon
    <3> QED BY <1>3, <2>1, <2>2, <2>3, <3>2, <3>3, Zenon
  <2> HIDE DEF k
  <2>4. Reads(k, d, gets)'
    BY <2>1, <2>3 DEF Reads
  <2> QED BY <1>f, <2>1, <2>2, <2>4 DEF k
<1>9. CASE FinalBlock(n, d, chunk)
  <2>1. asked' = << >> /\ ppc' = "wait" /\ wire' = << >> /\ LastBlock(chunk)
    BY <1>9 DEF FinalBlock
  <2>2. fpc' = "sync"
    BY <1>6, <2>1
  <2>3. ASSUME Plain(d) PROVE gets = d
    <3>1. ~Contains(d, Nul) /\ got = Part(d, 0, n)
      BY <1>3, <2>3 DEF Plain
    <3>2. Part(d, 0, Len(d)) = d
      BY <1>7, PartEmpty, Zenon
    <3>3. CASE Text(chunk) = << Marker >>
      <4>1. n = Len(d)
        BY <1>9, <2>3, <3>3 DEF FinalBlock
      <4> QED BY <1>6, <3>1, <3>2, <3>3, <4>1
    <3>4. CASE Text(chunk) # << Marker >>
      <4>1. chunk = Part(d, n, Len(d))
        BY <1>9, <3>1, <3>4 DEF FinalBlock
      <4>2. Text(Part(d, n, Len(d))) = Part(d, n, Len(d))
        BY <1>7, <3>1, PartText, Zenon
      <4>3. Part(d, 0, n) \o Part(d, n, Len(d)) = Part(d, 0, Len(d))
        BY <1>7, PartJoin, Zenon
      <4>4. gets = got \o Text(chunk)
        BY <1>6, <3>4
      <4> QED BY <3>1, <3>2, <4>1, <4>2, <4>3, <4>4, Zenon
    <3> QED BY <3>3, <3>4
  <2> QED BY <1>f, <2>1, <2>2, <2>3 DEF Quiet
<1> QED BY <1>4, <1>8, <1>9

(* The file that is being sent, and how far it is.                         *)
LEMMA SendingFile ==
  ASSUME TypeOK, Live, Requested, Streams, fpc = "read", ~HasEarly(Provider)
  PROVE  /\ IsFile(disk[Provider], file) /\ IsFile(disk[fetcher], file)
         /\ \E d \in Seq(Bytes) : \E n \in 0 .. Len(d) :
              /\ d = disk[Provider][file].data /\ ~Early(d)
              /\ Reads(n, d, disk[fetcher][file].data)
<1>1. IsFile(disk[Provider], file) /\ IsFile(disk[fetcher], file) /\ Provider \in Hosts
  BY SessionHosts DEF Requested, Live, Sane
<1>2. disk[Provider][file].data \in Seq(Bytes) /\ file \in DOMAIN disk[Provider]
  BY <1>1, FileData
<1>3. ~Early(disk[Provider][file].data)
  BY <1>2 DEF HasEarly
<1>4. \E n \in 0 .. Len(disk[Provider][file].data) :
        Reads(n, disk[Provider][file].data, disk[fetcher][file].data)
  BY DEF Streams
<1> QED BY <1>1, <1>2, <1>3, <1>4

(* Whose files must not end early, before and after a step.                *)
LEMMA ProviderEarly ==
  ASSUME FreshInv, Live, [Next]_vars, Live', cur' = cur, NEW h \in {Server, cur}, ~HasEarly(h)',
         h # Server \/ ~ServerHalf
  PROVE  ~HasEarly(h)
<1>1. TypeOK /\ Locked /\ cur # Nobody /\ h \in Hosts /\ cur \in clean'
  BY SessionHosts DEF FreshInv, Live, Sane
<1>2. ~Removal
  BY <1>1, LiveNoRemoval
<1> QED BY <1>1, <1>2, EarlyStays

LEMMA StreamsStep ==
  ASSUME FreshInv, Shape, Streams, [Next]_vars, Shape'
  PROVE  Streams'
<1> DEFINE Goal ==
      IF fpc = "read"
      THEN \E n \in 0 .. Len(disk[Provider][file].data) :
             Reads(n, disk[Provider][file].data, disk[fetcher][file].data)
      ELSE Quiet /\ wire = << >>
<1> SUFFICES ASSUME Live', ~HasEarly(Provider)' PROVE Goal'
  BY DEF Streams
<1>0. TypeOK /\ Locked /\ Fresh
  BY DEF FreshInv
<1>1. CASE ~Live
  <2>1. PICK c \in Clients : Begin(c)
    BY <1>0, <1>1, BecomesLive
  <2>2. Quiet /\ wire = << >>
    BY <1>0, <2>1 DEF TypeOK, Begin
  <2> QED BY <2>1, <2>2 DEF Begin, Quiet
<1>2. CASE Live
  <2>1. /\ cur' = cur /\ Requested /\ cur # Nobody /\ cur # Server
        /\ fetcher \in {Server, cur} /\ Provider \in {Server, cur} /\ Provider # fetcher
        /\ cur \in Hosts /\ Server \in Hosts /\ fetcher \in Hosts /\ Provider \in Hosts
    BY <1>0, <1>2, LiveToLive, SessionHosts DEF Shape, Live, Sane
  <2>2. CASE Turn
    BY <2>2 DEF Turn, Turned, AllSynced, Syncing, Quiet
  <2>3. ASSUME fetcher' = fetcher PROVE Provider' = Provider /\ ~HasEarly(Provider) /\ Goal
    <3>1. Provider' = Provider
      BY <2>1, <2>3 DEF Provider
    <3>2. PICK h \in {Server, cur} : h = Provider
      BY <2>1
    <3>3. ~HasEarly(h)'
      BY <3>1, <3>2 DEF HasEarly
    <3>4. ~HasEarly(h)
      <4>1. h # Server \/ ~ServerHalf
        BY <2>1, <3>2 DEF ServerHalf
      <4> QED BY <1>2, <2>1, <3>3, <4>1, ProviderEarly
    <3>5. ~HasEarly(Provider)
      BY <3>2, <3>4
    <3> QED BY <1>2, <3>1, <3>5 DEF Streams
  <2>4. ASSUME disk' = disk, fetcher' = fetcher, fpc # "read", fpc' # "read",
               UNCHANGED << asked, ppc, wire >>
        PROVE  Goal'
    BY <2>3, <2>4 DEF Quiet
  <2>5. ASSUME fpc = "read", fetcher' = fetcher
        PROVE  \E d \in Seq(Bytes) : \E n \in 0 .. Len(d) :
                 /\ d = disk[Provider][file].data /\ ~Early(d)
                 /\ Reads(n, d, disk[fetcher][file].data)
    BY <1>0, <1>2, <2>1, <2>3, <2>5, SendingFile
  <2>6. CASE Stays
    <3>1. fetcher' = fetcher /\ Provider' = Provider /\ Goal
      BY <2>3, <2>6 DEF Stays
    <3> QED BY <2>6, <3>1
         DEF Stays, transfer, Quiet, Reads, Ordered, Sending, Sent
  <2>7. ASSUME NEW e \in list, SyncFolder(e) \/ KeepOwn(e) PROVE Goal'
    <3>1. fetcher' = fetcher /\ fpc = "sync" /\ fpc' = "sync" /\ UNCHANGED << asked, ppc, wire >>
      BY <2>7 DEF SyncFolder, KeepOwn, Entry, Syncing, session
    <3> QED BY <2>3, <3>1 DEF Quiet
  <2>8. ASSUME NEW e \in list, AskFile(e) PROVE Goal'
    <3>1. /\ fetcher' = fetcher /\ fpc = "sync" /\ fpc' = "read" /\ file' = e.p
          /\ asked' = Append(asked, e.p) /\ UNCHANGED << ppc, wire >>
      BY <2>8 DEF AskFile, Fetches, Entry, Syncing, session
    <3>2. Quiet /\ wire = << >> /\ Provider' = Provider
      BY <2>3, <3>1
    <3>3. disk'[fetcher][e.p].data = << >> /\ disk'[Provider] = disk[Provider]
      BY <1>0, <2>1, <2>8, FileEffect DEF File
    <3>4. IsFile(disk[Provider], e.p)
      BY <2>1, <3>1, <3>2, <3>3 DEF Shape, Requested
    <3>5. PICK d \in Seq(Bytes) : d = disk[Provider][e.p].data
      BY <1>0, <2>1, <3>4, FileData
    <3>6. 0 \in 0 .. Len(d) /\ 0 % ReadBlock = 0
      <4>1. Len(d) \in Nat
        OBVIOUS
      <4> QED BY <4>1, BlockSizes
    <3>7. Part(d, 0, 0) = << >>
      BY <3>6, PartEmpty, Zenon
    <3>8. asked' = << file' >> /\ ppc' = "wait" /\ wire' = << >>
      BY <3>1, <3>2 DEF Quiet
    <3>9. Reads(0, d, << >>)'
      BY <3>6, <3>7, <3>8 DEF Reads, Ordered
    <3> QED BY <3>1, <3>2, <3>3, <3>5, <3>6, <3>9
  <2>9. CASE Read
    <3>1. fetcher' = fetcher /\ fpc = "read" /\ file' = file
      BY <2>9 DEF Read, ReadBytes, session
    <3>2. PICK d \in Seq(Bytes) : \E n \in 0 .. Len(d) :
            /\ d = disk[Provider][file].data /\ ~Early(d)
            /\ Reads(n, d, disk[fetcher][file].data)
      BY <2>5, <3>1
    <3>3. PICK n \in 0 .. Len(d) :
            /\ d = disk[Provider][file].data /\ ~Early(d)
            /\ Reads(n, d, disk[fetcher][file].data)
      BY <3>2
    <3>4. PICK got : got = disk[fetcher][file].data
      OBVIOUS
    <3>5. PICK gets : gets = disk'[fetcher][file].data
      OBVIOUS
    <3>6. \/ /\ fpc' = "read" /\ n + ReadBlock \in 0 .. Len(d)
             /\ Reads(n + ReadBlock, d, gets)'
          \/ fpc' = "sync" /\ Quiet' /\ wire' = << >>
      <4>1. Reads(n, d, got)
        BY <3>3, <3>4, Zenon
      <4> QED BY <1>0, <1>2, <2>1, <2>9, <3>3, <3>4, <3>5, <4>1, ReadOutcome
    <3>7. disk'[Provider] = disk[Provider] /\ Provider' = Provider
      BY <1>0, <2>1, <2>3, <2>9, <3>1, ReadEffect
    <3> QED BY <3>1, <3>3, <3>5, <3>6, <3>7
  <2>10. CASE Finish
    BY <2>4, <2>10 DEF Finish, AllSynced, Syncing, session
  <2>11. CASE SendBlock
    <3>1. /\ fetcher' = fetcher /\ file' = file /\ fpc' = fpc /\ disk' = disk /\ ppc = "send"
      BY <2>11 DEF SendBlock, Serving, session
    <3>2. fpc = "read"
      BY <2>3, <3>1 DEF Quiet
    <3>3. PICK d \in Seq(Bytes) : \E n \in 0 .. Len(d) :
            /\ d = disk[Provider][file].data /\ ~Early(d)
            /\ Reads(n, d, disk[fetcher][file].data)
      BY <2>5, <3>1, <3>2
    <3>4. PICK n \in 0 .. Len(d) :
            /\ d = disk[Provider][file].data /\ ~Early(d)
            /\ Reads(n, d, disk[fetcher][file].data)
      BY <3>3
    <3>5. PICK got : got = disk[fetcher][file].data
      OBVIOUS
    <3>6. Reads(n, d, got)
      BY <3>4, <3>5, Zenon
    <3>7. Sending(n, d)
      BY <3>1, <3>6 DEF Reads, Ordered, Sent
    <3>8. (Sending(n, d) \/ Sent(n, d))'
      BY <2>11, <3>7, SendStep
    <3>9. Reads(n, d, got)'
      BY <3>6, <3>8 DEF Reads
    <3>10. Provider' = Provider
      BY <2>3, <3>1
    <3> QED BY <3>1, <3>2, <3>4, <3>5, <3>9, <3>10
  <2>12. ASSUME NEW p, OpenFile(p) PROVE Goal'
    <3>1. /\ fetcher' = fetcher /\ file' = file /\ fpc' = fpc /\ disk' = disk /\ wire' = wire
          /\ asked # << >> /\ p = Head(asked) /\ asked' = Tail(asked) /\ ppc' = "send"
          /\ left' = disk[Provider][p].data
      BY <2>12 DEF OpenFile, Opens, session
    <3>2. fpc = "read"
      BY <2>3, <3>1 DEF Quiet
    <3>3. PICK d \in Seq(Bytes) : \E n \in 0 .. Len(d) :
            /\ d = disk[Provider][file].data /\ ~Early(d)
            /\ Reads(n, d, disk[fetcher][file].data)
      BY <2>5, <3>1, <3>2
    <3>4. PICK n \in 0 .. Len(d) :
            /\ d = disk[Provider][file].data /\ ~Early(d)
            /\ Reads(n, d, disk[fetcher][file].data)
      BY <3>3
    <3>5. PICK got : got = disk[fetcher][file].data
      OBVIOUS
    <3>6. Reads(n, d, got)
      BY <3>4, <3>5, Zenon
    <3>7. Ordered(n) /\ n = 0 /\ p = file
      BY <3>1, <3>6 DEF Reads, Ordered, Sending, Sent
    <3>8. Sending(0, d)'
      BY <3>1, <3>4, <3>7, OpenStep
    <3>9. Reads(n, d, got)'
      BY <3>6, <3>7, <3>8 DEF Reads
    <3>10. Provider' = Provider
      BY <2>3, <3>1
    <3> QED BY <3>1, <3>2, <3>4, <3>5, <3>9, <3>10
  <2> HIDE DEF Goal
  <2> QED BY <1>0, <1>2, <2>2, <2>6, <2>7, <2>8, <2>9, <2>10, <2>11, <2>12, LiveToLive
<1> QED BY <1>1, <1>2

-----------------------------------------------------------------------------
(* The content of the files both have.                                     *)
LEMMA SameDataStays ==
  ASSUME cur' = cur, now' = now, before' = before,
         NEW p, IsFile(disk[cur], p), Agreed(p), SameData(p),
         Kept(cur, p), Kept(Server, p) \/ Replaceable(p)
  PROVE  SameData(p)'
<1>0. CASE Replaceable(p)
  <2>1. (Hurried /\ GivenNow(p))'
    BY <1>0 DEF Replaceable, Hurried, GivenNow
  <2> QED BY <2>1 DEF SameData
<1> SUFFICES ASSUME ~Replaceable(p) PROVE SameData(p)'
  BY <1>0
<1>1. Exists(disk[cur], p) /\ Exists(disk[Server], p)
  BY DEF Agreed, SameKind, IsFile, IsFolder
<1>2. disk'[cur][p] = disk[cur][p] /\ disk'[Server][p] = disk[Server][p]
  BY <1>1 DEF Kept
<1> QED BY <1>2 DEF SameData, Replaceable

(* When the last block of a file has been read both have the same, or it   *)
(* is a binary file.                                                       *)
LEMMA ReadSettles ==
  ASSUME TypeOK, Live, Requested, Streams, Read, ~HasEarly(Provider), cur' = cur
  PROVE  Settled(file)'
<1>1. /\ fetcher \in {Server, cur} /\ Provider \in {Server, cur} /\ Provider # fetcher
      /\ fetcher \in Hosts /\ Provider \in Hosts
  BY SessionHosts DEF Live, Sane
<1>2. fpc = "read" /\ file' = file
  BY DEF Read, ReadBytes
<1>3. PICK d \in Seq(Bytes) : \E n \in 0 .. Len(d) :
        /\ d = disk[Provider][file].data /\ ~Early(d)
        /\ Reads(n, d, disk[fetcher][file].data)
  BY <1>2, SendingFile
<1>4. PICK n \in 0 .. Len(d) :
        /\ d = disk[Provider][file].data /\ ~Early(d)
        /\ Reads(n, d, disk[fetcher][file].data)
  BY <1>3
<1>5. PICK got : got = disk[fetcher][file].data
  OBVIOUS
<1>6. PICK gets : gets = disk'[fetcher][file].data
  OBVIOUS
<1>7. Reads(n, d, got)
  BY <1>4, <1>5, Zenon
<1>8. /\ disk'[fetcher][file] = File(gets)
      /\ fpc' = "read" \/ (fpc' = "sync" /\ (Plain(d) => gets = d))
  BY <1>4, <1>5, <1>6, <1>7, ReadOutcome
<1>9. disk'[Provider][file] = File(d)
  <2>1. disk[Provider][file] = File(d)
    BY <1>1, <1>2, <1>4, FileData DEF Requested
  <2>2. disk'[Provider] = disk[Provider]
    BY <1>1, ReadEffect
  <2> QED BY <2>1, <2>2
<1>10. CASE fpc' = "read"
  BY <1>2, <1>10 DEF Settled, Reading
<1>11. CASE Plain(d) /\ gets = d
  <2>1. disk'[cur'][file'] = disk'[Server][file']
    BY <1>1, <1>2, <1>8, <1>9, <1>11
  <2> QED BY <2>1 DEF Settled, SameData
<1>12. CASE ~Plain(d)
  <2>1. disk'[Provider][file].data = d
    BY <1>9 DEF File
  <2>2. ~Plain(disk'[Server][file'].data) \/ ~Plain(disk'[cur'][file'].data)
    BY <1>1, <1>2, <1>12, <2>1
  <2> QED BY <2>2 DEF Settled, SameData
<1> QED BY <1>8, <1>10, <1>11, <1>12

LEMMA ContentsBegin ==
  ASSUME TypeOK, Remembered, NEW c \in Clients, Begin(c), Live'
  PROVE  /\ \A p \in DOMAIN disk'[cur'] : Pending(cur, p)'
         /\ ~ClientHalf'
<1>1. /\ conn[c] = "waiting" /\ cur' = c /\ fetcher' = Server /\ list' = Entries(tree[c])
      /\ disk' = disk /\ c # Server /\ c \in clean
  BY HostsApart DEF Begin, luck, Live, Sane
<1>2. tree[c] = TreeOf(disk[c])
  BY <1>1 DEF Remembered
<1>3. \A p \in DOMAIN disk[c] : Pending(c, p)'
  BY <1>1, <1>2, EntryParts, TreeParts DEF Pending, Exists
<1> QED BY <1>1, <1>3 DEF ClientHalf

(* The server fetches.                                                     *)
LEMMA OfferedContents ==
  ASSUME TypeOK, Fresh, Remembered, Live, Shape, Streams, Live', cur' = cur,
         now' = now, before' = before, ServerHalf, fetcher' = fetcher, ServerHalf', ~HasEarly(cur),
         \/ Stays
         \/ \E e \in list : SyncFolder(e) \/ KeepOwn(e) \/ AskFile(e)
         \/ Read \/ SendBlock
         \/ \E p : OpenFile(p),
         NEW p, IsFile(disk'[cur], p),
         IsFile(disk[cur], p) => Pending(cur, p) \/ Settled(p)
  PROVE  Pending(cur, p)' \/ Settled(p)'
<1>1. /\ cur \in Hosts /\ Server \in Hosts /\ Provider = cur /\ cur # Server /\ fpc # "over"
      /\ fetcher = Server /\ IsDirectory(disk[cur])
  BY SessionHosts DEF ServerHalf, Provider
<1>2. CASE disk' = disk /\ list' = list /\ file' = file /\ fpc' = fpc
  BY <1>2 DEF Pending, Settled, Reading, SameData, Hurried, GivenNow
<1>3. CASE Stays \/ SendBlock \/ \E q : OpenFile(q)
  BY <1>2, <1>3 DEF Stays, transfer, SendBlock, OpenFile
<1>4. ASSUME NEW e \in list, KeepOwn(e) PROVE FALSE
  BY <1>1, <1>4 DEF KeepOwn, Keeps
<1>5. ASSUME NEW e \in list, SyncFolder(e) PROVE Pending(cur, p)' \/ Settled(p)'
  <2>1. /\ e.kind = "dir" /\ list' = list \ {e} /\ fpc = "sync" /\ fpc' = "sync"
    BY <1>5 DEF SyncFolder, Entry, Syncing
  <2>2. disk'[cur] = disk[cur] /\ Kept(Server, p) /\ Kept(cur, p)
    BY <1>1, <1>5, FolderEffect
  <2>3. IsFile(disk[cur], p) /\ p \in DOMAIN disk[cur]
    BY <2>2 DEF IsFile, Exists
  <2>4. e = [p |-> e.p, kind |-> disk[cur][e.p].kind]
    BY <1>1, Listed
  <2>5. Pending(cur, p) => Pending(cur, p)'
    BY <2>1, <2>2, <2>3, <2>4 DEF Pending, IsFile, Exists
  <2>6. CASE ~Pending(cur, p)
    <3>1. SameData(p)
      BY <2>1, <2>3, <2>6 DEF Settled, Reading
    <3>2. Agreed(p)
      BY <2>3, <2>6 DEF Shape, Offered
    <3> QED BY <2>2, <2>3, <3>1, <3>2, SameDataStays DEF Settled
  <2> QED BY <2>5, <2>6
<1>6. ASSUME NEW e \in list, AskFile(e) PROVE Pending(cur, p)' \/ Settled(p)'
  <2>1. /\ e.kind = "file" /\ list' = list \ {e} /\ fpc = "sync" /\ fpc' = "read" /\ file' = e.p
    BY <1>6 DEF AskFile, Fetches, Entry, Syncing
  <2>2. disk'[cur] = disk[cur] /\ (p \in DOMAIN disk[cur] /\ p # e.p => Kept(Server, p) \/ Replaceable(p))
    BY <1>1, <1>6, FileEffect, OfferedFile
  <2>3. IsFile(disk[cur], p) /\ p \in DOMAIN disk[cur] /\ Kept(cur, p)
    BY <2>2 DEF IsFile, Exists, Kept
  <2>4. e = [p |-> e.p, kind |-> disk[cur][e.p].kind]
    BY <1>1, Listed
  <2>5. CASE p = e.p
    BY <2>1, <2>5 DEF Settled, Reading
  <2>6. Pending(cur, p) /\ p # e.p => Pending(cur, p)'
    BY <2>1, <2>2, <2>3, <2>4 DEF Pending, IsFile, Exists
  <2>7. CASE ~Pending(cur, p) /\ p # e.p
    <3>1. SameData(p)
      BY <2>1, <2>3, <2>7 DEF Settled, Reading
    <3>2. Agreed(p)
      BY <2>3, <2>7 DEF Shape, Offered
    <3> QED BY <2>2, <2>3, <2>7, <3>1, <3>2, SameDataStays DEF Settled
  <2> QED BY <2>5, <2>6, <2>7
<1>7. CASE Read
  <2>1. fpc = "read" /\ file' = file /\ list' = list
    BY <1>7 DEF Read, ReadBytes
  <2>2. disk'[cur] = disk[cur] /\ (p # file => Kept(Server, p))
    BY <1>1, <1>7, ReadEffect
  <2>3. IsFile(disk[cur], p) /\ p \in DOMAIN disk[cur] /\ Kept(cur, p)
    BY <2>2 DEF IsFile, Exists, Kept
  <2>4. CASE p = file
    <3>1. Settled(file)'
      BY <1>1, <1>7, ReadSettles DEF Shape
    <3>2. PICK f : f = file
      OBVIOUS
    <3> QED BY <2>1, <2>4, <3>1 DEF Settled, Reading, SameData, Hurried, GivenNow
  <2>5. Pending(cur, p) => Pending(cur, p)'
    BY <2>1, <2>2 DEF Pending, Exists
  <2>6. CASE ~Pending(cur, p) /\ p # file
    <3>1. SameData(p)
      BY <2>3, <2>6 DEF Settled, Reading
    <3>2. Agreed(p)
      BY <2>3, <2>6 DEF Shape, Offered
    <3> QED BY <2>2, <2>3, <2>6, <3>1, <3>2, SameDataStays DEF Settled
  <2> QED BY <2>4, <2>5, <2>6
<1> QED BY <1>3, <1>4, <1>5, <1>6, <1>7

(* The client fetches.                                                     *)
LEMMA ReturnedContents ==
  ASSUME TypeOK, Fresh, Remembered, Live, Shape, Streams, Live', cur' = cur,
         now' = now, before' = before, ClientHalf, fetcher' = fetcher, ~HasEarly(Server),
         \/ Stays
         \/ \E e \in list : SyncFolder(e) \/ KeepOwn(e) \/ AskFile(e)
         \/ Read \/ Finish \/ SendBlock
         \/ \E p : OpenFile(p),
         NEW p, IsFile(disk'[cur], p), IsFile(disk[cur], p) => Settled(p)
  PROVE  Settled(p)'
<1>1. /\ cur \in Hosts /\ Server \in Hosts /\ Provider = Server /\ cur # Server
      /\ fetcher = cur /\ Returned
  BY SessionHosts DEF ClientHalf, Provider, Shape
<1>2. CASE disk' = disk /\ file' = file /\ fpc' = fpc
  BY <1>2 DEF Settled, Reading, SameData, Hurried, GivenNow
<1>3. CASE Stays \/ SendBlock \/ (\E q : OpenFile(q)) \/ \E e \in list : KeepOwn(e)
  BY <1>2, <1>3 DEF Stays, transfer, SendBlock, OpenFile, KeepOwn
<1>4. CASE Finish
  <2>1. disk' = disk /\ fpc # "read"
    BY <1>4 DEF Finish, AllSynced, Syncing
  <2>2. SameData(p)
    BY <2>1 DEF Settled, Reading
  <2> QED BY <2>1, <2>2 DEF Settled, SameData, Hurried, GivenNow
<1>5. ASSUME IsFile(disk[cur], p), SameData(p), Kept(cur, p), Kept(Server, p)
      PROVE  Settled(p)'
  <2>1. Agreed(p)
    BY <1>1, <1>5 DEF Returned, IsFile, Exists
  <2> QED BY <1>5, <2>1, SameDataStays DEF Settled
<1>6. ASSUME NEW e \in list, SyncFolder(e) PROVE Settled(p)'
  <2>1. fpc = "sync"
    BY <1>6 DEF SyncFolder, Entry, Syncing
  <2>2. /\ Kept(cur, p) /\ Kept(Server, p)
        /\ p \in DOMAIN disk'[cur] =>
             p \in DOMAIN disk[cur] \/ (p = e.p /\ disk'[cur][p] = Folder)
    BY <1>1, <1>6, FolderEffect
  <2>3. IsFile(disk[cur], p)
    BY <2>2 DEF IsFile, Exists, Kept, Folder
  <2> QED BY <1>5, <2>1, <2>2, <2>3 DEF Settled, Reading
<1>7. ASSUME NEW e \in list, AskFile(e) PROVE Settled(p)'
  <2>1. fpc = "sync" /\ fpc' = "read" /\ file' = e.p
    BY <1>7 DEF AskFile, Fetches, Entry, Syncing
  <2>2. CASE p = e.p
    BY <2>1, <2>2 DEF Settled, Reading
  <2>3. CASE p # e.p
    <3>1. /\ Kept(cur, p) /\ disk'[Server] = disk[Server]
          /\ Exists(disk'[cur], p) => Exists(disk[cur], p) \/ p = e.p
      BY <1>1, <1>7, FileEffect
    <3>2. IsFile(disk[cur], p) /\ Kept(Server, p)
      BY <2>3, <3>1 DEF IsFile, Kept
    <3> QED BY <1>5, <2>1, <3>1, <3>2 DEF Settled, Reading
  <2> QED BY <2>2, <2>3
<1>8. CASE Read
  <2>1. fpc = "read" /\ file' = file
    BY <1>8 DEF Read, ReadBytes
  <2>2. CASE p = file
    <3>1. Settled(file)'
      BY <1>1, <1>8, ReadSettles DEF Shape
    <3>2. PICK f : f = file
      OBVIOUS
    <3> QED BY <2>1, <2>2, <3>1 DEF Settled, Reading, SameData, Hurried, GivenNow
  <2>3. CASE p # file
    <3>1. Kept(cur, p) /\ disk'[Server] = disk[Server] /\ DOMAIN disk'[cur] = DOMAIN disk[cur]
      BY <1>1, <1>8, <2>3, ReadEffect
    <3>2. IsFile(disk[cur], p) /\ Kept(Server, p)
      BY <3>1 DEF IsFile, Exists, Kept
    <3> QED BY <1>5, <2>3, <3>1, <3>2 DEF Settled, Reading
  <2> QED BY <2>2, <2>3
<1> QED BY <1>3, <1>4, <1>6, <1>7, <1>8

LEMMA ContentsStep ==
  ASSUME FreshInv, Remembered, Shape, Streams, Contents, [Next]_vars
  PROVE  Contents'
<1> SUFFICES ASSUME Live', ~HasEarly(cur)'
             PROVE  /\ ServerHalf' => \A p \in DOMAIN disk'[cur'] :
                         IsFile(disk'[cur'], p) => Pending(cur, p)' \/ Settled(p)'
                    /\ ClientHalf' /\ ~HasEarly(Server)' => \A p \in DOMAIN disk'[cur'] :
                         IsFile(disk'[cur'], p) => Settled(p)'
  BY DEF Contents
<1>0. TypeOK /\ Locked /\ Fresh
  BY DEF FreshInv
<1>1. CASE ~Live
  BY <1>0, <1>1, BecomesLive, ContentsBegin
<1>2. CASE Live
  <2>1. /\ cur' = cur /\ cur # Nobody /\ cur # Server /\ cur \in Hosts /\ Server \in Hosts
        /\ fetcher \in {Server, cur} /\ now' = now /\ before' = before
    BY <1>0, <1>2, LiveToLive, SessionHosts DEF Live, Sane
  <2>2. ~HasEarly(cur)
    <3>1. PICK h \in {Server, cur} : h = cur
      OBVIOUS
    <3>2. ~HasEarly(h)'
      BY <2>1, <3>1 DEF HasEarly
    <3> QED BY <1>2, <2>1, <3>1, <3>2, ProviderEarly
  <2>3. /\ ServerHalf => \A p \in DOMAIN disk[cur] :
             IsFile(disk[cur], p) => Pending(cur, p) \/ Settled(p)
        /\ ClientHalf /\ ~HasEarly(Server) => \A p \in DOMAIN disk[cur] :
             IsFile(disk[cur], p) => Settled(p)
    BY <1>2, <2>2 DEF Contents
  <2>4. CASE Turn
    <3>1. /\ disk' = disk /\ list = {} /\ fetcher = Server /\ fpc = "sync" /\ fpc' = "sync"
          /\ fetcher' = cur /\ ServerHalf
      BY <2>1, <2>4 DEF Turn, Turned, AllSynced, Syncing, Running, ServerHalf
    <3>2. ~ServerHalf'
      BY <2>1, <3>1 DEF ServerHalf
    <3>3. \A p \in DOMAIN disk[cur] : IsFile(disk[cur], p) => SameData(p)
      BY <2>3, <3>1 DEF Pending, Settled, Reading
    <3> QED BY <2>1, <3>1, <3>2, <3>3 DEF Settled, SameData, Hurried, GivenNow
  <2>5. CASE ~Turn
    <3>1. /\ fetcher' = fetcher
          /\ \/ Stays
             \/ \E e \in list : SyncFolder(e) \/ KeepOwn(e) \/ AskFile(e)
             \/ Read \/ Finish \/ SendBlock
             \/ \E q : OpenFile(q)
      <4>1. \/ Stays
            \/ \E e \in list : SyncFolder(e) \/ KeepOwn(e) \/ AskFile(e)
            \/ Read \/ Finish \/ SendBlock
            \/ \E q : OpenFile(q)
        BY <1>0, <1>2, <2>5, LiveToLive
      <4> QED BY <4>1 DEF Stays, SyncFolder, KeepOwn, AskFile, Read, ReadBytes, Finish,
                          SendBlock, OpenFile, session
    <3>2. ASSUME ServerHalf', NEW p \in DOMAIN disk'[cur'], IsFile(disk'[cur'], p)
          PROVE  Pending(cur, p)' \/ Settled(p)'
      <4>1. ServerHalf
        <5>1. \A c \in Clients : ~Begin(c)
          BY <2>1 DEF Begin
        <5> QED BY <1>0, <3>2, <5>1, HalfSteps
      <4>2. ~Finish
        BY <3>2 DEF Finish, ServerHalf
      <4>3. IsFile(disk[cur], p) => Pending(cur, p) \/ Settled(p)
        BY <2>3, <4>1 DEF IsFile, Exists
      <4>4. IsFile(disk'[cur], p)
        BY <2>1, <3>2
      <4> QED BY <1>0, <1>2, <2>1, <2>2, <3>1, <3>2, <4>1, <4>2, <4>3, <4>4, OfferedContents
    <3>3. ASSUME ClientHalf', ~HasEarly(Server)',
                 NEW p \in DOMAIN disk'[cur'], IsFile(disk'[cur'], p)
          PROVE  Settled(p)'
      <4>1. ClientHalf
        BY <2>1, <3>1, <3>3 DEF ClientHalf
      <4>2. ~HasEarly(Server)
        <5>1. PICK h \in {Server, cur} : h = Server
          OBVIOUS
        <5>2. ~HasEarly(h)'
          BY <3>3, <5>1 DEF HasEarly
        <5>3. ~ServerHalf
          BY <2>1, <4>1 DEF ServerHalf, ClientHalf
        <5> QED BY <1>2, <2>1, <5>1, <5>2, <5>3, ProviderEarly
      <4>3. IsFile(disk[cur], p) => Settled(p)
        BY <2>3, <4>1, <4>2 DEF IsFile, Exists
      <4>4. IsFile(disk'[cur], p)
        BY <2>1, <3>3
      <4> QED BY <1>0, <1>2, <2>1, <3>1, <4>1, <4>2, <4>3, <4>4, ReturnedContents
    <3> QED BY <3>2, <3>3
  <2> QED BY <2>4, <2>5
<1> QED BY <1>1, <1>2

-----------------------------------------------------------------------------
(* The fetcher at the end, and the sessions without faults.                *)
LEMMA OverStep ==
  ASSUME [Next]_vars, fpc # "over", fpc' = "over", cur' # Nobody
  PROVE  Finish
<1>1. CASE UNCHANGED vars
  BY <1>1 DEF vars, transfer
<1>2. ASSUME NEW c \in Clients, Connect(c) \/ Begin(c) PROVE fpc' = fpc \/ fpc' = "sync"
  BY <1>2 DEF Connect, Begin, transfer
<1>3. ASSUME NEW e \in list, SyncFile(e) PROVE fpc' = fpc \/ fpc' = "read"
  BY <1>3 DEF SyncFile, SyncFolder, KeepOwn, AskFile, AskGone, CannotCreate
<1>4. ASSUME NEW n, ReadBytes(n) PROVE fpc' \in {"sync", "read"}
  BY <1>4 DEF ReadBytes
<1>5. CASE Fetch
  BY <1>3, <1>4, <1>5 DEF Fetch, Read, ReadEOF, Turn, TurnGarbled, Turned
<1>6. CASE Provide
  BY <1>6 DEF Provide, OpenFile, CannotOpen, SendBlock, transfer
<1>7. CASE Unlucky
  BY <1>4, <1>7 DEF Unlucky, ReadSplit, TurnSplit, Removal, RemoveNode, Crash, transfer
<1>8. CASE Leave \/ SurvivorExits \/ Restart
  BY <1>8 DEF Leave, SurvivorExits, Restart, transfer
<1> QED BY <1>1, <1>2, <1>5, <1>6, <1>7, <1>8 DEF Next

LEMMA LuckyStep ==
  ASSUME TypeOK, [Next]_vars, faults' = 0
  PROVE  /\ faults = 0 /\ ~Unlucky
         /\ clean' = clean \/ \E c \in Clients : Connect(c)
<1>1. faults \in Nat
  BY DEF TypeOK
<1>2. ~Unlucky
  BY <1>1 DEF Unlucky, ReadSplit, TurnSplit, Removal, RemoveNode, Crash, Fault
<1>3. ASSUME NEW c \in Clients, Connect(c) \/ Begin(c)
      PROVE  faults' = faults /\ (clean' = clean \/ Connect(c))
  BY <1>3 DEF Connect, Begin, luck
<1>4. ASSUME NEW e \in list, SyncFile(e) PROVE UNCHANGED luck
  BY <1>4 DEF SyncFile, SyncFolder, KeepOwn, AskFile, AskGone, CannotCreate
<1>5. CASE Fetch
  BY <1>2, <1>4, <1>5 DEF Fetch, Read, ReadEOF, Turn, TurnGarbled, Turned, Finish, luck
<1>6. CASE Provide
  BY <1>2, <1>6 DEF Provide, OpenFile, CannotOpen, SendBlock, luck
<1>7. CASE Leave \/ SurvivorExits \/ Restart
  BY <1>2, <1>7 DEF Leave, SurvivorExits, Restart, luck
<1>8. CASE UNCHANGED vars
  BY <1>2, <1>8 DEF vars, luck
<1> QED BY <1>2, <1>3, <1>5, <1>6, <1>7, <1>8 DEF Next

LEMMA LifecycleStep ==
  ASSUME TypeOK, Lifecycle, [Next]_vars
  PROVE  Lifecycle'
<1>1. ASSUME cur' # Nobody, fpc' = "over" PROVE fetcher' = cur' /\ list' = {}
  <2>1. CASE fpc # "over"
    BY <1>1, <2>1, OverStep DEF Finish, AllSynced, session
  <2>2. CASE fpc = "over"
    <3>1. ASSUME NEW c \in Clients, Connect(c) \/ Begin(c) PROVE Connect(c) /\ UNCHANGED << transfer, cur, fetcher >>
      BY <1>1, <3>1 DEF Connect, Begin
    <3>2. ~Turn /\ ~TurnGarbled /\ ~Leave /\ ~Restart
      BY <1>1, <2>2 DEF Turn, TurnGarbled, Turned, AllSynced, Syncing, Leave, Restart
    <3> QED BY <1>1, <2>2, <3>1, <3>2, SessionSteps DEF Lifecycle, transfer, session
  <2> QED BY <2>1, <2>2
<1>2. ASSUME faults' = 0, NEW c \in Clients, conn'[c] # "out" PROVE c \in clean'
  <2>1. faults = 0 /\ ~Unlucky /\ (clean' = clean \/ \E d \in Clients : Connect(d))
    BY <1>2, LuckyStep
  <2>2. conn \in [Clients -> {"out", "waiting", "in"}]
    BY DEF TypeOK
  <2>3. conn[c] # "out" => c \in clean
    BY <2>1 DEF Lifecycle
  <2>4. ASSUME NEW d \in Clients, Connect(d) PROVE c \in clean'
    BY <1>2, <2>2, <2>3, <2>4 DEF Connect
  <2>5. ASSUME NEW d \in Clients, Begin(d) PROVE conn[c] # "out"
    BY <1>2, <2>2, <2>5 DEF Begin
  <2>6. CASE Leave \/ Restart
    BY <1>2, <2>2, <2>3, <2>6 DEF Leave, Restart, luck
  <2>7. conn' = conn => conn[c] # "out"
    BY <1>2
  <2> QED BY <2>1, <2>3, <2>4, <2>5, <2>6, <2>7, SessionSteps
          DEF Turn, TurnGarbled, Turned, session, Begin, luck
<1> QED BY <1>1, <1>2 DEF Lifecycle

-----------------------------------------------------------------------------
(* What a client remembers.                                                *)
LEMMA OthersKept ==
  ASSUME TypeOK, [Next]_vars, ~Removal, NEW h \in Hosts, disk'[h] # disk[h]
  PROVE  h = fetcher /\ cur # Nobody /\ fetcher \in up /\ fpc # "over"
<1>1. DOMAIN disk = Hosts /\ \A x \in Hosts : IsDirectory(disk[x])
  BY DEF TypeOK
<1>2. ASSUME Running PROVE cur # Nobody /\ fetcher \in up /\ fpc # "over" /\ fetcher \in Hosts
  BY <1>2 DEF Running, TypeOK
<1>3. ASSUME NEW e \in list, MakesFolder(e) \/ MakesFile(e) \/ OnlyRenames(e)
      PROVE  Running /\ h = fetcher
  BY <1>1, <1>3 DEF MakesFolder, MakesFile, OnlyRenames, Fetches, Entry, Syncing
<1>4. ASSUME NEW n \in Nat, Writes(n) PROVE Running /\ h = fetcher
  <2>1. Running /\ SubSeq(wire, 1, n) \in Seq(Bytes)
    BY <1>4, CutParts DEF Writes, TypeOK
  <2> QED BY <1>2, <1>4, <2>1, WriteOutDirectory DEF Writes
<1> QED BY <1>2, <1>3, <1>4, DiskSteps

(* While it waits, and while the server fetches, a client's directory is   *)
(* not touched.                                                            *)
LEMMA RememberedStep ==
  ASSUME TypeOK, Locked, Remembered, [Next]_vars
  PROVE  Remembered'
<1> SUFFICES ASSUME NEW c \in clean', conn'[c] = "waiting" \/ (ServerHalf' /\ c = cur')
             PROVE  tree'[c] = TreeOf(disk'[c])
  BY DEF Remembered
<1>1. /\ clean \subseteq Clients /\ clean' \subseteq Clients /\ DOMAIN tree = Clients
      /\ conn \in [Clients -> {"out", "waiting", "in"}] /\ c \in Clients /\ c \in Hosts
      /\ c # Server
  BY NextTyped, HostsApart DEF TypeOK
<1>2. ASSUME NEW d \in Clients, Connect(d) PROVE tree'[c] = TreeOf(disk'[c])
  <2>1. disk' = disk /\ tree' = [tree EXCEPT ![d] = TreeOf(disk[d])]
        /\ conn' = [conn EXCEPT ![d] = "waiting"] /\ clean' = clean \cup {d} /\ conn[d] = "out"
    BY <1>2 DEF Connect
  <2>2. ServerHalf' => ServerHalf /\ cur' = cur
    BY <1>2 DEF Connect, ServerHalf, transfer
  <2> QED BY <1>1, <2>1, <2>2 DEF Remembered
<1>3. ASSUME NEW d \in Clients, Begin(d) PROVE tree'[c] = TreeOf(disk'[c])
  BY <1>1, <1>3 DEF Begin, Remembered, luck
<1>4. ASSUME \A d \in Clients : ~Connect(d) /\ ~Begin(d)
      PROVE  tree'[c] = TreeOf(disk'[c])
  <2>1. ~Removal
    BY <1>1 DEF Removal, RemoveNode, Fault
  <2>2. tree' = tree /\ (conn'[c] = "waiting" => conn[c] = "waiting")
    BY <1>1, <1>4, SessionSteps DEF Turn, TurnGarbled, Turned, Leave, Restart, session
  <2>3. ServerHalf' => ServerHalf /\ cur' = cur
    BY <1>4, HalfSteps
  <2>4. c \in clean
    <3>1. ASSUME NEW e \in list, SyncFile(e) PROVE UNCHANGED luck
      BY <3>1 DEF SyncFile, SyncFolder, KeepOwn, AskFile, AskGone, CannotCreate
    <3>2. CASE Fetch
      BY <3>1, <3>2 DEF Fetch, Read, ReadEOF, Turn, TurnGarbled, Turned, Finish, luck
    <3>3. CASE Provide
      BY <3>3 DEF Provide, OpenFile, CannotOpen, SendBlock, luck
    <3>4. CASE Leave \/ SurvivorExits \/ Restart
      BY <3>4 DEF Leave, SurvivorExits, Restart, luck
    <3>5. CASE UNCHANGED vars
      BY <3>5 DEF vars, luck
    <3>6. CASE Unlucky
      BY <3>6 DEF Unlucky, ReadSplit, TurnSplit, Removal, RemoveNode, Crash, Fault
    <3> QED BY <1>4, <3>2, <3>3, <3>4, <3>5, <3>6 DEF Next, luck
  <2>5. disk'[c] = disk[c]
    <3>1. ASSUME disk'[c] # disk[c] PROVE FALSE
      <4>1. c = fetcher /\ cur # Nobody
        BY <1>1, <2>1, <3>1, OthersKept
      <4>2. c = cur /\ conn[c] = "in"
        BY <1>1, <4>1, SessionHosts DEF Locked
      <4> QED BY <1>1, <2>2, <2>3, <4>1, <4>2 DEF ServerHalf
    <3> QED BY <3>1
  <2> QED BY <2>2, <2>3, <2>4, <2>5 DEF Remembered
<1> QED BY <1>2, <1>3, <1>4

-----------------------------------------------------------------------------
(* Why the server's process may end.                                       *)
LEMMA ClientKinds ==
  ASSUME TypeOK, [Next]_vars, ~Removal, NEW c \in Clients, NEW q
  PROVE  KindKept(c, q)
<1>1. CASE ~(fpc = "read" /\ fetcher = c /\ file = q)
  BY <1>1, ClientStep DEF KindKept, Exists
<1>2. CASE fpc = "read" /\ fetcher = c /\ file = q
  <2>1. \A e : ~MakesFolder(e) /\ ~MakesFile(e) /\ ~OnlyRenames(e)
    BY <1>2 DEF MakesFolder, MakesFile, OnlyRenames, Fetches, Entry, Syncing
  <2>2. CASE UNCHANGED disk
    BY <2>2 DEF KindKept
  <2>3. ASSUME NEW n \in Nat, Writes(n) PROVE KindKept(c, q)
    <3>1. /\ cur # Nobody /\ SubSeq(wire, 1, n) \in Seq(Bytes)
          /\ disk' = WriteOut(SubSeq(wire, 1, n))
      BY <2>3, CutParts DEF Writes, Running, TypeOK
    <3>2. CASE IsFile(disk[c], q)
      <4>1. disk'[c][q] = File(disk[c][q].data \o Text(SubSeq(wire, 1, n)))
            /\ DOMAIN disk'[c] = DOMAIN disk[c]
        BY <1>2, <3>1, <3>2, WriteOutDirectory
      <4> QED BY <3>2, <4>1 DEF KindKept, IsFile, Exists, File
    <3>3. CASE ~IsFile(disk[c], q)
      BY <1>2, <3>1, <3>3 DEF WriteOut, KindKept
    <3> QED BY <3>2, <3>3
  <2> QED BY <2>1, <2>2, <2>3, DiskSteps
<1> QED BY <1>1, <1>2

(* A client finds the folder of what it fetches.                           *)
LEMMA ClientCreates ==
  ASSUME TypeOK, Fresh, Remembered, Live, Shape, ClientHalf, NEW e \in Heads(list),
         fpc # "over"
  PROVE  InFolder(disk[cur], e.p)
<1>1. Provider = Server /\ Returned
  BY SessionHosts DEF ClientHalf, Provider, Shape
<1> SUFFICES ASSUME ~InFolder(disk[cur], e.p) PROVE FALSE
  OBVIOUS
<1>2. Len(e.p) # 1 /\ ~IsFolder(disk[cur], Front(e.p))
  BY DEF InFolder
<1>3. IsFolder(disk[Server], Front(e.p)) /\ ~Pending(Server, Front(e.p))
  BY <1>1, <1>2, HeadFront
<1>4. Agreed(Front(e.p)) /\ Exists(disk[cur], Front(e.p))
  BY <1>1, <1>3 DEF Returned, IsFolder, Exists
<1> QED BY <1>2, <1>3, <1>4 DEF Agreed, SameKind, IsFolder

(* A file the server cannot create is in a folder that met a file, or it   *)
(* meets a node that could not be renamed, in a hurried session.           *)
LEMMA ServerCannot ==
  ASSUME TypeOK, Fresh, Remembered, Live, Shape, ServerHalf, NEW e \in list,
         CannotCreate(e), cur' = cur
  PROVE  Excused'
<1>1. /\ cur \in Hosts /\ cur # Server /\ Server \in Hosts /\ Provider = cur
      /\ IsDirectory(disk[cur]) /\ IsDirectory(disk[Server]) /\ fpc # "over" /\ fetcher = Server
      /\ DOMAIN disk = Hosts /\ now \in Nat
  BY SessionHosts DEF ServerHalf, Provider, TypeOK
<1>2. Fetches(e) /\ e \in Heads(list) /\ ~CanCreate(Renamed(disk[Server], e.p), e.p)
  BY <1>1 DEF CannotCreate, Fetches, Entry
<1>3. disk'[Server] = Renamed(disk[Server], e.p) /\ disk'[cur] = disk[cur]
  BY <1>1 DEF CannotCreate
<1>4. e.p \in Paths /\ e.p \in DOMAIN disk[cur]
  BY <1>1, Listed
<1>5. CASE Exists(Renamed(disk[Server], e.p), e.p)
  <2>1. /\ Renamed(disk[Server], e.p) = disk[Server] /\ Exists(disk[Server], Stamped(e.p))
        /\ ~Movable(disk[Server], e.p, Stamped(e.p))
    BY <1>1, <1>4, <1>5, RenamedParts
  <2>2. /\ disk'[Server] = disk[Server] /\ Stamped(e.p)' = Stamped(e.p)
        /\ tree' = tree /\ now' = now /\ before' = before
    BY <1>3, <2>1 DEF CannotCreate, session, Stamped
  <2>3. Hurried'
    <3>1. Stamped(e.p) = StampedAt(e.p, now)
      BY DEF Stamped, StampedAt
    <3> QED BY <2>1, <2>2, <3>1 DEF Fresh, Hurried
  <2>4. e.p \in DOMAIN tree[cur] /\ tree[cur][e.p] = "file"
    BY <1>2 DEF Fresh, Entries, Fetches, Entry
  <2>5. Clash(e.p)'
    BY <1>5, <2>1, <2>2 DEF Clash
  <2> QED BY <2>2, <2>3, <2>4, <2>5 DEF Excused
<1> SUFFICES ASSUME ~Exists(Renamed(disk[Server], e.p), e.p) PROVE Excused'
  BY <1>5
<1>6. Len(e.p) # 1 /\ ~IsFolder(Renamed(disk[Server], e.p), Front(e.p))
  BY <1>2 DEF CanCreate, InFolder
<1>7. /\ Front(e.p) \in Paths /\ ~IsPrefix(e.p, Front(e.p))
      /\ IsFolder(disk[cur], Front(e.p)) /\ ~Pending(cur, Front(e.p))
  BY <1>1, <1>2, <1>6, HeadFront
<1>8. ~IsFolder(disk[Server], Front(e.p))
  BY <1>1, <1>2, <1>6, <1>7, RenameEffect DEF IsFolder
<1>9. Agreed(Front(e.p))
  BY <1>7 DEF Shape, Offered, IsFolder, Exists
<1>10. PICK q \in DOMAIN disk[cur] : IsPrefix(q, Front(e.p)) /\ BlockedFolder(cur, q)
  BY <1>7, <1>8, <1>9, AgreedFolder DEF Blocked
<1>11. ~IsPrefix(e.p, q)
  <2>1. q \in Paths
    BY <1>1 DEF IsDirectory
  <2> QED BY <1>4, <1>7, <1>10, <2>1, PrefixOrder
<1>12. Exists(disk'[Server], q) /\ disk'[Server][q].kind = disk[Server][q].kind
  BY <1>1, <1>2, <1>3, <1>10, <1>11, RenameEffect DEF BlockedFolder, IsFile
<1>13. BlockedFolder(cur, q)'
  BY <1>3, <1>10, <1>12 DEF BlockedFolder, IsFolder, IsFile
<1> QED BY <1>12, <1>13 DEF Excused, Exists

LEMMA EndedStep ==
  ASSUME FreshInv, Remembered, Ended, Shape, Streams, [Next]_vars
  PROVE  Ended'
<1> SUFFICES ASSUME Sane' PROVE up' = Hosts \/ (Server \notin up' /\ Excused')
  BY DEF Ended
<1>0. TypeOK /\ Locked /\ Fresh
  BY DEF FreshInv
<1>1. ASSUME NEW c \in Clients, Begin(c) PROVE up' = Hosts
  BY <1>1 DEF Begin
<1>2. ASSUME Sane, cur' = cur, now' = now, before' = before, up' \subseteq up, ~Unlucky
      PROVE  up' = Hosts \/ (Server \notin up' /\ Excused')
  <2>1. /\ cur \in Clients /\ cur # Nobody /\ cur # Server /\ fetcher \in {Server, cur}
        /\ cur \in Hosts /\ Server \in Hosts /\ ~Removal /\ DOMAIN disk = Hosts
    BY <1>0, <1>2, SessionHosts DEF Sane, Unlucky
  <2>2. CASE up # Hosts
    <3>1. Server \notin up /\ Excused
      BY <1>2, <2>2 DEF Ended
    <3>2. disk'[Server] = disk[Server]
      BY <1>0, <2>1, <3>1, OthersKept
    <3>3. HasEarly(cur) => HasEarly(cur)'
      <4>1. PICK h \in Hosts : h = cur /\ h # Server
        BY <2>1
      <4>2. HasEarly(h) => HasEarly(h)'
        BY <2>1, <4>1, EarlyStays
      <4> QED BY <1>2, <4>1, <4>2 DEF HasEarly
    <3>4. \A p : BlockedFolder(cur, p) => BlockedFolder(cur, p)'
      <4>1. \A q : KindKept(cur, q)
        BY <1>0, <2>1, ClientKinds
      <4> QED BY <1>2, <3>2, <4>1 DEF BlockedFolder, KindKept, IsFolder, IsFile, Exists
    <3>5. tree' = tree
      BY <1>2, <2>1, <2>2, SessionSteps
         DEF Connect, Begin, Turn, TurnGarbled, Turned, Leave, Restart, session
    <3>6. \A p : Clash(p) => Clash(p)'
      BY <1>2, <3>2 DEF Clash, Stamped
    <3>7. Hurried => Hurried'
      BY <1>2 DEF Hurried
    <3> QED BY <1>2, <3>1, <3>2, <3>3, <3>4, <3>5, <3>6, <3>7 DEF Excused
  <2>3. CASE up = Hosts
    <3>1. Live /\ Requested
      BY <1>2, <2>3 DEF Live, Shape
    <3>2. CASE TurnGarbled
      <4>1. /\ fetcher = Server /\ fpc = "sync" /\ wire # << >> /\ disk' = disk
            /\ up' = up \ {Server}
        <5>1. DOMAIN << >> = {}
          OBVIOUS
        <5>2. ~MayGarble \/ wire # << >>
          BY <5>1 DEF MayGarble
        <5> QED BY <3>2, <5>2 DEF TurnGarbled, Turned, AllSynced, Syncing
      <4>2. Provider = cur
        BY <4>1 DEF Provider
      <4>3. HasEarly(cur)
        BY <3>1, <4>1, <4>2 DEF Streams
      <4> QED BY <1>2, <4>1, <4>3 DEF Excused, HasEarly
    <3>3. ASSUME NEW p, CannotOpen(p) PROVE FALSE
      <4>1. asked # << >> /\ p = Head(asked) /\ ~IsFile(disk[Provider], p) /\ asked \in Seq(Paths)
        BY <1>0, <3>3 DEF CannotOpen, Opens, TypeOK
      <4>2. 1 \in DOMAIN asked /\ p = asked[1]
        BY <4>1
      <4> QED BY <3>1, <4>1, <4>2 DEF Requested
    <3>4. ASSUME NEW e \in list, CannotCreate(e)
          PROVE  Server \notin up' /\ Excused'
      <4>1. fpc # "over" /\ Fetches(e) /\ e \in Heads(list)
        BY <3>4 DEF CannotCreate, Fetches, Entry, Syncing
      <4>2. CASE fetcher = cur
        <5>1. ClientHalf
          BY <2>1, <4>2 DEF ClientHalf
        <5>2. InFolder(disk[cur], e.p)
          BY <1>0, <3>1, <4>1, <5>1, ClientCreates
        <5>3. ~Exists(disk[cur], e.p) /\ Renamed(disk[cur], e.p) = disk[cur]
          BY <2>1, <4>1, <4>2, ClientFetches
        <5> QED BY <3>4, <4>2, <5>2, <5>3 DEF CannotCreate, CanCreate
      <4>3. CASE fetcher = Server
        <5>1. ServerHalf
          BY <2>1, <4>1, <4>3 DEF ServerHalf
        <5>2. Excused'
          BY <1>0, <1>2, <3>1, <3>4, <5>1, ServerCannot
        <5> QED BY <3>4, <4>3, <5>2 DEF CannotCreate
      <4> QED BY <2>1, <4>2, <4>3
    <3>5. CASE Stays
      BY <2>3, <3>5 DEF Stays
    <3>6. ASSUME NEW e \in list, SyncFolder(e) \/ KeepOwn(e) \/ AskFile(e) PROVE up' = Hosts
      BY <2>3, <3>6 DEF SyncFolder, KeepOwn, AskFile
    <3>7. CASE Read \/ Turn \/ Finish \/ SendBlock
      BY <2>3, <3>7 DEF Read, ReadBytes, Turn, Finish, SendBlock
    <3>8. ASSUME NEW p, OpenFile(p) PROVE up' = Hosts
      BY <2>3, <3>8 DEF OpenFile
    <3> QED BY <1>0, <3>1, <3>2, <3>3, <3>4, <3>5, <3>6, <3>7, <3>8, LiveSteps
  <2> QED BY <2>2, <2>3
<1> QED BY <1>0, <1>1, <1>2, SaneSteps

-----------------------------------------------------------------------------
(* The invariant is one.                                                   *)
LEMMA InvariantInitial == Init => Invariant
<1> SUFFICES ASSUME Init PROVE Invariant
  OBVIOUS
<1>1. FreshInv
  BY FreshInitial
<1>2. cur = Nobody /\ clean = {} /\ conn = [c \in Clients |-> "out"]
  BY DEF Init
<1>3. ~Sane /\ ~Live
  BY <1>2 DEF Live, Sane
<1>4. Lifecycle /\ Remembered
  BY <1>2 DEF Lifecycle, Remembered
<1> QED BY <1>1, <1>3, <1>4 DEF Invariant, Ended, Shape, Streams, Contents

LEMMA InvariantInductive ==
  ASSUME Invariant, [Next]_vars
  PROVE  Invariant'
<1>1. /\ FreshInv /\ Lifecycle /\ Remembered /\ Ended /\ Shape /\ Streams /\ Contents
      /\ TypeOK /\ Locked
  BY DEF Invariant, FreshInv
<1>2. FreshInv'
  BY <1>1, FreshInductive
<1>3. Lifecycle' /\ Remembered' /\ Ended' /\ Shape'
  BY <1>1, LifecycleStep, RememberedStep, EndedStep, ShapeStep
<1>4. Streams' /\ Contents'
  BY <1>1, <1>3, StreamsStep, ContentsStep
<1> QED BY <1>2, <1>3, <1>4 DEF Invariant

LEMMA InvariantHolds == Spec => []Invariant
<1>1. Init => Invariant
  BY InvariantInitial
<1>2. Invariant /\ [Next]_vars => Invariant'
  BY InvariantInductive
<1> QED BY <1>1, <1>2, PTL DEF Spec

-----------------------------------------------------------------------------
LEMMA InvariantSynchronised == Invariant => Synchronised
<1> SUFFICES ASSUME Invariant, cur # Nobody, fpc = "over", cur \in clean,
                    ~HasEarly(cur), ~HasEarly(Server)
             PROVE  /\ wire = << >>
                    /\ DOMAIN disk[Server] \subseteq DOMAIN disk[cur]
                    /\ \A p \in DOMAIN disk[cur] :
                         \/ Blocked(cur, p)
                         \/ /\ Exists(disk[Server], p)
                            /\ disk[Server][p].kind = disk[cur][p].kind
                            /\ \/ disk[cur][p] = disk[Server][p]
                               \/ ~Plain(disk[cur][p].data) \/ ~Plain(disk[Server][p].data)
                               \/ Hurried /\ GivenNow(p)
  BY Zenon DEF Synchronised
<1>1. TypeOK /\ Locked /\ Lifecycle /\ Shape /\ Streams /\ Contents
  BY DEF Invariant, FreshInv
<1>2. /\ Live /\ ClientHalf /\ Provider = Server /\ list = {} /\ cur # Server
      /\ IsDirectory(disk[cur]) /\ IsDirectory(disk[Server])
  BY <1>1, SessionHosts DEF Locked, Lifecycle, Live, Sane, ClientHalf, Provider
<1>3. wire = << >>
  BY <1>1, <1>2 DEF Streams
<1>4. DOMAIN disk[Server] \subseteq DOMAIN disk[cur]
  BY <1>1, <1>2 DEF Shape, Returned, Pending, Exists
<1>5. ASSUME NEW p \in DOMAIN disk[cur], ~Blocked(cur, p)
      PROVE  /\ Exists(disk[Server], p) /\ disk[Server][p].kind = disk[cur][p].kind
             /\ \/ disk[cur][p] = disk[Server][p]
                \/ ~Plain(disk[cur][p].data) \/ ~Plain(disk[Server][p].data)
                \/ Hurried /\ GivenNow(p)
  <2>1. Exists(disk[Server], p) /\ disk[Server][p].kind = disk[cur][p].kind
    BY <1>1, <1>2, <1>5 DEF Shape, Returned, Agreed, SameKind
  <2>2. CASE disk[cur][p].kind = "file"
    <3>1. Settled(p)
      BY <1>1, <1>2, <2>2 DEF Contents, IsFile, Exists
    <3> QED BY <2>1, <3>1 DEF Settled, Reading, SameData
  <2>3. CASE disk[cur][p].kind = "dir"
    BY <1>2, <2>1, <2>3 DEF IsDirectory, Exists
  <2>4. disk[cur][p].kind \in {"dir", "file"}
    BY <1>2 DEF IsDirectory, Nodes, Kinds
  <2> QED BY <2>2, <2>3, <2>4
<1> QED BY <1>3, <1>4, <1>5

LEMMA InvariantServerEnds == Invariant => ServerEnds
<1> SUFFICES ASSUME Invariant, Server \notin up, ~(faults > 0)
             PROVE  Excused
  BY Zenon DEF ServerEnds, Excused
<1>1. TypeOK /\ Locked /\ Lifecycle /\ Ended
  BY DEF Invariant, FreshInv
<1>2. faults = 0 /\ Server \in Hosts
  BY <1>1, HostsApart DEF TypeOK
<1>3. cur \in Clients /\ conn[cur] = "in" /\ cur # Nobody
  BY <1>1, <1>2 DEF Locked, TypeOK
<1>4. Sane
  BY <1>1, <1>2, <1>3 DEF Lifecycle, Sane
<1> QED BY <1>1, <1>2, <1>4 DEF Ended

LEMMA InvariantOddHangs == Invariant => OnlyOddHangs
<1> SUFFICES ASSUME Invariant, Hung, cur \in clean, ~HasEarly(Provider)
             PROVE  Odd(disk[Provider][file].data)
  BY Zenon DEF OnlyOddHangs
<1>1. TypeOK /\ Locked /\ Ended /\ Shape /\ Streams
  BY DEF Invariant, FreshInv
<1>2. /\ cur # Nobody /\ fetcher \in up /\ Provider \in up /\ fpc = "read"
      /\ asked = << >> /\ ppc = "wait" /\ wire = << >>
  BY DEF Hung, Running, Connected, Quiet
<1>3. Live /\ Requested
  BY <1>1, <1>2, SessionHosts DEF Ended, Live, Sane, Shape
<1>4. PICK d \in Seq(Bytes) : \E n \in 0 .. Len(d) :
        /\ d = disk[Provider][file].data /\ ~Early(d)
        /\ Reads(n, d, disk[fetcher][file].data)
  BY <1>1, <1>2, <1>3, SendingFile
<1>5. PICK n \in 0 .. Len(d) : Reads(n, d, disk[fetcher][file].data)
  BY <1>4
<1>6. n % ReadBlock = 0 /\ Sent(n, d)
  BY <1>2, <1>5 DEF Reads, Ordered, Sending
<1>7. PICK s : s = Stream(d)
  OBVIOUS
<1>8. /\ s \in Seq(Bytes) /\ Len(d) <= Len(s)
      /\ Len(d) % WriteBlock = 0 => Len(s) = Len(d) + 1
  BY <1>7, StreamParts, Zenon
<1>9. n \in 0 .. Len(s) /\ Len(s) \in Nat /\ Len(d) \in Nat
  BY <1>8
<1>10. Part(s, n, Len(s)) = << >>
  BY <1>2, <1>6, <1>7 DEF Sent
<1>11. Len(s) - n = 0
  <2>1. Len(Part(s, n, Len(s))) = Len(s) - n
    BY <1>8, <1>9, PartRest, Zenon
  <2>2. Len(<< >>) = 0
    OBVIOUS
  <2> QED BY <2>1, <2>2, <1>10, Zenon
<1>12. n = Len(d) /\ Len(d) % WriteBlock # 0
  BY <1>8, <1>9, <1>11
<1> QED BY <1>4, <1>6, <1>12 DEF Odd

-----------------------------------------------------------------------------
(* When a session in which nothing went wrong is over, client and server   *)
(* have the same directory and nothing is left in the socket, for every    *)
(* set of clients, every directory to begin with, every size of the blocks *)
(* and any number of sessions before, whatever happened in them. The       *)
(* exceptions are Synchronised's own: binary files, a client's folder that *)
(* meets a file, a file that ends early and, in a session that begins in   *)
(* the second of the one before, files with names given in that second     *)
(* (syncServer and syncClient, syncFileServer.c; syncFile,                 *)
(* commonSyncFile.c).                                                      *)
THEOREM SessionsSynchronise == Spec => []Synchronised
BY InvariantHolds, InvariantSynchronised, PTL

(* The server's process ends in the initial synchronisation only after a   *)
(* kill or a removal, or because a client's folder met a file, or because  *)
(* a file of the client's ended early, or because a rename met what the    *)
(* session before renamed in the same second: never otherwise does it fail *)
(* to open what is asked for or to create what it was sent (the exits of   *)
(* handleSyncGetRequests and syncFile, renameFileWithUnique).              *)
THEOREM ServerEndsForAReason == Spec => []ServerEnds
BY InvariantHolds, InvariantServerEnds, PTL

(* In a session in which nothing went wrong fetcher and provider wait for  *)
(* each other only over a file whose size is a multiple of the fetcher's   *)
(* block and not of the provider's (readAndWriteFileFromFd,                *)
(* fileOperations.c; handleSyncGetRequests, commonSyncFile.c).             *)
THEOREM HangsOnlyOverOddSizes == Spec => []OnlyOddHangs
BY InvariantHolds, InvariantOddHangs, PTL
==============================================================================
