------------------------- MODULE TokenParserProofs -------------------------
(***************************************************************************)
(* Proofs about TokenParser, for any paths, contents and directories, and  *)
(* any sizes of the block and of pathBuffer: its types; that the receiver  *)
(* is in step with the sender between any two messages as long as the      *)
(* contents are plain; and what becomes of a message and of the receiver's *)
(* place whatever the contents are. For the last, FollowInv says where the *)
(* receiver is at each symbol of a message.                                *)
(***************************************************************************)
EXTENDS TokenParser, SequenceTheorems, WellFoundedInduction, TLAPS

-----------------------------------------------------------------------------
(* Types.                                                                  *)

LEMMA SymbolParts ==
  /\ Open \in Symbols /\ Close \in Symbols /\ Nul \in Symbols
  /\ Tokens \subseteq Symbols /\ Slashed \subseteq Symbols
  /\ {Open, Close, Nul} \cap Tokens = {} /\ Slashed \cap (Tokens \cup {Open, Close, Nul}) = {}
  /\ Open # Close /\ Open # Nul /\ Close # Nul
  BY TurnAssumption DEF Symbols, Tokens, Open, Close, Nul

(* What is said of a path and of a content.                                *)
LEMMA PathString ==
  ASSUME NEW p \in Known \cup New
  PROVE  p \in Seq(Slashed) /\ p \in Strings /\ p # << >>
  BY TurnAssumption, SymbolParts, SeqMonotonic DEF Strings

LEMMA TokenString == ASSUME NEW n \in Tokens PROVE Token(n) \in Strings
  BY SymbolParts DEF Token, Strings

(* A non-empty set of numbers has a least one.                             *)
LEMMA MinParts ==
  ASSUME NEW I \in SUBSET Nat, I # {}
  PROVE  Min(I) \in I /\ \A x \in I : Min(I) <= x
<1>1. IsWellFoundedOn(OpToRel(<, Nat), Nat)
  BY NatLessThanWellFounded
<1>2. \E x \in I : \A y \in I : << y, x >> \notin OpToRel(<, Nat)
  BY <1>1, WFMin, Zenon
<1>3. \A x, y \in I : << y, x >> \in OpToRel(<, Nat) <=> y < x
  BY DEF OpToRel
<1>4. \E x \in I : \A y \in I : x <= y
  <2>1. PICK x \in I : \A y \in I : << y, x >> \notin OpToRel(<, Nat)
    BY <1>2, Zenon
  <2>2. \A y \in I : ~(y < x)
    BY <1>3, <2>1, Zenon
  <2>3. \A y \in I : x <= y
    BY <2>2
  <2> QED BY <2>3
<1> QED BY <1>4 DEF Min

(* The C string in a buffer is the buffer, when there is no 0 in it.       *)
LEMMA CStringParts ==
  ASSUME NEW b \in Strings
  PROVE  CString(b) \in Strings /\ (~Contains(b, Nul) => CString(b) = b)
<1> DEFINE I == {i \in DOMAIN b : b[i] = Nul}
<1>1. Len(b) \in Nat /\ DOMAIN b = 1 .. Len(b) /\ \A i \in 1 .. Len(b) : b[i] \in Symbols
  BY LenProperties, ElementOfSeq DEF Strings
<1>2. CASE Contains(b, Nul)
  <2>1. I \in SUBSET Nat /\ I # {}
    BY <1>1, <1>2 DEF Contains
  <2>2. Min(I) \in I
    BY <2>1, MinParts
  <2>3. Min(I) \in 1 .. Len(b)
    BY <1>1, <2>2
  <2>4. \A i \in 1 .. Min(I) - 1 : b[i] \in Symbols
    BY <1>1, <2>3
  <2>5. 1 \in Int /\ Min(I) - 1 \in Int
    BY <1>1, <2>3
  <2>6. SubSeq(b, 1, Min(I) - 1) \in Strings
    BY <2>4, <2>5, SubSeqProperties DEF Strings
  <2> QED BY <1>2, <2>6 DEF CString
<1>3. CASE ~Contains(b, Nul)
  BY <1>3 DEF CString
<1> QED BY <1>2, <1>3

(* What is sent for a message.                                             *)
LEMMA WireString ==
  ASSUME NEW k \in Kinds, NEW p \in Known \cup New, NEW t \in Texts \cup {<< >>}
  PROVE  Wire(Message(k, p, t)) \in Strings
<1>1. p \in Strings /\ t \in Strings
  <2>1. << >> \in Strings
    BY DEF Strings
  <2> QED BY <2>1, PathString, TurnAssumption
<1>2. \A n \in Tokens : Token(n) \in Strings
  BY TokenString
<1>3. << Open >> \in Strings /\ << Close >> \in Strings /\ << >> \in Strings
  BY SymbolParts DEF Strings
<1>4. \A a, b \in Strings : a \o b \in Strings
  BY ConcatProperties DEF Strings
<1>5. << Open >> \o p \o << Close >> \in Strings
  BY <1>1, <1>3, <1>4
<1>6. Payload(t) \in Strings
  <2>1. Token("EMPTY_FILE") \in Strings
    BY <1>2 DEF Tokens
  <2> QED BY <1>1, <1>3, <1>4, <2>1 DEF Payload
<1>7. \A n \in {"SYNC_FILE", "SYNC_FOLDER", "SYNC_DONE"} : Token(n) \in Strings
  BY <1>2 DEF Tokens
<1>8. PICK q \in Strings : q = << Open >> \o p \o << Close >>
  BY <1>5
<1>9. PICK u \in Strings : u = Payload(t)
  BY <1>6
<1>10. CASE k \in {"update", "file"}
  <2>1. Wire(Message(k, p, t)) = Token("SYNC_FILE") \o q \o u \o Token("SYNC_DONE")
    BY <1>8, <1>9, <1>10 DEF Wire, Message
  <2> QED BY <1>4, <1>7, <2>1
<1>11. CASE k = "folder"
  <2>1. Wire(Message(k, p, t)) = Token("SYNC_FOLDER") \o q \o Token("SYNC_DONE")
    BY <1>8, <1>11 DEF Wire, Message
  <2> QED BY <1>4, <1>7, <2>1
<1>12. CASE k = "delete"
  BY <1>8, <1>12 DEF Wire, Message
<1> QED BY <1>10, <1>11, <1>12 DEF Kinds

(* What is done to a directory leaves one.                                 *)
LEMMA ChangedTyped ==
  ASSUME NEW dk, Typed(dk), NEW p \in Strings, NEW t \in Strings
  PROVE  /\ Typed(Put(dk, p, File(t))) /\ Typed(Without(dk, p))
         /\ Typed(WriteFile(dk, p, t)) /\ Typed(MakeFolder(dk, p))
<1>1. ASSUME NEW n, n.kind \in {"dir", "file"}, n.text \in Strings PROVE Typed(Put(dk, p, n))
  BY <1>1 DEF Put, Typed
<1>2. File(t).kind \in {"dir", "file"} /\ File(t).text \in Strings
  BY DEF File
<1>3. Folder.kind \in {"dir", "file"} /\ Folder.text \in Strings
  BY DEF Folder, Strings
<1>4. Typed(Put(dk, p, File(t))) /\ Typed(Put(dk, p, Folder))
  BY <1>1, <1>2, <1>3
<1>5. Typed(Without(dk, p))
  BY DEF Without, Typed
<1> QED BY <1>4, <1>5 DEF WriteFile, MakeFolder

(* There is a file to write a content to.                                  *)
TypeInv == TypeOK /\ (loop = "content" => IsFile(disk, path))

(* A turn starts with every variable in its type.                          *)
LEMMA InitTypeOK == Init => TypeInv
<1> SUFFICES ASSUME Init PROVE TypeInv
  OBVIOUS
<1>1. << >> \in Strings
  BY DEF Strings
<1>2. Typed(disk) /\ Typed(old)
  BY DiskAssumption DEF Init
<1> QED BY <1>1, <1>2 DEF Init, TypeInv, TypeOK, Loops

(* What the sender says keeps the types.                                   *)
LEMMA SendTypeOK == ASSUME TypeInv, Send PROVE TypeInv'
<1> USE DEF TypeInv, IsFile
<1>1. ASSUME NEW k \in Kinds, NEW p \in Known \cup New, NEW t \in Texts \cup {<< >>},
             Say(Message(k, p, t))
      PROVE  TypeInv'
  <2>1. wire' \in Strings
    BY <1>1, WireString DEF Say
  <2>2. sent' \in Seq([kind : Kinds, path : Known \cup New, text : Texts \cup {<< >>}])
    <3>1. Message(k, p, t) \in [kind : Kinds, path : Known \cup New, text : Texts \cup {<< >>}]
      BY DEF Message
    <3> QED BY <1>1, <3>1, AppendProperties DEF TypeOK, Say
  <2> QED BY <1>1, <2>1, <2>2 DEF TypeOK, Say, flags, Typed
<1>2. ASSUME NEW a, NEW b \in {"update", "delete", "create", "done", "sent"}, NEW w \in Strings,
             SendTokens(a, b, w)
      PROVE  TypeInv'
  BY <1>2 DEF TypeOK, SendTokens, flags, Typed
<1>3. \A n \in Tokens : Token(n) \in Strings
  BY TokenString
<1>4. \A n, m \in Tokens : Token(n) \o Token(m) \in Strings
  BY <1>3, ConcatProperties DEF Strings
<1>5. CASE EndUpdates \/ EndDeletes \/ EndCreates \/ EndTurn
  BY <1>2, <1>3, <1>4, <1>5 DEF EndUpdates, EndDeletes, EndCreates, EndTurn, Tokens
<1>6. ASSUME NEW p \in Known, NEW t \in Texts, SendUpdate(p, t) PROVE TypeInv'
  BY <1>1, <1>6 DEF SendUpdate, Kinds
<1>7. ASSUME NEW p \in Known, SendDelete(p) PROVE TypeInv'
  BY <1>1, <1>7 DEF SendDelete, Kinds
<1>8. ASSUME NEW p \in New, NEW t \in Texts, SendFile(p, t) PROVE TypeInv'
  BY <1>1, <1>8 DEF SendFile, Kinds
<1>9. ASSUME NEW p \in New, SendFolder(p) PROVE TypeInv'
  BY <1>1, <1>9 DEF SendFolder, Kinds
<1> QED BY <1>5, <1>6, <1>7, <1>8, <1>9 DEF Send

(* A symbol is read, and the receiver goes on.                             *)
Reading ==
  \/ TopOpen \/ TopText \/ TopClose
  \/ PathOpen \/ PathText \/ UpdatePath \/ DeletePath
  \/ ContentOpen \/ ContentText \/ ContentClose
  \/ CreateOpen \/ CreateText \/ CreateClose

LEMMA ReceiveCases == Receive => Reading \/ CreateCrash
  BY DEF Receive, Reading

(* What fits in pathBuffer is copied as it is.                             *)
LEMMA CopiesParts ==
  ASSUME NEW b \in Strings
  PROVE  /\ \A p \in Copies(b) : p \in Strings
         /\ Len(b) <= PathSize => Copies(b) = {b}
<1>1. Len(b) \in Nat /\ PathSize \in Nat /\ \A i \in 1 .. Len(b) : b[i] \in Symbols
  BY LenProperties, ElementOfSeq, TurnAssumption DEF Strings
<1>2. ASSUME NEW n \in PathSize .. Len(b)
      PROVE  SubSeq(b, 1, n) \in Strings /\ (n = Len(b) => SubSeq(b, 1, n) = b)
  <2>1. 1 \in Int /\ n \in Int /\ \A i \in 1 .. n : b[i] \in Symbols
    BY <1>1
  <2>2. /\ SubSeq(b, 1, n) \in Strings
        /\ Len(SubSeq(b, 1, n)) = IF 1 <= n THEN n - 1 + 1 ELSE 0
        /\ \A i \in 1 .. n - 1 + 1 : SubSeq(b, 1, n)[i] = b[1 + i - 1]
    BY <2>1, SubSeqProperties DEF Strings
  <2>3. ASSUME n = Len(b) PROVE SubSeq(b, 1, n) = b
    <3>1. Len(SubSeq(b, 1, n)) = Len(b)
      BY <1>1, <2>2, <2>3
    <3>2. \A i \in 1 .. Len(b) : SubSeq(b, 1, n)[i] = b[i]
      BY <1>1, <2>2, <2>3
    <3> QED BY <2>2, <3>1, <3>2, SeqEqual DEF Strings
  <2> QED BY <2>2, <2>3
<1>3. Len(b) <= PathSize => \A n \in PathSize .. Len(b) : n = Len(b)
  BY <1>1
<1> QED BY <1>2, <1>3 DEF Copies

(* So does what the receiver makes of a symbol.                            *)
LEMMA ReadingTypeOK == ASSUME TypeInv, Reading PROVE TypeInv'
<1> USE DEF TypeInv
<1>20. ASSUME NEW dk, NEW p, NEW t PROVE IsFile(Put(dk, p, File(t)), p)
  BY DEF IsFile, Put, File
<1>1. wire # << >> /\ wire' = Tail(wire) /\ UNCHANGED sender
  BY DEF Reading, TopOpen, TopText, TopClose, PathOpen, PathText, UpdatePath, DeletePath,
         ContentOpen, ContentText, ContentClose, CreateOpen, CreateText, CreateClose, Reads
<1>2. Symbol \in Symbols /\ wire' \in Strings
  BY <1>1, HeadTailProperties DEF TypeOK, Strings, Symbol
<1>3. << >> \in Strings /\ Append(buf, Symbol) \in Strings
  BY <1>2, AppendProperties DEF TypeOK, Strings
<1>4. AppendText => buf' \in Strings
  BY <1>3 DEF AppendText, TypeOK
<1>5. /\ phase' \in {"update", "delete", "create", "done", "sent"}
      /\ sent' \in Seq([kind : Kinds, path : Known \cup New, text : Texts \cup {<< >>}])
      /\ Typed(old')
  BY <1>1 DEF TypeOK, sender, Typed
<1>6. buf \in Strings /\ path \in Strings /\ Typed(disk) /\ CString(buf) \in Strings
  BY CStringParts DEF TypeOK
<1>7. ASSUME NEW t \in Strings, loop = "content", Write(t)
      PROVE  Typed(disk') /\ IsFile(disk', path)
  <2>1. disk[path].text \o t \in Strings
    BY <1>6, <1>7, ConcatProperties DEF Typed, Strings, IsFile
  <2> QED BY <1>6, <1>7, <1>20, <2>1, ChangedTyped DEF Write
<1> USE DEF flags
<1>8. CASE TopOpen \/ TopText \/ TopClose
  BY <1>2, <1>3, <1>5, <1>8
     DEF TypeOK, TopOpen, TopText, TopClose, Entered, Loops, Stopped, Typed, Reads
<1>9. CASE PathOpen \/ PathText
  BY <1>2, <1>4, <1>5, <1>9 DEF TypeOK, PathOpen, PathText, Typed, Reads
<1>10. CASE UpdatePath
  <2>1. Typed(Put(disk, buf, File(<< >>)))
    BY <1>3, <1>6, ChangedTyped
  <2>2. Typed(disk')
    BY <1>6, <1>10, <2>1 DEF UpdatePath, Typed
  <2>3. (loop = "content" => IsFile(disk, path))'
    BY <1>10, <1>20 DEF UpdatePath
  <2>4. loop' \in Loops
    BY <1>10 DEF UpdatePath, Loops, Stopped
  <2>5. path' \in Strings /\ buf' = << >> /\ flag' = 0 /\ UNCHANGED flags
    BY <1>6, <1>10 DEF UpdatePath
  <2> QED BY <1>2, <1>3, <1>5, <2>2, <2>3, <2>4, <2>5 DEF TypeOK
<1>11. CASE DeletePath
  <2>1. Typed(disk')
    BY <1>3, <1>6, <1>11, ChangedTyped DEF DeletePath, Typed
  <2> QED BY <1>2, <1>3, <1>5, <1>11, <2>1 DEF TypeOK, DeletePath, Loops, Reads
<1>12. CASE CreateOpen
  <2>1. Typed(disk')
    BY <1>3, <1>6, <1>12, ChangedTyped DEF CreateOpen, Typed
  <2> QED BY <1>2, <1>3, <1>5, <1>12, <2>1 DEF TypeOK, CreateOpen, Reads
<1>13. CASE CreateText
  BY <1>2, <1>4, <1>5, <1>13 DEF TypeOK, CreateText, Typed, Reads
<1>14. CASE CreateClose
  <2>1. Typed(MakeFolder(disk, buf))
    BY <1>6, ChangedTyped
  <2>2. disk' = disk \/ disk' = MakeFolder(disk, buf)
    BY <1>14 DEF CreateClose, CloseFolder
  <2>3. Typed(disk')
    BY <1>6, <2>1, <2>2
  <2>4. loop = "create" /\ loop' \in {"top", "create"}
    BY <1>14 DEF CreateClose, Reads
  <2>5. buf' \in Strings /\ path' \in Copies(buf) \cup {path} /\ flag' = flag
    BY <1>3, <1>14 DEF CreateClose, CloseFile
  <2>7. path' \in Strings
    BY <1>6, <2>5, CopiesParts
  <2>6. /\ fileFlag' \in {fileFlag, 0, 1} /\ folderFlag' \in {folderFlag, 0, 1}
        /\ count' \in {count, 0, 1}
    BY <1>14 DEF CreateClose, CloseFile, CloseFolder
  <2> QED BY <1>2, <1>5, <1>6, <2>3, <2>4, <2>5, <2>6, <2>7 DEF TypeOK, Loops
<1>15. CASE ContentOpen
  <2>1. (IF flag = 1 THEN << Open >> ELSE << >>) \o CString(buf) \in Strings
    <3>1. << Open >> \in Strings
      BY SymbolParts DEF Strings
    <3> QED BY <1>3, <1>6, <3>1, ConcatProperties DEF Strings
  <2>2. Typed(disk') /\ IsFile(disk', path)
    BY <1>7, <1>15, <2>1 DEF ContentOpen, Reads
  <2> QED BY <1>2, <1>3, <1>5, <1>15, <2>2 DEF TypeOK, ContentOpen
<1>16. CASE ContentText
  BY <1>2, <1>3, <1>5, <1>16 DEF TypeOK, ContentText, Typed, IsFile
<1>17. CASE ContentClose
  <2>1. Typed(disk') /\ (IsFile(disk', path) \/ loop' = "top")
    BY <1>6, <1>7, <1>17 DEF ContentClose, Reads, Typed
  <2>2. loop' \in {loop, "top"}
    BY <1>17 DEF ContentClose
  <2> QED BY <1>2, <1>3, <1>5, <1>17, <2>1, <2>2 DEF TypeOK, ContentClose, Loops
<1> QED BY <1>8, <1>9, <1>10, <1>11, <1>12, <1>13, <1>14, <1>15, <1>16, <1>17 DEF Reading

LEMMA ReceiveTypeOK == ASSUME TypeInv, Receive PROVE TypeInv'
<1>1. CASE CreateCrash
  <2>1. << >> \in Strings
    BY DEF Strings
  <2> QED BY <1>1, <2>1 DEF CreateCrash, TypeInv, TypeOK, Typed, Loops, Stopped, sender, flags
<1> QED BY <1>1, ReceiveCases, ReadingTypeOK

(* Every variable keeps its type, whatever the files of a turn hold and    *)
(* however the receiver misreads them.                                     *)
THEOREM TypeCorrect == Spec => []TypeOK
<1>1. TypeInv /\ [Next]_vars => TypeInv'
  <2> SUFFICES ASSUME TypeInv, [Next]_vars PROVE TypeInv'
    OBVIOUS
  <2>1. CASE UNCHANGED vars
    BY <2>1 DEF vars, TypeInv, TypeOK, Typed, IsFile
  <2> QED BY <2>1, SendTypeOK, ReceiveTypeOK DEF Next
<1>2. TypeInv => TypeOK
  BY DEF TypeInv
<1> QED BY <1>1, <1>2, InitTypeOK, PTL DEF Spec

-----------------------------------------------------------------------------
(* Sequences of symbols.                                                   *)

LEMMA Joined ==
  /\ << >> \in Strings
  /\ \A x \in Symbols : << x >> \in Strings
  /\ \A a, b \in Strings : a \o b \in Strings
  /\ \A a, b, c \in Strings : (a \o b) \o c = a \o (b \o c)
  /\ \A a \in Strings : a \o << >> = a /\ << >> \o a = a
<1>1. << >> \in Strings /\ \A x \in Symbols : << x >> \in Strings
  BY DEF Strings
<1>2. \A a, b \in Strings : a \o b \in Strings
  BY ConcatProperties DEF Strings
<1>3. \A a, b, c \in Strings : (a \o b) \o c = a \o (b \o c)
  BY ConcatAssociative DEF Strings
<1>4. \A a \in Strings : a \o << >> = a /\ << >> \o a = a
  BY ConcatEmptySeq DEF Strings
<1> QED BY <1>1, <1>2, <1>3, <1>4

(* Concatenation as an operator that the provers do not look into.         *)
Cat(a, b) == a \o b

LEMMA CatAssoc ==
  ASSUME NEW a \in Strings, NEW b \in Strings, NEW c \in Strings
  PROVE  Cat(a, b) \in Strings /\ Cat(Cat(a, b), c) = Cat(a, Cat(b, c))
  BY Joined DEF Cat

LEMMA Three ==
  ASSUME NEW x \in Symbols, NEW y \in Symbols, NEW z \in Symbols
  PROVE  << x, y, z >> = << x >> \o (<< y >> \o << z >>)
<1>1. << x >> \in Strings /\ << y >> \in Strings /\ << z >> \in Strings /\ << x, y, z >> \in Strings
  BY DEF Strings
<1>2. PICK u \in Strings : u = << y >> \o << z >>
  BY <1>1, Joined
<1>3. Len(u) = 2 /\ u[1] = y /\ u[2] = z
  BY <1>1, <1>2, ConcatProperties DEF Strings
<1>4. PICK v \in Strings : v = << x >> \o u
  BY <1>1, Joined
<1>5. Len(v) = 3 /\ v[1] = x /\ v[2] = y /\ v[3] = z
  BY <1>1, <1>3, <1>4, ConcatProperties DEF Strings
<1>6. \A i \in 1 .. 3 : v[i] = << x, y, z >>[i]
  BY <1>5
<1> QED BY <1>1, <1>2, <1>4, <1>5, <1>6, SeqEqual DEF Strings

(* The next symbol of what is on its way, when q comes before r.           *)
LEMMA NextSymbol ==
  ASSUME NEW q \in Strings, q # << >>, NEW r \in Strings
  PROVE  /\ q \o r # << >> /\ Head(q \o r) = Head(q) /\ Tail(q \o r) = Tail(q) \o r
         /\ Head(q) \in Symbols /\ Tail(q) \in Strings
         /\ \A b \in Strings : /\ Append(b, Head(q)) \in Strings
                               /\ Append(b, Head(q)) \o Tail(q) = b \o q
                               /\ (b \o << Head(q) >>) \o Tail(q) = b \o q
<1>1. PICK x \in Symbols, s \in Strings : x = Head(q) /\ s = Tail(q)
  BY HeadTailProperties DEF Strings
<1>2. /\ Len(q) \in Nat \ {0} /\ q[1] = x /\ Len(s) = Len(q) - 1
      /\ \A i \in 1 .. Len(s) : s[i] = q[i + 1]
  BY <1>1, HeadTailProperties, EmptySeq DEF Strings
<1>3. q = << x >> \o s
  <2>1. << x >> \o s \in Strings /\ Len(<< x >> \o s) = Len(q)
    BY <1>2, Joined, ConcatProperties DEF Strings
  <2>2. \A i \in 1 .. Len(q) : (<< x >> \o s)[i] = q[i]
    BY <1>2, Joined, ConcatProperties DEF Strings
  <2> QED BY <2>1, <2>2, SeqEqual DEF Strings
<1>4. q \o r = << x >> \o (s \o r)
  BY <1>3, Joined
<1>5. PICK u \in Strings : u = s \o r
  BY Joined
<1>6. /\ << x >> \o u # << >> /\ Head(<< x >> \o u) = x /\ Tail(<< x >> \o u) = u
  <2>1. << x >> \o u \in Strings /\ Len(<< x >> \o u) = Len(u) + 1 /\ (<< x >> \o u)[1] = x
        /\ Len(u) \in Nat
    BY Joined, ConcatProperties, LenProperties DEF Strings
  <2>2. << x >> \o u # << >>
    BY <2>1, EmptySeq
  <2>3. /\ Head(<< x >> \o u) = (<< x >> \o u)[1]
        /\ Tail(<< x >> \o u) \in Strings /\ Len(Tail(<< x >> \o u)) = Len(u)
        /\ \A i \in 1 .. Len(u) : Tail(<< x >> \o u)[i] = (<< x >> \o u)[i + 1]
    BY <2>1, <2>2, HeadTailProperties DEF Strings
  <2>4. \A i \in 1 .. Len(u) : (<< x >> \o u)[i + 1] = u[i]
    BY <2>1, Joined, ConcatProperties DEF Strings
  <2> QED BY <2>1, <2>2, <2>3, <2>4, SeqEqual DEF Strings
<1>7. ASSUME NEW b \in Strings
      PROVE  /\ Append(b, x) \in Strings
             /\ Append(b, x) \o s = b \o q
             /\ (b \o << x >>) \o s = b \o q
  <2>1. Append(b, x) = b \o << x >>
    BY AppendIsConcat DEF Strings
  <2>2. << x >> \in Strings
    BY Joined
  <2>3. (b \o << x >>) \o s = b \o (<< x >> \o s)
    BY <2>2, Joined, SMTT(30)
  <2>4. b \o << x >> \in Strings
    BY <2>2, Joined
  <2> QED BY <1>3, <2>1, <2>3, <2>4
<1> QED BY <1>1, <1>4, <1>5, <1>6, <1>7

LEMMA OneSymbol ==
  ASSUME NEW x \in Symbols, NEW r \in Strings
  PROVE  << x >> \o r # << >> /\ Head(<< x >> \o r) = x /\ Tail(<< x >> \o r) = r
<1>1. << x >> \in Strings /\ << x >> # << >> /\ Head(<< x >>) = x
  BY Joined
<1>2. Tail(<< x >>) = << >>
  OBVIOUS
<1>3. << >> \o r = r
  BY Joined
<1>4. << x >> \o r # << >> /\ Head(<< x >> \o r) = Head(<< x >>)
      /\ Tail(<< x >> \o r) = Tail(<< x >>) \o r
  BY <1>1, NextSymbol
<1> QED BY <1>1, <1>2, <1>3, <1>4

(* A part of a text has the text's symbols only.                           *)
LEMMA PartOf ==
  ASSUME NEW a \in Strings, NEW b \in Strings, NEW c \in Strings, NEW t, t = a \o (b \o c)
  PROVE  /\ \A x : ~Contains(t, x) => ~Contains(a, x) /\ ~Contains(b, x) /\ ~Contains(c, x)
         /\ c # << >> => /\ Len(a) + Len(b) + 1 \in 1 .. Len(t)
                         /\ t[Len(a) + Len(b) + 1] = Head(c)
         /\ Len(a) \in Nat /\ Len(b) \in Nat
         /\ \A i \in 1 .. Len(a) : t[i] = a[i]
<1>1. PICK u \in Strings : u = b \o c
  BY Joined
<1>2. /\ Len(a) \in Nat /\ Len(b) \in Nat /\ Len(c) \in Nat
      /\ Len(u) = Len(b) + Len(c) /\ Len(t) = Len(a) + Len(u)
  BY <1>1, ConcatProperties, LenProperties DEF Strings
<1>3. \A i \in 1 .. Len(a) + Len(u) : t[i] = IF i <= Len(a) THEN a[i] ELSE u[i - Len(a)]
  BY <1>1, ConcatProperties DEF Strings
<1>4. \A i \in 1 .. Len(b) + Len(c) : u[i] = IF i <= Len(b) THEN b[i] ELSE c[i - Len(b)]
  BY <1>1, ConcatProperties DEF Strings
<1>5. \A i \in 1 .. Len(a) : i \in 1 .. Len(t) /\ t[i] = a[i]
  BY <1>2, <1>3
<1>6. \A i \in 1 .. Len(b) : Len(a) + i \in 1 .. Len(t) /\ t[Len(a) + i] = b[i]
  <2> SUFFICES ASSUME NEW i \in 1 .. Len(b)
               PROVE  Len(a) + i \in 1 .. Len(t) /\ t[Len(a) + i] = b[i]
    OBVIOUS
  <2>1. i \in 1 .. Len(b) + Len(c) /\ u[i] = b[i]
    BY <1>2, <1>4
  <2>2. Len(a) + i \in 1 .. Len(t) /\ t[Len(a) + i] = u[i]
    BY <1>2, <1>3
  <2> QED BY <2>1, <2>2
<1>7. \A i \in 1 .. Len(c) : /\ Len(a) + Len(b) + i \in 1 .. Len(t)
                             /\ t[Len(a) + Len(b) + i] = c[i]
  <2> SUFFICES ASSUME NEW i \in 1 .. Len(c)
               PROVE  /\ Len(a) + Len(b) + i \in 1 .. Len(t)
                      /\ t[Len(a) + Len(b) + i] = c[i]
    OBVIOUS
  <2>1. Len(b) + i \in 1 .. Len(b) + Len(c) /\ u[Len(b) + i] = c[i]
    BY <1>2, <1>4
  <2>2. Len(a) + (Len(b) + i) \in 1 .. Len(t) /\ t[Len(a) + (Len(b) + i)] = u[Len(b) + i]
    BY <1>2, <1>3, <2>1
  <2>3. Len(a) + (Len(b) + i) = Len(a) + Len(b) + i
    BY <1>2
  <2> QED BY <2>1, <2>2, <2>3
<1>8. c # << >> => 1 \in 1 .. Len(c) /\ Head(c) = c[1]
  BY <1>2, HeadTailProperties, EmptySeq DEF Strings
<1>9. ASSUME NEW x, ~Contains(t, x) PROVE ~Contains(a, x) /\ ~Contains(b, x) /\ ~Contains(c, x)
  BY <1>5, <1>6, <1>7, <1>9 DEF Contains
<1> QED BY <1>2, <1>5, <1>7, <1>8, <1>9

-----------------------------------------------------------------------------
(* What is read next.                                                      *)

(* The text w is in the buffer up to a place, the rest of it is on its way, *)
(* then the brace x and r.                                                 *)
Rest(w, x, r) ==
  \E q \in Strings : buf \o q = w /\ wire = q \o (<< x >> \o r)

(* The text w, between braces, is the next that is read.                   *)
At(w, r) == Rest(<< >>, Open, w \o (<< Close >> \o r)) \/ Rest(w, Close, r)

Even(w) == ~ Contains(w, Open) /\ ~ Contains(w, Close) /\ ~ Contains(w, Nul)

Others == << sender, loop, path, flag, flags, disk >>

(* No symbol of an even text ends it.                                      *)
LEMMA EvenHead ==
  ASSUME NEW b \in Strings, NEW q \in Strings, NEW w, w = b \o q, Even(w)
  PROVE  /\ Even(b)
         /\ q # << >> => Head(q) \notin {Open, Close, Nul}
<1>1. w = b \o (q \o << >>) /\ << >> \in Strings
  BY Joined
<1>2. \A x : ~ Contains(w, x) => ~ Contains(b, x) /\ ~ Contains(q, x)
  BY <1>1, PartOf
<1>3. q # << >> => Contains(q, Head(q))
  <2> SUFFICES ASSUME q # << >> PROVE Contains(q, Head(q))
    OBVIOUS
  <2>1. Len(q) \in Nat \ {0} /\ Head(q) = q[1] /\ DOMAIN q = 1 .. Len(q)
    BY HeadTailProperties, EmptySeq, LenProperties DEF Strings
  <2> QED BY <2>1 DEF Contains
<1> QED BY <1>2, <1>3 DEF Even

(* A text ahead has something on its way.                                  *)
LEMMA RestWire ==
  ASSUME NEW w \in Strings, NEW x \in Symbols, NEW r \in Strings, Rest(w, x, r)
  PROVE  wire # << >>
<1>1. PICK q \in Strings : wire = q \o (<< x >> \o r)
  BY DEF Rest
<1>2. PICK s \in Strings : s = << x >> \o r
  BY Joined
<1>3. s # << >>
  BY <1>2, OneSymbol
<1>4. CASE q = << >>
  BY <1>1, <1>2, <1>3, <1>4, Joined
<1>5. CASE q # << >>
  BY <1>1, <1>2, <1>5, NextSymbol
<1> QED BY <1>4, <1>5

(* A text is ahead when nothing of it is read yet.                         *)
LEMMA RestStart ==
  ASSUME NEW w \in Strings, NEW x \in Symbols, NEW r \in Strings,
         buf' = << >>, wire' = w \o (<< x >> \o r)
  PROVE  Rest(w, x, r)'
  BY Joined DEF Rest

(* What the receiver does with the text: it puts a symbol in the buffer,   *)
(* until the brace.                                                        *)
LEMMA RestStep ==
  ASSUME NEW w \in Strings, NEW x \in {Open, Close}, NEW r \in Strings,
         TypeInv, Even(w), Rest(w, x, r), Reading
  PROVE  \/ Rest(w, x, r)' /\ UNCHANGED Others
         \/ /\ Symbol = x /\ buf = w /\ wire' = r
            /\ Reading /\ ~ IsText
<1>1. PICK q \in Strings : buf \o q = w /\ wire = q \o (<< x >> \o r)
  BY DEF Rest
<1>2. x \in Symbols
  BY SymbolParts
<1>3. PICK s \in Strings : s = << x >> \o r
  BY <1>2, Joined
<1>4. wire' = Tail(wire)
  BY DEF Reading, TopOpen, TopText, TopClose, PathOpen, PathText, UpdatePath, DeletePath,
         ContentOpen, ContentText, ContentClose, CreateOpen, CreateText, CreateClose, Reads
<1>5. buf \in Strings
  BY DEF TypeInv, TypeOK
<1>6. CASE q = << >>
  <2>1. wire = << x >> \o r /\ buf = w
    BY <1>1, <1>3, <1>5, <1>6, Joined
  <2>2. Symbol = x /\ wire' = r
    BY <1>2, <1>4, <2>1, OneSymbol DEF Symbol
  <2> QED BY <2>1, <2>2 DEF IsText
<1>7. CASE q # << >>
  <2>1. wire = q \o s
    BY <1>1, <1>3
  <2>2. /\ Head(wire) = Head(q) /\ Tail(wire) = Tail(q) \o s
        /\ Tail(q) \in Strings /\ Append(buf, Head(q)) \o Tail(q) = buf \o q
    BY <1>5, <1>7, <2>1, NextSymbol
  <2>3. Symbol \notin {Open, Close, Nul}
    BY <1>1, <1>5, <1>7, <2>2, EvenHead DEF Symbol
  <2>4. buf' = Append(buf, Symbol) /\ UNCHANGED Others
    <3>1. TopText \/ PathText \/ ContentText \/ CreateText
      BY <2>3 DEF Reading, TopOpen, TopText, TopClose, PathOpen, PathText, UpdatePath, DeletePath,
         ContentOpen, ContentText, ContentClose, CreateOpen, CreateText, CreateClose
    <3> QED BY <2>3, <3>1 DEF TopText, PathText, ContentText, CreateText, AppendText, Others
  <2>5. buf' \o Tail(q) = w /\ wire' = Tail(q) \o (<< x >> \o r)
    BY <1>1, <1>3, <1>4, <2>2, <2>4 DEF Symbol
  <2> QED BY <2>2, <2>4, <2>5 DEF Rest
<1> QED BY <1>6, <1>7

(* The closing brace that comes next is the one after the text.            *)
LEMMA RestHead ==
  ASSUME NEW w \in Strings, NEW x \in {Open, Close}, NEW r \in Strings,
         TypeInv, Even(w), Rest(w, x, r), Symbol = Close
  PROVE  x = Close /\ buf = w
<1>1. PICK q \in Strings : buf \o q = w /\ wire = q \o (<< x >> \o r)
  BY DEF Rest
<1>2. x \in Symbols
  BY SymbolParts
<1>3. PICK s \in Strings : s = << x >> \o r
  BY <1>2, Joined
<1>5. buf \in Strings
  BY DEF TypeInv, TypeOK
<1>6. CASE q = << >>
  <2>1. wire = << x >> \o r /\ buf = w
    BY <1>1, <1>3, <1>5, <1>6, Joined
  <2> QED BY <1>2, <2>1, OneSymbol DEF Symbol
<1>7. CASE q # << >>
  <2>1. wire = q \o s
    BY <1>1, <1>3
  <2>2. Head(wire) = Head(q)
    BY <1>5, <1>7, <2>1, NextSymbol
  <2>3. Symbol \notin {Open, Close, Nul}
    BY <1>1, <1>5, <1>7, <2>2, EvenHead DEF Symbol
  <2> QED BY <2>3
<1> QED BY <1>6, <1>7

LEMMA AtHead ==
  ASSUME NEW w \in Strings, NEW r \in Strings, TypeInv, Even(w), At(w, r), Symbol = Close
  PROVE  buf = w
<1>1. Open # Close /\ Close \in Symbols /\ << >> \in Strings /\ Even(<< >>)
  BY SymbolParts, Joined DEF Even, Contains
<1>2. w \o (<< Close >> \o r) \in Strings
  BY <1>1, Joined
<1>3. ~ Rest(<< >>, Open, w \o (<< Close >> \o r))
  BY <1>1, <1>2, RestHead
<1> QED BY <1>3, RestHead DEF At

(* An opening brace before a text is passed over, where no content ends.   *)
LEMMA AtStep ==
  ASSUME NEW w \in Strings, NEW r \in Strings, TypeInv, Even(w), At(w, r), Reading,
         loop # "content", loop = "create" => count = 0
  PROVE  \/ At(w, r)' /\ UNCHANGED Others
         \/ /\ Symbol = Close /\ buf = w /\ wire' = r
            /\ TopClose \/ UpdatePath \/ DeletePath \/ CreateClose
<1>1. Open \in Symbols /\ Close \in Symbols /\ Open # Close /\ << Close >> \in Strings
      /\ << >> \in Strings
  BY SymbolParts, Joined
<1>2. PICK v \in Strings : v = w \o (<< Close >> \o r)
  BY <1>1, Joined
<1>3. Even(<< >>)
  BY DEF Even, Contains
<1>4. CASE Rest(<< >>, Open, v)
  <2>1. CASE Rest(<< >>, Open, v)' /\ UNCHANGED Others
    BY <1>2, <2>1 DEF At
  <2>2. CASE Symbol = Open /\ buf = << >> /\ wire' = v
    <3>1. TopOpen \/ PathOpen \/ CreateOpen
      BY <1>1, <2>2 DEF Reading, TopOpen, TopText, TopClose, PathOpen, PathText, UpdatePath, DeletePath,
         ContentOpen, ContentText, ContentClose, CreateOpen, CreateText, CreateClose, IsText, Reads
    <3>2. buf' = << >> /\ UNCHANGED Others
      BY <2>2, <3>1 DEF TopOpen, PathOpen, CreateOpen, Others, flags, Reads
    <3>3. Rest(w, Close, r)'
      BY <1>1, <1>2, <2>2, <3>2, Joined DEF Rest
    <3> QED BY <3>2, <3>3 DEF At
  <2> QED BY <1>1, <1>3, <1>4, <2>1, <2>2, RestStep
<1>5. CASE Rest(w, Close, r)
  <2>1. CASE Rest(w, Close, r)' /\ UNCHANGED Others
    BY <2>1 DEF At
  <2>2. CASE Symbol = Close /\ buf = w /\ wire' = r
    <3>1. TopClose \/ UpdatePath \/ DeletePath \/ CreateClose
      BY <1>1, <2>2 DEF Reading, TopOpen, TopText, TopClose, PathOpen, PathText, UpdatePath, DeletePath,
         ContentOpen, ContentText, ContentClose, CreateOpen, CreateText, CreateClose, IsText, Reads
    <3> QED BY <2>2, <3>1
  <2> QED BY <1>5, <2>1, <2>2, RestStep
<1> QED BY <1>2, <1>4, <1>5 DEF At

LEMMA AtWire ==
  ASSUME NEW w \in Strings, NEW r \in Strings, At(w, r)
  PROVE  wire # << >>
<1>1. w \o (<< Close >> \o r) \in Strings /\ << >> \in Strings
  BY SymbolParts, Joined
<1>2. Open \in Symbols /\ Close \in Symbols
  BY SymbolParts
<1> QED BY <1>1, <1>2, RestWire DEF At

(* A text between braces is ahead when nothing of it is read yet.          *)
LEMMA AtStart ==
  ASSUME NEW w \in Strings, NEW r \in Strings, buf' = << >>,
         wire' = << Open >> \o (w \o (<< Close >> \o r))
  PROVE  At(w, r)'
<1>1. PICK v \in Strings : v = w \o (<< Close >> \o r)
  BY SymbolParts, Joined
<1>2. << >> \o (<< Open >> \o v) = << Open >> \o v /\ << >> \in Strings
  BY <1>1, SymbolParts, Joined
<1>3. Rest(<< >>, Open, v)'
  BY <1>1, <1>2, SymbolParts, RestStart
<1> QED BY <1>1, <1>3 DEF At

-----------------------------------------------------------------------------
(* Where the receiver is while it reads a message m of plain contents.     *)

Braced(w, r) == << Open >> \o (w \o (<< Close >> \o r))

Calm == fileFlag = 0 /\ folderFlag = 0 /\ count = 0

(* In the content of an update: what is written, the brace that is not     *)
(* written yet, the buffer and what is on its way make up the text t.      *)
Pending == IF flag = 1 THEN << Open >> ELSE << >>
Held(w, h, b, q) == w \o (h \o (b \o q))

Writing(t) ==
  \E q \in Strings :
    /\ Held(disk[path].text, Pending, buf, q) = t
    /\ wire = q \o Token("SYNC_DONE")
    /\ flag = 0 /\ buf = << >> => disk[path].text = << >>

UpdatePlace(m) ==
  /\ phase = "update" /\ Calm
  /\ \/ /\ loop = "top" /\ ideal = Asked(disk, m)
        /\ At(<< "SYNC_FILE" >>, Braced(m.path, m.text \o Token("SYNC_DONE")))
     \/ /\ loop = "update" /\ ideal = Asked(disk, m)
        /\ At(m.path, m.text \o Token("SYNC_DONE"))
     \/ /\ loop = "content" /\ ideal = Asked(disk, m)
        /\ path = m.path /\ Writing(m.text)
     \/ /\ loop = "content" /\ disk = ideal
        /\ Rest(<< "SYNC_DONE" >>, Close, << >>)

(* A path to delete is on its way.                                         *)
DeleteAt(m) ==
  phase = "delete" /\ loop = "delete" /\ Calm /\ At(m.path, << >>)

DeletePlace(m) == DeleteAt(m) /\ ideal = Asked(disk, m)

(* A new folder is not made yet, and it is.                                *)
FolderBefore(m) ==
  /\ phase = "create" /\ loop = "create" /\ fileFlag = 0 /\ count = 0
  /\ \/ /\ folderFlag = 0
        /\ At(<< "SYNC_FOLDER" >>, Braced(m.path, Token("SYNC_DONE")))
     \/ folderFlag = 1 /\ At(m.path, Token("SYNC_DONE"))

FolderAfter ==
  /\ phase = "create" /\ loop = "create" /\ fileFlag = 0 /\ count = 0
  /\ folderFlag = 1 /\ At(<< "SYNC_DONE" >>, << >>)

FolderPlace(m) ==
  \/ FolderBefore(m) /\ ideal = Asked(disk, m)
  \/ FolderAfter /\ disk = ideal

(* What follows the brace after a created content.                         *)
Ending == << "SYNC_DONE" >> \o (<< Close >> \o << >>)
AfterText(t) ==
  IF Full(t) THEN << "EMPTY_FILE" >> \o (<< Close >> \o Token("SYNC_DONE"))
             ELSE Ending

(* What follows the token of an update or of a new file.                   *)
Following(p, t) == Braced(p, t \o (<< Open >> \o AfterText(t)))

FilePlace(m) ==
  /\ phase = "create" /\ loop = "create" /\ folderFlag = 0
  /\ \/ /\ fileFlag = 0 /\ count = 0 /\ ideal = Asked(disk, m)
        /\ At(<< "SYNC_FILE" >>,
              Braced(m.path, m.text \o (<< Open >> \o AfterText(m.text))))
     \/ /\ fileFlag = 1 /\ count = 0 /\ ideal = Asked(disk, m)
        /\ At(m.path, m.text \o (<< Open >> \o AfterText(m.text)))
     \/ /\ fileFlag = 1 /\ count = 1 /\ path = m.path /\ ideal = Asked(disk, m)
        /\ Rest(m.text, Open, AfterText(m.text))
     \/ /\ fileFlag = 1 /\ count = 0 /\ disk = ideal
        /\ Rest(<< "EMPTY_FILE" >>, Close, Token("SYNC_DONE"))
     \/ /\ fileFlag = 1 /\ count = 1 /\ path = << "EMPTY_FILE" >> /\ disk = ideal
        /\ Rest(<< >>, Open, Ending)
     \/ /\ fileFlag = 1 /\ count = 0 /\ disk = ideal
        /\ Rest(<< "SYNC_DONE" >>, Close, << >>)

MessagePlace(m) ==
  \/ m.kind = "update" /\ UpdatePlace(m)
  \/ m.kind = "delete" /\ DeletePlace(m)
  \/ m.kind = "folder" /\ FolderPlace(m)
  \/ m.kind = "file" /\ FilePlace(m)

(* Where it is while it reads the tokens between two phases, and where it  *)
(* is when all is read.                                                    *)
TurnAt ==
  /\ Calm
  /\ \/ /\ phase = "delete" /\ loop = "top"
        /\ At(<< "SYNC_UPDATE_DONE" >>, Token("SYNC_DELETE"))
     \/ /\ phase = "delete" /\ loop = "top" /\ At(<< "SYNC_DELETE" >>, << >>)
     \/ /\ phase = "create" /\ loop = "delete"
        /\ At(<< "SYNC_DELETE_DONE" >>, Token("SYNC_CREATE"))
     \/ /\ phase = "create" /\ loop = "top" /\ At(<< "SYNC_CREATE" >>, << >>)
     \/ /\ phase = "done" /\ loop = "create" /\ At(<< "SYNC_CREATE_DONE" >>, << >>)
     \/ /\ phase = "sent" /\ loop = "top" /\ At(<< "DONE_CONTROL" >>, << >>)

RestAt == wire = << >> /\ loop = LoopOf[phase] /\ buf = << >> /\ Calm

TurnPlace == TurnAt /\ disk = ideal
Resting == RestAt /\ disk = ideal

InPlace ==
  \/ Resting \/ TurnPlace
  \/ sent # << >> /\ MessagePlace(Last(sent))

(* While the contents are plain, the receiver is at one of these places.   *)
StepInv == TypeInv /\ (All(sent, Plain) /\ loop # "exited" => InPlace)

Messages == [kind : Kinds, path : Known \cup New, text : Texts \cup {<< >>}]

(* The texts between braces.                                               *)
LEMMA TokenParts ==
  ASSUME NEW n \in Tokens
  PROVE  /\ << n >> \in Strings /\ Even(<< n >>) /\ ~ Contains(<< n >>, Nul)
         /\ CString(<< n >>) = << n >>
         /\ Token(n) \in Strings /\ Token(n) = Braced(<< n >>, << >>)
         /\ \A r \in Strings : /\ Braced(<< n >>, r) \in Strings
                               /\ Token(n) \o r = Braced(<< n >>, r)
<1>1. << n >> \in Strings /\ << Open >> \in Strings /\ << Close >> \in Strings
  BY SymbolParts, Joined
<1>2. n # Open /\ n # Close /\ n # Nul
  BY SymbolParts
<1>3. Even(<< n >>) /\ ~ Contains(<< n >>, Nul)
  BY <1>2 DEF Even, Contains
<1>4. CString(<< n >>) = << n >>
  BY <1>1, <1>3, CStringParts
<1>5. Token(n) = << Open >> \o (<< n >> \o << Close >>)
  BY SymbolParts, Three DEF Token
<1>6. ASSUME NEW r \in Strings
      PROVE  Braced(<< n >>, r) \in Strings /\ Token(n) \o r = Braced(<< n >>, r)
  <2>1. << Close >> \o r \in Strings /\ << n >> \o << Close >> \in Strings
    BY <1>1, Joined
  <2>2. << n >> \o (<< Close >> \o r) \in Strings
    BY <1>1, <2>1, Joined
  <2>3. Braced(<< n >>, r) \in Strings
    BY <1>1, <2>2, Joined DEF Braced
  <2>4. Token(n) \o r = << Open >> \o ((<< n >> \o << Close >>) \o r)
    BY <1>1, <1>5, <2>1, Joined
  <2>5. (<< n >> \o << Close >>) \o r = << n >> \o (<< Close >> \o r)
    BY <1>1, Joined
  <2> QED BY <2>3, <2>4, <2>5 DEF Braced
<1>7. Token(n) \in Strings
  BY TokenString
<1>8. Token(n) = Braced(<< n >>, << >>)
  BY <1>6, <1>7, Joined
<1> QED BY <1>1, <1>3, <1>4, <1>6, <1>7, <1>8

LEMMA PathParts ==
  ASSUME NEW p \in Known \cup New
  PROVE  /\ p \in Strings /\ p # << >> /\ Even(p) /\ \A n \in Tokens : p # << n >>
         /\ \A r \in Strings : /\ Braced(p, r) \in Strings
                               /\ (<< Open >> \o p \o << Close >>) \o r = Braced(p, r)
<1>1. p \in Seq(Slashed) /\ p \in Strings /\ p # << >>
  BY PathString
<1>2. \A i \in DOMAIN p : p[i] \in Slashed
  BY <1>1, ElementOfSeq, LenProperties
<1>3. Even(p)
  BY <1>2, SymbolParts DEF Even, Contains
<1>4. ASSUME NEW n \in Tokens PROVE p # << n >>
  <2>1. << n >>[1] = n /\ 1 \in DOMAIN << n >>
    OBVIOUS
  <2> QED BY <1>2, <2>1, SymbolParts
<1>5. << Open >> \in Strings /\ << Close >> \in Strings
  BY SymbolParts, Joined
<1>6. ASSUME NEW r \in Strings
      PROVE  /\ Braced(p, r) \in Strings
             /\ (<< Open >> \o p \o << Close >>) \o r = Braced(p, r)
  <2>1. << Close >> \o r \in Strings /\ << Open >> \o p \in Strings
    BY <1>1, <1>5, Joined
  <2>2. p \o (<< Close >> \o r) \in Strings
    BY <1>1, <2>1, Joined
  <2>3. ((<< Open >> \o p) \o << Close >>) \o r = (<< Open >> \o p) \o (<< Close >> \o r)
    BY <1>5, <2>1, Joined
  <2>4. (<< Open >> \o p) \o (<< Close >> \o r) = << Open >> \o (p \o (<< Close >> \o r))
    BY <1>1, <1>5, <2>1, Joined
  <2> QED BY <1>5, <2>2, <2>3, <2>4, Joined DEF Braced
<1> QED BY <1>1, <1>3, <1>4, <1>6

(* The end of a created content.                                           *)
LEMMA AfterParts ==
  /\ Ending \in Strings /\ << Open >> \o Ending = Token("SYNC_DONE")
  /\ \A t \in Strings : /\ AfterText(t) \in Strings
                        /\ Payload(t) \in Strings
                        /\ Payload(t) \o Token("SYNC_DONE") = t \o (<< Open >> \o AfterText(t))
<1>1. /\ "SYNC_DONE" \in Tokens /\ "EMPTY_FILE" \in Tokens
  BY DEF Tokens
<1>2. << >> \in Strings /\ << Open >> \in Strings /\ << Close >> \in Strings
  BY SymbolParts, Joined
<1>3. Ending \in Strings /\ << Open >> \o Ending = Token("SYNC_DONE")
  <2>1. << Close >> \o << >> \in Strings /\ << "SYNC_DONE" >> \in Strings
    BY <1>1, <1>2, Joined, TokenParts
  <2> QED BY <1>1, <1>2, <2>1, Joined, TokenParts DEF Ending, Braced
<1>4. ASSUME NEW t \in Strings
      PROVE  /\ AfterText(t) \in Strings /\ Payload(t) \in Strings
             /\ Payload(t) \o Token("SYNC_DONE") = t \o (<< Open >> \o AfterText(t))
  <2>1. Token("SYNC_DONE") \in Strings /\ Token("EMPTY_FILE") \in Strings
        /\ << "EMPTY_FILE" >> \in Strings
        /\ Token("EMPTY_FILE") \o Token("SYNC_DONE")
             = Braced(<< "EMPTY_FILE" >>, Token("SYNC_DONE"))
    BY <1>1, TokenParts
  <2>2. CASE Full(t)
    <3>1. Payload(t) = t \o Token("EMPTY_FILE")
      BY <2>2 DEF Payload, Full
    <3>2. << Close >> \o Token("SYNC_DONE") \in Strings
      BY <1>2, <2>1, Joined
    <3>3. AfterText(t) \in Strings
      BY <2>1, <2>2, <3>2, Joined DEF AfterText
    <3>4. Payload(t) \o Token("SYNC_DONE") = t \o (Token("EMPTY_FILE") \o Token("SYNC_DONE"))
      BY <2>1, <3>1, Joined
    <3>5. Token("EMPTY_FILE") \o Token("SYNC_DONE") = << Open >> \o AfterText(t)
      BY <2>1, <2>2 DEF AfterText, Braced
    <3>6. Payload(t) \in Strings
      BY <2>1, <3>1, Joined
    <3> QED BY <3>3, <3>4, <3>5, <3>6
  <2>3. CASE ~ Full(t)
    <3>1. Payload(t) = t
      BY <2>3, Joined DEF Payload, Full
    <3> QED BY <1>3, <2>3, <3>1 DEF AfterText
  <2> QED BY <2>2, <2>3
<1> QED BY <1>3, <1>4

(* What is sent for a message, as braced texts.                            *)
LEMMA WireParts ==
  ASSUME NEW m \in Messages
  PROVE  /\ m.kind \in {"update", "file"} =>
              Wire(m) = Braced(<< "SYNC_FILE" >>,
                               Braced(m.path, Payload(m.text) \o Token("SYNC_DONE")))
         /\ m.kind = "folder" =>
              Wire(m) = Braced(<< "SYNC_FOLDER" >>, Braced(m.path, Token("SYNC_DONE")))
         /\ m.kind = "delete" => Wire(m) = Braced(m.path, << >>)
<1>1. m.path \in Known \cup New /\ m.text \in Strings /\ m.kind \in Kinds
  BY TurnAssumption, Joined DEF Messages
<1>2. PICK k \in Kinds, p \in Known \cup New, t \in Strings : m.kind = k /\ m.path = p /\ m.text = t
  BY <1>1
<1>3. PICK y : y = << Open >> \o p \o << Close >>
  OBVIOUS
<1>4. "SYNC_FILE" \in Tokens /\ "SYNC_FOLDER" \in Tokens /\ "SYNC_DONE" \in Tokens
  BY DEF Tokens
<1>5. PICK f, o, d, u \in Strings : /\ f = Token("SYNC_FILE") /\ o = Token("SYNC_FOLDER")
                                    /\ d = Token("SYNC_DONE") /\ u = Payload(t)
  BY <1>4, AfterParts, TokenParts
<1>6. y \in Strings /\ \A r \in Strings : Braced(p, r) \in Strings /\ y \o r = Braced(p, r)
  <2>1. y \in Strings
    BY <1>3, SymbolParts, PathParts, Joined
  <2> QED BY <1>3, <2>1, PathParts
<1>7. ((f \o y) \o u) \o d = f \o (y \o (u \o d)) /\ (o \o y) \o d = o \o (y \o d)
  <2>1. Cat(Cat(Cat(f, y), u), d) = Cat(f, Cat(y, Cat(u, d)))
    BY <1>6, CatAssoc
  <2>2. Cat(Cat(o, y), d) = Cat(o, Cat(y, d))
    BY <1>6, CatAssoc
  <2> QED BY <2>1, <2>2 DEF Cat
<1>8. u \o d \in Strings
  BY Joined
<1>9. CASE k \in {"update", "file"}
  <2>1. Wire(m) = ((f \o y) \o u) \o d
    BY <1>2, <1>3, <1>5, <1>9 DEF Wire
  <2>2. Wire(m) = f \o Braced(p, u \o d)
    <3>1. y \o (u \o d) = Braced(p, u \o d)
      BY <1>6, <1>8
    <3> QED BY <1>7, <2>1, <3>1
  <2>3. f \o Braced(p, u \o d) = Braced(<< "SYNC_FILE" >>, Braced(p, u \o d))
    BY <1>4, <1>5, <1>6, <1>8, TokenParts
  <2> QED BY <1>2, <1>5, <1>9, <2>2, <2>3
<1>10. CASE k = "folder"
  <2>1. Wire(m) = (o \o y) \o d
    BY <1>2, <1>3, <1>5, <1>10 DEF Wire
  <2>2. Wire(m) = o \o Braced(p, d)
    <3>1. y \o d = Braced(p, d)
      BY <1>6
    <3> QED BY <1>7, <2>1, <3>1
  <2>3. o \o Braced(p, d) = Braced(<< "SYNC_FOLDER" >>, Braced(p, d))
    BY <1>4, <1>5, <1>6, TokenParts
  <2> QED BY <1>2, <1>5, <1>10, <2>2, <2>3
<1>11. CASE k = "delete"
  <2>1. Wire(m) = y
    BY <1>2, <1>3, <1>11 DEF Wire
  <2>2. y = Braced(p, << >>)
    BY <1>6, Joined
  <2> QED BY <1>2, <1>11, <2>1, <2>2
<1> QED BY <1>2, <1>9, <1>10, <1>11 DEF Kinds

-----------------------------------------------------------------------------
(* Each message moves the receiver from place to place.                    *)

(* What is known of a message.                                             *)
LEMMA MessageParts ==
  ASSUME NEW m \in Messages
  PROVE  /\ m.path \in Known \cup New /\ m.path \in Strings /\ Even(m.path)
         /\ m.text \in Strings /\ m.kind \in Kinds
         /\ \A n \in Tokens : m.path # << n >>
  BY TurnAssumption, PathParts, Joined DEF Messages

(* Its path fits in pathBuffer, and so does the token of an empty file.    *)
LEMMA MessageCopies ==
  ASSUME NEW m \in Messages
  PROVE  Len(m.path) <= PathSize /\ Copies(m.path) = {m.path}
<1>1. m.path \in Known \cup New /\ m.path \in Strings
  BY MessageParts
<1>2. Len(m.path) <= PathSize
  BY <1>1, TurnAssumption
<1> QED BY <1>1, <1>2, CopiesParts

LEMMA EmptyCopies ==
  Len(<< "EMPTY_FILE" >>) <= PathSize /\ Copies(<< "EMPTY_FILE" >>) = {<< "EMPTY_FILE" >>}
<1>1. << "EMPTY_FILE" >> \in Strings /\ Len(<< "EMPTY_FILE" >>) = 1
  BY TokenParts DEF Tokens
<1>2. Len(<< "EMPTY_FILE" >>) <= PathSize
  BY <1>1, TurnAssumption
<1> QED BY <1>1, <1>2, CopiesParts

(* A symbol read changes nothing of the sender but what is on its way.     *)
LEMMA ReadingParts ==
  ASSUME Reading
  PROVE  /\ wire # << >> /\ wire' = Tail(wire) /\ loop \notin Stopped
         /\ loop' # "crashed" /\ UNCHANGED sender
<1>1. /\ wire # << >> /\ wire' = Tail(wire) /\ UNCHANGED sender
      /\ loop \in {"top", "update", "content", "delete", "create"}
  BY DEF Reading, TopOpen, TopText, TopClose, PathOpen, PathText, UpdatePath, DeletePath,
         ContentOpen, ContentText, ContentClose, CreateOpen, CreateText, CreateClose, Reads
<1>2. ASSUME TopClose PROVE loop' # "crashed"
  BY <1>2 DEF TopClose, Entered
<1>3. ASSUME UpdatePath PROVE loop' # "crashed"
  BY <1>3 DEF UpdatePath
<1>4. ASSUME CreateClose PROVE loop' # "crashed"
  BY <1>1, <1>4 DEF CreateClose
<1>5. ASSUME ~ TopClose /\ ~ UpdatePath /\ ~ CreateClose PROVE loop' # "crashed"
  <2>1. loop' = loop \/ loop' = "top"
    BY <1>5 DEF Reading, TopOpen, TopText, PathOpen, PathText, DeletePath,
       ContentOpen, ContentText, ContentClose, CreateOpen, CreateText
  <2> QED BY <1>1, <2>1
<1>6. loop' # "crashed"
  BY <1>2, <1>3, <1>4, <1>5
<1> QED BY <1>1, <1>6 DEF Stopped

(* A path is asked to be deleted.                                          *)
LEMMA DeleteStep ==
  ASSUME NEW m \in Messages, m.kind = "delete", TypeInv, DeleteAt(m), Reading
  PROVE  \/ DeleteAt(m)' /\ disk' = disk
         \/ RestAt' /\ disk' = Asked(disk, m)
<1>1. << >> \in Strings /\ m.path \in Strings /\ Even(m.path) /\ m.path # << "SYNC_DELETE_DONE" >>
  BY MessageParts, Joined DEF Tokens
<1>2. At(m.path, << >>) /\ loop = "delete" /\ Calm /\ phase = "delete"
  BY DEF DeleteAt
<1>3. CASE At(m.path, << >>)' /\ UNCHANGED Others
  BY <1>2, <1>3 DEF DeleteAt, Others, sender, flags, Calm
<1>4. CASE buf = m.path /\ wire' = << >> /\ (TopClose \/ UpdatePath \/ DeletePath \/ CreateClose)
  <2>1. DeletePath
    BY <1>2, <1>4 DEF TopClose, UpdatePath, DeletePath, CreateClose, Reads
  <2>2. /\ loop' = loop /\ disk' = Without(disk, buf) /\ buf' = << >>
        /\ UNCHANGED << sender, path, flag, flags >>
    BY <1>1, <1>4, <2>1 DEF DeletePath
  <2>3. disk' = Asked(disk, m)
    BY <1>2, <1>4, <2>2 DEF Asked
  <2> QED BY <1>2, <1>4, <2>2, <2>3 DEF RestAt, Calm, flags, sender, LoopOf
<1> QED BY <1>1, <1>2, <1>3, <1>4, AtStep DEF Calm

(* A new folder is announced.                                              *)
LEMMA FolderStep ==
  ASSUME NEW m \in Messages, m.kind = "folder", TypeInv, FolderBefore(m) \/ FolderAfter, Reading
  PROVE  /\ FolderBefore(m) => \/ FolderBefore(m)' /\ disk' = disk
                               \/ FolderAfter' /\ disk' = Asked(disk, m)
         /\ FolderAfter => (FolderAfter' \/ RestAt') /\ disk' = disk
<1>1. /\ m.path \in Strings /\ Even(m.path)
      /\ m.path # << "SYNC_FOLDER" >> /\ m.path # << "SYNC_DONE" >>
  BY MessageParts DEF Tokens
<1>2. "SYNC_FOLDER" \in Tokens /\ "SYNC_DONE" \in Tokens
  BY DEF Tokens
<1>3. loop = "create" /\ phase = "create" /\ fileFlag = 0 /\ count = 0
  BY DEF FolderBefore, FolderAfter
<1>4. ASSUME NEW w \in Strings, NEW r \in Strings, Even(w), At(w, r)
      PROVE  \/ At(w, r)' /\ UNCHANGED Others
             \/ /\ buf = w /\ wire' = r /\ buf' = << >> /\ UNCHANGED << sender, flag >>
                /\ CreateClose
  <2>1. TopClose \/ UpdatePath \/ DeletePath \/ CreateClose => CreateClose
    BY <1>3 DEF TopClose, UpdatePath, DeletePath, Reads
  <2> QED BY <1>3, <1>4, <2>1, AtStep DEF CreateClose
<1>5. PICK y \in Strings : y = Braced(m.path, Token("SYNC_DONE"))
  BY <1>2, TokenParts, PathParts, MessageParts
<1>6. ASSUME folderFlag = 0, At(<< "SYNC_FOLDER" >>, y)
      PROVE  FolderBefore(m)' /\ disk' = disk
  <2>1. << "SYNC_FOLDER" >> \in Strings /\ Even(<< "SYNC_FOLDER" >>)
    BY <1>2, TokenParts
  <2>2. CASE At(<< "SYNC_FOLDER" >>, y)' /\ UNCHANGED Others
    BY <1>3, <1>5, <1>6, <2>2 DEF FolderBefore, Others, sender, flags
  <2>3. CASE /\ buf = << "SYNC_FOLDER" >> /\ wire' = y /\ buf' = << >>
             /\ UNCHANGED << sender, flag >> /\ CreateClose
    <3>1. folderFlag' = 1 /\ UNCHANGED << disk, loop, path, fileFlag, count >>
      BY <2>3 DEF CreateClose, AboutFolder, CloseFolder
    <3>2. At(m.path, Token("SYNC_DONE"))'
      BY <1>1, <1>2, <1>5, <2>3, TokenParts, AtStart DEF Braced
    <3> QED BY <1>3, <2>3, <3>1, <3>2 DEF FolderBefore, sender
  <2> QED BY <1>4, <1>6, <2>1, <2>2, <2>3
<1>7. ASSUME folderFlag = 1, At(m.path, Token("SYNC_DONE"))
      PROVE  (FolderBefore(m)' /\ disk' = disk) \/ (FolderAfter' /\ disk' = Asked(disk, m))
  <2>1. Token("SYNC_DONE") \in Strings
    BY <1>2, TokenParts
  <2>2. CASE At(m.path, Token("SYNC_DONE"))' /\ UNCHANGED Others
    BY <1>3, <1>7, <2>2 DEF FolderBefore, Others, sender, flags
  <2>3. CASE /\ buf = m.path /\ wire' = Token("SYNC_DONE") /\ buf' = << >>
             /\ UNCHANGED << sender, flag >> /\ CreateClose
    <3>1. disk' = MakeFolder(disk, buf) /\ UNCHANGED << folderFlag, loop, path, fileFlag, count >>
      BY <1>1, <1>7, <2>3 DEF CreateClose, AboutFolder, CloseFolder
    <3>2. disk' = Asked(disk, m)
      BY <1>7, <2>3, <3>1 DEF Asked
    <3>3. At(<< "SYNC_DONE" >>, << >>)'
      BY <1>2, <2>3, TokenParts, AtStart, Joined DEF Braced
    <3> QED BY <1>3, <1>7, <2>3, <3>1, <3>2, <3>3 DEF FolderAfter, sender
  <2> QED BY <1>1, <1>4, <1>7, <2>1, <2>2, <2>3
<1>8. ASSUME folderFlag = 1, At(<< "SYNC_DONE" >>, << >>)
      PROVE  (FolderAfter' \/ RestAt') /\ disk' = disk
  <2>1. << "SYNC_DONE" >> \in Strings /\ Even(<< "SYNC_DONE" >>) /\ << >> \in Strings
    BY <1>2, TokenParts, Joined
  <2>2. CASE At(<< "SYNC_DONE" >>, << >>)' /\ UNCHANGED Others
    BY <1>3, <1>8, <2>2 DEF FolderAfter, Others, sender, flags
  <2>3. CASE /\ buf = << "SYNC_DONE" >> /\ wire' = << >> /\ buf' = << >>
             /\ UNCHANGED << sender, flag >> /\ CreateClose
    <3>1. folderFlag' = 0 /\ UNCHANGED << disk, loop, path, fileFlag, count >>
      BY <1>8, <2>3 DEF CreateClose, AboutFolder, CloseFolder
    <3> QED BY <1>3, <1>8, <2>3, <3>1 DEF RestAt, Calm, sender, LoopOf
  <2> QED BY <1>4, <1>8, <2>1, <2>2, <2>3
<1>9. FolderBefore(m) => \/ folderFlag = 0 /\ At(<< "SYNC_FOLDER" >>, y)
                         \/ folderFlag = 1 /\ At(m.path, Token("SYNC_DONE"))
  BY <1>5 DEF FolderBefore
<1>10. FolderAfter => folderFlag = 1 /\ At(<< "SYNC_DONE" >>, << >>)
  BY DEF FolderAfter
<1> QED BY <1>6, <1>7, <1>8, <1>9, <1>10

(* A new file is announced. Its content ends at the brace after it; where  *)
(* it is of full blocks, the token of an empty file is read as a path, and *)
(* the brace after that makes no file.                                     *)
LEMMA FileStep ==
  ASSUME NEW m \in Messages, m.kind = "file", PlainFile(m.text),
         TypeInv, FilePlace(m), Reading
  PROVE  FilePlace(m)' \/ Resting'
<1>1. /\ m.path \in Strings /\ Even(m.path) /\ m.text \in Strings /\ Even(m.text)
      /\ m.text # << "EMPTY_FILE" >>
      /\ \A n \in Tokens : m.path # << n >>
  BY MessageParts DEF PlainFile, Has, Even
<1>2. "SYNC_FILE" \in Tokens /\ "SYNC_DONE" \in Tokens /\ "EMPTY_FILE" \in Tokens
      /\ "SYNC_FOLDER" \in Tokens
  BY DEF Tokens
<1>3. loop = "create" /\ phase = "create" /\ folderFlag = 0
  BY DEF FilePlace
<1>4. ASSUME NEW w \in Strings, NEW r \in Strings, Even(w), At(w, r), count = 0,
             w # << "SYNC_FOLDER" >>
      PROVE  \/ At(w, r)' /\ UNCHANGED Others
             \/ /\ buf = w /\ wire' = r /\ buf' = << >>
                /\ UNCHANGED << sender, flag, folderFlag, disk >>
                /\ AboutFile(w) => CloseFile(w) /\ UNCHANGED loop
  <2>1. TopClose \/ UpdatePath \/ DeletePath \/ CreateClose => CreateClose
    BY <1>3 DEF TopClose, UpdatePath, DeletePath, Reads
  <2>2. CASE buf = w /\ wire' = r /\ CreateClose
    <3>1. ~ AboutFolder(buf)
      BY <1>3, <1>4, <2>2 DEF AboutFolder
    <3>2. buf' = << >> /\ UNCHANGED << sender, flag, folderFlag, disk >>
      BY <2>2, <3>1 DEF CreateClose, flags
    <3> QED BY <2>2, <3>1, <3>2 DEF CreateClose
  <2> QED BY <1>3, <1>4, <2>1, <2>2, AtStep
<1>5. PICK a \in Strings : a = AfterText(m.text)
  BY <1>1, AfterParts
<1>6. PICK d \in Strings : d = Token("SYNC_DONE")
  BY <1>2, TokenParts
<1>7. PICK v \in Strings : v = m.text \o (<< Open >> \o a)
  BY <1>1, SymbolParts, Joined
<1>8. PICK y \in Strings : y = Braced(m.path, v)
  BY MessageParts, PathParts
<1>9. \A n \in Tokens : << n >> \in Strings /\ Even(<< n >>) /\ (<< n >> = << "SYNC_FOLDER" >> => n = "SYNC_FOLDER")
  BY TokenParts
<1>10. Open \in Symbols /\ Close \in Symbols /\ Open # Close /\ << >> \in Strings /\ Even(<< >>)
       /\ Ending \in Strings
  BY SymbolParts, Joined, AfterParts DEF Even, Contains
<1>11. ASSUME Symbol = Open
       PROVE  CreateOpen
  BY <1>3, <1>10, <1>11 DEF Reading, TopOpen, TopText, TopClose, PathOpen, PathText, UpdatePath,
     DeletePath, ContentOpen, ContentText, ContentClose, CreateText, CreateClose, IsText, Reads
<1>12. ASSUME Symbol = Close
       PROVE  CreateClose
  BY <1>3, <1>10, <1>12 DEF Reading, TopOpen, TopText, TopClose, PathOpen, PathText, UpdatePath,
     DeletePath, ContentOpen, ContentText, ContentClose, CreateOpen, CreateText, IsText, Reads
<1>13. CASE fileFlag = 0 /\ count = 0 /\ ideal = Asked(disk, m) /\ At(<< "SYNC_FILE" >>, y)
  <2>1. << "SYNC_FILE" >> # << "SYNC_FOLDER" >>
    OBVIOUS
  <2>2. CASE At(<< "SYNC_FILE" >>, y)' /\ UNCHANGED Others
    BY <1>3, <1>5, <1>7, <1>8, <1>13, <2>2 DEF FilePlace, Others, sender, flags
  <2>3. CASE /\ wire' = y /\ buf' = << >> /\ UNCHANGED << sender, folderFlag, disk >>
             /\ CloseFile(<< "SYNC_FILE" >>) /\ UNCHANGED loop
    <3>1. fileFlag' = 1 /\ UNCHANGED << count, path >>
      BY <2>3 DEF CloseFile
    <3>2. At(m.path, v)'
      BY <1>1, <1>8, <2>3, AtStart DEF Braced
    <3> QED BY <1>3, <1>5, <1>7, <1>13, <2>3, <3>1, <3>2 DEF FilePlace, sender
  <2> QED BY <1>2, <1>4, <1>9, <1>13, <2>1, <2>2, <2>3 DEF AboutFile
<1>14. CASE fileFlag = 1 /\ count = 0 /\ ideal = Asked(disk, m) /\ At(m.path, v)
  <2>1. CASE At(m.path, v)' /\ UNCHANGED Others
    BY <1>3, <1>5, <1>7, <1>14, <2>1 DEF FilePlace, Others, sender, flags
  <2>2. CASE /\ wire' = v /\ buf' = << >> /\ UNCHANGED << sender, folderFlag, disk >>
             /\ CloseFile(m.path) /\ UNCHANGED loop
    <3>1. path' = m.path /\ count' = 1 /\ UNCHANGED fileFlag
      BY <1>1, <1>2, <1>14, <2>2, MessageCopies DEF CloseFile
    <3>2. Rest(m.text, Open, a)'
      BY <1>1, <1>7, <1>10, <2>2, RestStart
    <3> QED BY <1>3, <1>5, <1>14, <2>2, <3>1, <3>2 DEF FilePlace, sender
  <2> QED BY <1>1, <1>2, <1>4, <1>14, <2>1, <2>2 DEF AboutFile
<1>15. CASE /\ fileFlag = 1 /\ count = 1 /\ path = m.path /\ ideal = Asked(disk, m)
            /\ Rest(m.text, Open, a)
  <2>1. CASE Rest(m.text, Open, a)' /\ UNCHANGED Others
    BY <1>3, <1>5, <1>15, <2>1 DEF FilePlace, Others, sender, flags
  <2>2. CASE Symbol = Open /\ buf = m.text /\ wire' = a
    <3>1. ~ NoFile(buf) /\ ~ NoFile(path)
      BY <1>1, <1>2, <1>15, <2>2 DEF NoFile
    <3>2. /\ disk' = WriteFile(disk, path, buf) /\ count' = 0 /\ buf' = << >>
          /\ UNCHANGED << sender, loop, fileFlag, folderFlag >>
      BY <1>11, <1>15, <2>2, <3>1 DEF CreateOpen
    <3>3. disk' = ideal'
      BY <1>15, <2>2, <3>2 DEF Asked, sender
    <3>4. CASE Full(m.text)
      <4>1. wire' = << "EMPTY_FILE" >> \o (<< Close >> \o d)
        BY <1>5, <1>6, <2>2, <3>4 DEF AfterText
      <4>2. Rest(<< "EMPTY_FILE" >>, Close, d)'
        BY <1>2, <1>9, <1>10, <3>2, <4>1, RestStart
      <4> QED BY <1>3, <1>6, <1>15, <3>2, <3>3, <4>2 DEF FilePlace, sender
    <3>5. CASE ~ Full(m.text)
      <4>1. wire' = << "SYNC_DONE" >> \o (<< Close >> \o << >>)
        BY <1>5, <2>2, <3>5 DEF AfterText, Ending
      <4>2. Rest(<< "SYNC_DONE" >>, Close, << >>)'
        BY <1>2, <1>9, <1>10, <3>2, <4>1, RestStart
      <4> QED BY <1>3, <1>15, <3>2, <3>3, <4>2 DEF FilePlace, sender
    <3> QED BY <3>4, <3>5
  <2> QED BY <1>1, <1>15, <2>1, <2>2, RestStep
<1>16. CASE fileFlag = 1 /\ count = 0 /\ disk = ideal /\ Rest(<< "EMPTY_FILE" >>, Close, d)
  <2>1. CASE Rest(<< "EMPTY_FILE" >>, Close, d)' /\ UNCHANGED Others
    BY <1>3, <1>6, <1>16, <2>1 DEF FilePlace, Others, sender, flags
  <2>2. CASE Symbol = Close /\ buf = << "EMPTY_FILE" >> /\ wire' = d
    <3>1. ~ AboutFolder(buf) /\ AboutFile(buf)
      BY <1>3, <1>16, <2>2 DEF AboutFolder, AboutFile
    <3>2. CloseFile(buf) /\ buf' = << >> /\ UNCHANGED << sender, loop, folderFlag, disk >>
      BY <1>12, <2>2, <3>1 DEF CreateClose
    <3>3. path' = << "EMPTY_FILE" >> /\ count' = 1 /\ UNCHANGED fileFlag
      BY <1>16, <2>2, <3>2, EmptyCopies DEF CloseFile
    <3>4. wire' = << >> \o (<< Open >> \o Ending)
      <4>1. << Open >> \o Ending = d /\ << >> \o d = d
        BY <1>6, AfterParts, Joined
      <4> QED BY <2>2, <4>1
    <3>5. Rest(<< >>, Open, Ending)'
      BY <1>10, <3>2, <3>4, RestStart
    <3> QED BY <1>3, <1>16, <3>2, <3>3, <3>5 DEF FilePlace, sender
  <2> QED BY <1>2, <1>9, <1>16, <2>1, <2>2, RestStep
<1>17. CASE /\ fileFlag = 1 /\ count = 1 /\ path = << "EMPTY_FILE" >> /\ disk = ideal
            /\ Rest(<< >>, Open, Ending)
  <2>1. CASE Rest(<< >>, Open, Ending)' /\ UNCHANGED Others
    BY <1>3, <1>17, <2>1 DEF FilePlace, Others, sender, flags
  <2>2. CASE Symbol = Open /\ buf = << >> /\ wire' = Ending
    <3>1. /\ count' = 0 /\ buf' = << >>
          /\ UNCHANGED << sender, disk, loop, fileFlag, folderFlag >>
      BY <1>11, <1>17, <2>2 DEF CreateOpen, NoFile
    <3>2. Rest(<< "SYNC_DONE" >>, Close, << >>)'
      BY <1>2, <1>9, <1>10, <2>2, <3>1, RestStart DEF Ending
    <3> QED BY <1>3, <1>17, <3>1, <3>2 DEF FilePlace, sender
  <2> QED BY <1>10, <1>17, <2>1, <2>2, RestStep
<1>18. CASE fileFlag = 1 /\ count = 0 /\ disk = ideal /\ Rest(<< "SYNC_DONE" >>, Close, << >>)
  <2>1. CASE Rest(<< "SYNC_DONE" >>, Close, << >>)' /\ UNCHANGED Others
    BY <1>3, <1>18, <2>1 DEF FilePlace, Others, sender, flags
  <2>2. CASE Symbol = Close /\ buf = << "SYNC_DONE" >> /\ wire' = << >>
    <3>1. ~ AboutFolder(buf) /\ AboutFile(buf)
      BY <1>3, <1>18, <2>2 DEF AboutFolder, AboutFile
    <3>2. CloseFile(buf) /\ buf' = << >> /\ UNCHANGED << sender, loop, folderFlag, disk >>
      BY <1>12, <2>2, <3>1 DEF CreateClose
    <3>3. fileFlag' = 0 /\ UNCHANGED << count, path >>
      BY <1>18, <2>2, <3>2 DEF CloseFile
    <3> QED BY <1>3, <1>18, <2>2, <3>2, <3>3 DEF Resting, RestAt, Calm, sender, LoopOf
  <2> QED BY <1>2, <1>9, <1>10, <1>18, <2>1, <2>2, RestStep
<1>19. \/ fileFlag = 0 /\ count = 0 /\ ideal = Asked(disk, m) /\ At(<< "SYNC_FILE" >>, y)
       \/ fileFlag = 1 /\ count = 0 /\ ideal = Asked(disk, m) /\ At(m.path, v)
       \/ /\ fileFlag = 1 /\ count = 1 /\ path = m.path /\ ideal = Asked(disk, m)
          /\ Rest(m.text, Open, a)
       \/ fileFlag = 1 /\ count = 0 /\ disk = ideal /\ Rest(<< "EMPTY_FILE" >>, Close, d)
       \/ /\ fileFlag = 1 /\ count = 1 /\ path = << "EMPTY_FILE" >> /\ disk = ideal
          /\ Rest(<< >>, Open, Ending)
       \/ fileFlag = 1 /\ count = 0 /\ disk = ideal /\ Rest(<< "SYNC_DONE" >>, Close, << >>)
  BY <1>5, <1>6, <1>7, <1>8 DEF FilePlace
<1> QED BY <1>13, <1>14, <1>15, <1>16, <1>17, <1>18, <1>19

LEMMA PutText ==
  ASSUME NEW dk, NEW p, NEW t PROVE Put(dk, p, File(t))[p].text = t
  BY DEF Put, File

LEMMA PutTwice ==
  ASSUME NEW dk, NEW p, NEW t, NEW u
  PROVE  Put(Put(dk, p, File(u)), p, File(t)) = Put(dk, p, File(t))
<1>1. DOMAIN Put(Put(dk, p, File(u)), p, File(t)) = DOMAIN Put(dk, p, File(t))
  BY DEF Put
<1>2. ASSUME NEW x \in DOMAIN Put(dk, p, File(t))
      PROVE  Put(Put(dk, p, File(u)), p, File(t))[x] = Put(dk, p, File(t))[x]
  BY <1>2 DEF Put
<1> QED BY <1>1, <1>2 DEF Put

(* In the content of an update the next symbol is that of the text, or the *)
(* text is written and the token of its end follows.                       *)
LEMMA WritingStep ==
  ASSUME NEW t \in Strings, PlainUpdate(t), TypeInv, loop = "content", Writing(t), Reading
  PROVE  /\ loop' = loop /\ path' = path /\ UNCHANGED << sender, flags >>
         /\ \/ Writing(t)' /\ Put(disk', path, File(t)) = Put(disk, path, File(t))
            \/ disk' = Put(disk, path, File(t)) /\ Rest(<< "SYNC_DONE" >>, Close, << >>)'
<1>1. PICK w : w = disk[path].text
  OBVIOUS
<1>2. PICK h : h = Pending
  OBVIOUS
<1>3. PICK b : b = buf
  OBVIOUS
<1>4. PICK q \in Strings : /\ w \o (h \o (b \o q)) = t /\ wire = q \o Token("SYNC_DONE")
                           /\ flag = 0 /\ b = << >> => w = << >>
  <2>1. PICK q \in Strings : /\ Held(w, h, b, q) = t /\ wire = q \o Token("SYNC_DONE")
                             /\ flag = 0 /\ b = << >> => w = << >>
    BY <1>1, <1>2, <1>3 DEF Writing
  <2>2. w \o (h \o (b \o q)) = t
    BY <2>1 DEF Held
  <2> QED BY <2>1, <2>2
<1>5. w \in Strings /\ h \in Strings /\ b \in Strings /\ b \o q \in Strings /\ flag \in 0 .. 1
  <2>1. IsFile(disk, path) /\ Typed(disk) /\ b \in Strings /\ flag \in 0 .. 1
    BY <1>3 DEF TypeInv, TypeOK
  <2>2. w \in Strings
    BY <1>1, <2>1 DEF IsFile, Typed
  <2>3. h \in Strings
    BY <1>2, SymbolParts, Joined DEF Pending
  <2> QED BY <2>1, <2>2, <2>3, Joined
<1>6. PICK g : g = h \o b
  OBVIOUS
<1>7. g \in Strings /\ w \o g \in Strings /\ w \o (g \o q) = t
  <2>1. Cat(h, b) \in Strings /\ Cat(w, Cat(h, b)) \in Strings
        /\ Cat(Cat(h, b), q) = Cat(h, Cat(b, q))
    BY <1>5, CatAssoc
  <2> QED BY <1>4, <1>6, <2>1 DEF Cat
<1>8. ~ Contains(b, Nul) /\ CString(b) = b
  <2>1. ~ Contains(t, Nul)
    BY DEF PlainUpdate, Has
  <2>2. ~ Contains(h \o (b \o q), Nul)
    <3>1. PICK k \in Strings : k = h \o (b \o q)
      BY <1>5, Joined
    <3>2. t = w \o (k \o << >>) /\ << >> \in Strings
      BY <1>4, <3>1, Joined
    <3> QED BY <1>5, <2>1, <3>1, <3>2, PartOf, ZenonT(30)
  <2>3. ~ Contains(b, Nul)
    BY <1>5, <2>2, PartOf
  <2> QED BY <1>5, <2>3, CStringParts
<1>9. Open \in Symbols /\ Close \in Symbols /\ Nul \in Symbols /\ << >> \in Strings
      /\ Open # Close /\ << Open >> \in Strings
  BY SymbolParts, Joined
<1>10. Ending \in Strings /\ << Open >> \o Ending = Token("SYNC_DONE")
       /\ Token("SYNC_DONE") \in Strings /\ << "SYNC_DONE" >> \in Strings
  BY AfterParts, TokenParts DEF Tokens
<1>11. wire' = Tail(wire)
  BY DEF Reading, TopOpen, TopText, TopClose, PathOpen, PathText, UpdatePath, DeletePath,
         ContentOpen, ContentText, ContentClose, CreateOpen, CreateText, CreateClose, Reads
<1>12. /\ Symbol = Open => ContentOpen
       /\ Symbol \notin {Open, Close} => ContentText
  BY <1>9 DEF Reading, TopOpen, TopText, TopClose, PathOpen, PathText, UpdatePath, DeletePath,
         ContentOpen, ContentText, ContentClose, CreateOpen, CreateText, CreateClose, IsText, Reads
<1>13. ContentOpen => /\ disk' = Put(disk, path, File(w \o g)) /\ buf' = << >>
                      /\ flag' = (IF b = << >> THEN 0 ELSE 1)
                      /\ UNCHANGED << sender, loop, path, flags >>
  BY <1>1, <1>2, <1>3, <1>6, <1>8 DEF ContentOpen, Write, Pending
<1>14. CASE q = << >>
  <2>1. wire = << Open >> \o Ending
    BY <1>4, <1>10, <1>14, Joined
  <2>2. Symbol = Open /\ wire' = << "SYNC_DONE" >> \o (<< Close >> \o << >>)
    BY <1>9, <1>10, <1>11, <2>1, OneSymbol DEF Symbol, Ending
  <2>3. w \o g = t
    BY <1>7, <1>14, Joined
  <2>4. Rest(<< "SYNC_DONE" >>, Close, << >>)'
    BY <1>9, <1>10, <1>12, <1>13, <2>2, RestStart
  <2> QED BY <1>12, <1>13, <2>2, <2>3, <2>4
<1>15. CASE q # << >>
  <2>1. PICK x \in Symbols, s \in Strings : x = Head(q) /\ s = Tail(q)
    BY <1>9, <1>15, NextSymbol
  <2>2. Symbol = x /\ wire' = s \o Token("SYNC_DONE")
    BY <1>4, <1>10, <1>11, <1>15, <2>1, NextSymbol DEF Symbol
  <2>3. /\ Len(w) \in Nat /\ Len(g) \in Nat /\ Len(w) + Len(g) + 1 \in 1 .. Len(t)
        /\ t[Len(w) + Len(g) + 1] = x
    <3>1. t = w \o (g \o q)
      BY <1>7
    <3>2. w \in Strings /\ g \in Strings
      BY <1>5, <1>7
    <3>3. /\ Len(w) \in Nat /\ Len(g) \in Nat /\ Len(w) + Len(g) + 1 \in 1 .. Len(t)
          /\ t[Len(w) + Len(g) + 1] = Head(q)
      BY <1>15, <3>1, <3>2, PartOf
    <3> QED BY <2>1, <3>3
  <2>4. DOMAIN t = 1 .. Len(t)
    BY LenProperties DEF Strings
  <2>5. x # Close /\ x # Nul
    BY <2>3, <2>4 DEF PlainUpdate, Has, Contains
  <2>6. PICK v \in Strings : v = w \o g
    BY <1>7
  <2>7. CASE x = Open
    <3>1. Len(w) + Len(g) + 1 > 1 /\ t[Len(w) + Len(g)] # Open
      <4>1. PICK i : i = Len(w) + Len(g) + 1
        OBVIOUS
      <4>2. i \in DOMAIN t /\ t[i] = Open /\ i - 1 = Len(w) + Len(g)
        BY <2>3, <2>4, <2>7, <4>1
      <4>3. i > 1 /\ t[i - 1] # Open
        BY <4>2 DEF PlainUpdate
      <4> QED BY <4>1, <4>2, <4>3
    <3>2. b # << >>
      <4> SUFFICES ASSUME b = << >> PROVE FALSE
        OBVIOUS
      <4>1. g = h
        BY <1>5, <1>6, Joined
      <4>2. CASE flag = 0
        <5>1. w = << >> /\ g = << >>
          BY <1>2, <1>4, <4>1, <4>2 DEF Pending
        <5>2. Len(w) = 0 /\ Len(g) = 0
          BY <1>9, <5>1, EmptySeq DEF Strings
        <5> QED BY <3>1, <5>2
      <4>3. CASE flag = 1
        <5>1. g = << Open >>
          BY <1>2, <4>1, <4>3 DEF Pending
        <5>2. Len(g) = 1 /\ g # << >> /\ Head(g) = Open
          BY <5>1
        <5>3. t = w \o (<< >> \o (g \o q))
          BY <1>5, <1>7, Joined
        <5>4. /\ g \o q \in Strings /\ g \o q # << >> /\ Head(g \o q) = Open
          BY <1>7, <5>2, NextSymbol, Joined
        <5>5. t[Len(w) + Len(<< >>) + 1] = Open
          BY <1>5, <1>9, <5>3, <5>4, PartOf
        <5>6. Len(<< >>) = 0
          OBVIOUS
        <5> QED BY <2>3, <3>1, <5>2, <5>5, <5>6
      <4> QED BY <1>5, <4>2, <4>3
    <3>3. /\ disk' = Put(disk, path, File(v)) /\ buf' = << >> /\ flag' = 1
          /\ UNCHANGED << sender, loop, path, flags >>
      BY <1>12, <1>13, <2>2, <2>7, <2>6, <3>2
    <3>4. disk'[path'].text = v
      <4>1. Put(disk, path, File(v))[path].text = v
        BY PutText
      <4> QED BY <3>3, <4>1
    <3>5. Put(disk', path, File(t)) = Put(disk, path, File(t))
      BY <3>3, PutTwice
    <3>6. v \o (<< Open >> \o (<< >> \o s)) = t
      <4>1. << >> \o s = s
        BY Joined
      <4>2. << Open >> \o s = q
        <5>1. (<< >> \o << x >>) \o s = << >> \o q
          BY <1>9, <1>15, <2>1, NextSymbol
        <5>2. << >> \o << x >> = << x >> /\ << >> \o q = q
          BY Joined
        <5> QED BY <2>7, <5>1, <5>2
      <4>3. Cat(Cat(w, g), q) = Cat(w, Cat(g, q))
        BY <1>5, <1>7, CatAssoc
      <4>4. (w \o g) \o q = t
        BY <1>7, <4>3 DEF Cat
      <4> QED BY <2>6, <4>1, <4>2, <4>4
    <3>7. Writing(t)'
      <4>1. Pending' = << Open >>
        BY <3>3 DEF Pending
      <4>2. Held(v, << Open >>, << >>, s) = t
        BY <3>6 DEF Held
      <4>3. Held(disk'[path'].text, Pending', buf', s) = t
        BY <3>3, <3>4, <4>1, <4>2
      <4>4. flag' # 0
        BY <3>3
      <4> QED BY <2>1, <2>2, <4>3, <4>4 DEF Writing
    <3> QED BY <3>3, <3>5, <3>7
  <2>8. CASE x # Open
    <3>1. buf' = Append(b, x) /\ UNCHANGED << sender, loop, path, flag, flags, disk >>
      BY <1>3, <1>12, <2>2, <2>5, <2>8 DEF ContentText
    <3>2. Append(b, x) \o s = b \o q
      BY <1>5, <1>9, <1>15, <2>1, NextSymbol
    <3>3. Append(b, x) # << >>
      BY <1>5, AppendProperties, SMTT(30) DEF Strings
    <3>4. Writing(t)'
      <4>1. Held(w, h, Append(b, x), s) = t
        BY <1>4, <3>2 DEF Held
      <4>2. Pending' = h /\ disk'[path'].text = w
        BY <1>1, <1>2, <3>1 DEF Pending
      <4>3. Held(disk'[path'].text, Pending', buf', s) = t
        BY <3>1, <4>1, <4>2
      <4> QED BY <2>2, <3>1, <3>3, <4>3 DEF Writing
    <3> QED BY <3>1, <3>4
  <2> QED BY <2>7, <2>8
<1> QED BY <1>14, <1>15

(* A file is updated.                                                      *)
LEMMA UpdateStep ==
  ASSUME NEW m \in Messages, m.kind = "update", PlainUpdate(m.text),
         TypeInv, UpdatePlace(m), Reading
  PROVE  UpdatePlace(m)' \/ Resting' \/ loop' = "exited"
<1>1. PICK p \in Known \cup New, t \in Strings : p = m.path /\ t = m.text
  BY MessageParts
<1>2. /\ p \in Strings /\ Even(p) /\ p # << "SYNC_UPDATE_DONE" >> /\ PlainUpdate(t)
      /\ \A dk : Asked(dk, m) = Put(dk, p, File(t))
  BY <1>1, PathParts DEF Tokens, Asked
<1>3. /\ << "SYNC_FILE" >> \in Strings /\ Even(<< "SYNC_FILE" >>)
      /\ CString(<< "SYNC_FILE" >>) = << "SYNC_FILE" >>
      /\ << "SYNC_DONE" >> \in Strings /\ Even(<< "SYNC_DONE" >>)
      /\ CString(<< "SYNC_DONE" >>) = << "SYNC_DONE" >>
      /\ Token("SYNC_DONE") \in Strings /\ << >> \in Strings
  BY TokenParts, Joined DEF Tokens
<1>4. PICK y \in Strings : y = t \o Token("SYNC_DONE")
  BY <1>3, Joined
<1>5. PICK z \in Strings : z = Braced(p, y)
  BY PathParts
<1>6. phase = "update" /\ Calm
  BY DEF UpdatePlace
<1>8. CASE loop = "top" /\ ideal = Put(disk, p, File(t)) /\ At(<< "SYNC_FILE" >>, z)
  <2>1. CASE At(<< "SYNC_FILE" >>, z)' /\ UNCHANGED Others
    BY <1>1, <1>2, <1>4, <1>5, <1>6, <1>8, <2>1 DEF UpdatePlace, Others, sender, flags, Calm
  <2>2. CASE /\ buf = << "SYNC_FILE" >> /\ wire' = z
             /\ TopClose \/ UpdatePath \/ DeletePath \/ CreateClose
    <3>1. TopClose
      BY <1>8, <2>2 DEF UpdatePath, DeletePath, CreateClose, Reads
    <3>2. Entered(CString(buf)) = "update"
      BY <1>3, <2>2 DEF Entered
    <3>3. loop' = "update" /\ buf' = << >> /\ UNCHANGED << sender, path, flag, flags, disk >>
      BY <3>1, <3>2 DEF TopClose
    <3>4. At(p, y)'
      BY <1>2, <1>5, <2>2, <3>3, AtStart DEF Braced
    <3> QED BY <1>1, <1>2, <1>4, <1>6, <1>8, <3>3, <3>4 DEF UpdatePlace, sender, flags, Calm
  <2> QED BY <1>3, <1>8, <2>1, <2>2, AtStep
<1>9. CASE loop = "update" /\ ideal = Put(disk, p, File(t)) /\ At(p, y)
  <2>1. CASE At(p, y)' /\ UNCHANGED Others
    BY <1>1, <1>2, <1>4, <1>6, <1>9, <2>1 DEF UpdatePlace, Others, sender, flags, Calm
  <2>2. CASE buf = p /\ wire' = y /\ (TopClose \/ UpdatePath \/ DeletePath \/ CreateClose)
    <3>1. UpdatePath
      BY <1>9, <2>2 DEF TopClose, DeletePath, CreateClose, Reads
    <3>2. CASE ~ IsFile(disk, p)
      BY <1>2, <2>2, <3>1, <3>2 DEF UpdatePath
    <3>3. CASE IsFile(disk, p)
      <4>1. /\ loop' = "content" /\ path' = p /\ disk' = Put(disk, p, File(<< >>))
            /\ buf' = << >> /\ flag' = 0 /\ UNCHANGED << sender, flags >>
        BY <1>2, <2>2, <3>1, <3>3 DEF UpdatePath
      <4>2. ideal' = Put(disk', p, File(t))
        BY <1>9, <4>1, PutTwice DEF sender
      <4>3. disk'[path'].text = << >>
        BY <4>1, PutText
      <4>4. Pending' = << >>
        BY <4>1 DEF Pending
      <4>5. Held(<< >>, << >>, << >>, t) = t
        BY Joined DEF Held
      <4>6. Held(disk'[path'].text, Pending', buf', t) = t
        <5>1. buf' = << >>
          BY <4>1
        <5> QED BY <4>3, <4>4, <4>5, <5>1
      <4>7. Writing(t)'
        BY <1>4, <2>2, <4>3, <4>6 DEF Writing
      <4> QED BY <1>1, <1>2, <1>6, <4>1, <4>2, <4>7 DEF UpdatePlace, sender, flags, Calm
    <3> QED BY <3>2, <3>3
  <2> QED BY <1>2, <1>9, <2>1, <2>2, AtStep
<1>10. CASE loop = "content" /\ ideal = Put(disk, p, File(t)) /\ path = p /\ Writing(t)
  <2>1. /\ loop' = loop /\ path' = p /\ UNCHANGED << sender, flags >>
        /\ \/ Writing(t)' /\ Put(disk', p, File(t)) = Put(disk, p, File(t))
           \/ disk' = Put(disk, p, File(t)) /\ Rest(<< "SYNC_DONE" >>, Close, << >>)'
    BY <1>2, <1>10, WritingStep
  <2>2. phase' = "update" /\ Calm' /\ ideal' = ideal
    BY <1>6, <2>1 DEF sender, flags, Calm
  <2>3. CASE Writing(t)' /\ Put(disk', p, File(t)) = Put(disk, p, File(t))
    <3>1. ideal' = Asked(disk', m)
      BY <1>2, <1>10, <2>2, <2>3
    <3> QED BY <1>1, <1>10, <2>1, <2>2, <2>3, <3>1 DEF UpdatePlace
  <2>4. CASE disk' = Put(disk, p, File(t)) /\ Rest(<< "SYNC_DONE" >>, Close, << >>)'
    <3>1. disk' = ideal'
      BY <1>10, <2>2, <2>4
    <3> QED BY <1>10, <2>1, <2>2, <2>4, <3>1 DEF UpdatePlace
  <2> QED BY <2>1, <2>3, <2>4
<1>11. CASE loop = "content" /\ disk = ideal /\ Rest(<< "SYNC_DONE" >>, Close, << >>)
  <2>1. CASE Rest(<< "SYNC_DONE" >>, Close, << >>)' /\ UNCHANGED Others
    BY <1>6, <1>11, <2>1 DEF UpdatePlace, Others, sender, flags, Calm
  <2>2. CASE Symbol = Close /\ buf = << "SYNC_DONE" >> /\ wire' = << >>
    <3>1. Open # Close
      BY SymbolParts
    <3>2. ContentClose
      BY <1>11, <2>2, <3>1 DEF Reading, TopOpen, TopText, TopClose, PathOpen, PathText, UpdatePath,
         DeletePath, ContentOpen, ContentText, CreateOpen, CreateText, CreateClose, IsText, Reads
    <3>3. loop' = "top" /\ buf' = << >> /\ UNCHANGED << sender, flags, disk >>
      BY <1>3, <2>2, <3>2 DEF ContentClose
    <3> QED BY <1>6, <1>11, <2>2, <3>3 DEF Resting, RestAt, Calm, sender, flags, LoopOf
  <2> QED BY <1>3, <1>11, <2>1, <2>2, RestStep
<1> QED BY <1>1, <1>2, <1>4, <1>5, <1>8, <1>9, <1>10, <1>11 DEF UpdatePlace

(* Between two phases it reads a token or two.                             *)
LEMMA TurnStep ==
  ASSUME TypeInv, TurnAt, Reading
  PROVE  (TurnAt' \/ RestAt') /\ disk' = disk
<1>1. Calm
  BY DEF TurnAt
<1>2. \A n \in Tokens : /\ << n >> \in Strings /\ Even(<< n >>) /\ CString(<< n >>) = << n >>
                        /\ Token(n) \in Strings /\ Token(n) = Braced(<< n >>, << >>)
  BY TokenParts
<1>3. << >> \in Strings
  BY Joined
<1>4. ASSUME NEW n \in Tokens, NEW r \in Strings, At(<< n >>, r), loop \in {"top", "delete", "create"}
      PROVE  \/ At(<< n >>, r)' /\ UNCHANGED Others
             \/ /\ buf = << n >> /\ CString(buf) = << n >> /\ wire' = r
                /\ \/ loop = "top" /\ TopClose
                   \/ loop = "delete" /\ DeletePath
                   \/ loop = "create" /\ CreateClose
  BY <1>1, <1>2, <1>4, AtStep DEF Calm, TopClose, UpdatePath, DeletePath, CreateClose, Reads
<1>5. ASSUME UNCHANGED << sender, flags, disk >>
      PROVE  phase' = phase /\ Calm' /\ disk' = disk
  BY <1>1, <1>5 DEF sender, flags, Calm
<1>6. ASSUME UNCHANGED Others
      PROVE  phase' = phase /\ loop' = loop /\ Calm' /\ disk' = disk
  BY <1>1, <1>6 DEF Others, sender, flags, Calm
<1>7. CASE phase = "delete" /\ loop = "top" /\ At(<< "SYNC_UPDATE_DONE" >>, Token("SYNC_DELETE"))
  <2>1. "SYNC_UPDATE_DONE" \in Tokens /\ "SYNC_DELETE" \in Tokens
    BY DEF Tokens
  <2>2. CASE buf = << "SYNC_UPDATE_DONE" >> /\ CString(buf) = buf /\ wire' = Token("SYNC_DELETE") /\ TopClose
    <3>1. loop' = "top" /\ buf' = << >> /\ UNCHANGED << sender, flags, disk >>
      BY <2>2 DEF TopClose, Entered, Ends
    <3>2. At(<< "SYNC_DELETE" >>, << >>)'
      BY <1>2, <1>3, <2>1, <2>2, <3>1, AtStart DEF Braced
    <3> QED BY <1>5, <1>7, <3>1, <3>2 DEF TurnAt
  <2>3. CASE At(<< "SYNC_UPDATE_DONE" >>, Token("SYNC_DELETE"))' /\ UNCHANGED Others
    BY <1>6, <1>7, <2>3 DEF TurnAt
  <2>4. Token("SYNC_DELETE") \in Strings
    BY <1>2, <2>1
  <2> QED BY <1>4, <1>7, <2>1, <2>2, <2>3, <2>4
<1>8. CASE phase = "delete" /\ loop = "top" /\ At(<< "SYNC_DELETE" >>, << >>)
  <2>1. "SYNC_DELETE" \in Tokens
    BY DEF Tokens
  <2>2. CASE buf = << "SYNC_DELETE" >> /\ CString(buf) = buf /\ wire' = << >> /\ TopClose
    <3>1. loop' = "delete" /\ buf' = << >> /\ UNCHANGED << sender, flags, disk >>
      BY <2>2 DEF TopClose, Entered
    <3> QED BY <1>5, <1>8, <2>2, <3>1 DEF RestAt, LoopOf
  <2>3. CASE At(<< "SYNC_DELETE" >>, << >>)' /\ UNCHANGED Others
    BY <1>6, <1>8, <2>3 DEF TurnAt
  <2> QED BY <1>3, <1>4, <1>8, <2>1, <2>2, <2>3
<1>9. CASE phase = "create" /\ loop = "delete" /\ At(<< "SYNC_DELETE_DONE" >>, Token("SYNC_CREATE"))
  <2>1. "SYNC_DELETE_DONE" \in Tokens /\ "SYNC_CREATE" \in Tokens
    BY DEF Tokens
  <2>2. CASE buf = << "SYNC_DELETE_DONE" >> /\ wire' = Token("SYNC_CREATE") /\ DeletePath
    <3>1. loop' = "top" /\ buf' = << >> /\ UNCHANGED << sender, flags, disk >>
      BY <2>2 DEF DeletePath
    <3>2. At(<< "SYNC_CREATE" >>, << >>)'
      BY <1>2, <1>3, <2>1, <2>2, <3>1, AtStart DEF Braced
    <3> QED BY <1>5, <1>9, <3>1, <3>2 DEF TurnAt
  <2>3. CASE At(<< "SYNC_DELETE_DONE" >>, Token("SYNC_CREATE"))' /\ UNCHANGED Others
    BY <1>6, <1>9, <2>3 DEF TurnAt
  <2> QED BY <1>2, <1>4, <1>9, <2>1, <2>2, <2>3
<1>10. CASE phase = "create" /\ loop = "top" /\ At(<< "SYNC_CREATE" >>, << >>)
  <2>1. "SYNC_CREATE" \in Tokens
    BY DEF Tokens
  <2>2. CASE buf = << "SYNC_CREATE" >> /\ CString(buf) = buf /\ wire' = << >> /\ TopClose
    <3>1. loop' = "create" /\ buf' = << >> /\ UNCHANGED << sender, flags, disk >>
      BY <2>2 DEF TopClose, Entered
    <3> QED BY <1>5, <1>10, <2>2, <3>1 DEF RestAt, LoopOf
  <2>3. CASE At(<< "SYNC_CREATE" >>, << >>)' /\ UNCHANGED Others
    BY <1>6, <1>10, <2>3 DEF TurnAt
  <2> QED BY <1>3, <1>4, <1>10, <2>1, <2>2, <2>3
<1>11. CASE phase = "done" /\ loop = "create" /\ At(<< "SYNC_CREATE_DONE" >>, << >>)
  <2>1. "SYNC_CREATE_DONE" \in Tokens
    BY DEF Tokens
  <2>2. CASE buf = << "SYNC_CREATE_DONE" >> /\ wire' = << >> /\ CreateClose
    <3>1. ~ AboutFolder(buf) /\ ~ AboutFile(buf)
      BY <1>1, <2>2 DEF AboutFolder, AboutFile, Calm
    <3>2. loop' = "top" /\ buf' = << >> /\ UNCHANGED << sender, flags, disk >>
      BY <1>1, <2>2, <3>1 DEF CreateClose, Calm, flags
    <3> QED BY <1>5, <1>11, <2>2, <3>2 DEF RestAt, LoopOf
  <2>3. CASE At(<< "SYNC_CREATE_DONE" >>, << >>)' /\ UNCHANGED Others
    BY <1>6, <1>11, <2>3 DEF TurnAt
  <2> QED BY <1>3, <1>4, <1>11, <2>1, <2>2, <2>3
<1>12. CASE phase = "sent" /\ loop = "top" /\ At(<< "DONE_CONTROL" >>, << >>)
  <2>1. "DONE_CONTROL" \in Tokens
    BY DEF Tokens
  <2>2. CASE buf = << "DONE_CONTROL" >> /\ CString(buf) = buf /\ wire' = << >> /\ TopClose
    <3>1. loop' = "over" /\ buf' = << >> /\ UNCHANGED << sender, flags, disk >>
      BY <2>2 DEF TopClose, Entered
    <3> QED BY <1>5, <1>12, <2>2, <3>1 DEF RestAt, LoopOf
  <2>3. CASE At(<< "DONE_CONTROL" >>, << >>)' /\ UNCHANGED Others
    BY <1>6, <1>12, <2>3 DEF TurnAt
  <2> QED BY <1>3, <1>4, <1>12, <2>1, <2>2, <2>3
<1> QED BY <1>7, <1>8, <1>9, <1>10, <1>11, <1>12 DEF TurnAt

(* A message that is sent is read from its first brace.                    *)
LEMMA SayStep ==
  ASSUME NEW m \in Messages, TypeInv, RestAt, Say(m),
         phase = (IF m.kind \in {"update", "delete"} THEN m.kind ELSE "create")
  PROVE  /\ phase' = phase /\ Calm' /\ disk' = disk /\ ideal' = Asked(ideal, m)
         /\ m.kind \in {"update", "file"} =>
              /\ loop' = (IF m.kind = "update" THEN "top" ELSE "create")
              /\ At(<< "SYNC_FILE" >>, Following(m.path, m.text))'
         /\ m.kind = "delete" => DeleteAt(m)'
         /\ m.kind = "folder" => FolderBefore(m)'
<1>1. PICK p \in Known \cup New, t \in Strings : p = m.path /\ t = m.text
  BY MessageParts
<1>2. /\ buf' = << >> /\ loop' = loop /\ loop = LoopOf[phase] /\ phase' = phase
      /\ wire' = Wire(m) /\ UNCHANGED << flags, disk >> /\ ideal' = Asked(ideal, m)
  BY DEF RestAt, Say
<1>3. fileFlag' = 0 /\ folderFlag' = 0 /\ count' = 0
  BY <1>2 DEF RestAt, Calm, flags
<1>4. "SYNC_FILE" \in Tokens /\ "SYNC_FOLDER" \in Tokens /\ "SYNC_DONE" \in Tokens
  BY DEF Tokens
<1>5. << "SYNC_FILE" >> \in Strings /\ << "SYNC_FOLDER" >> \in Strings /\ p \in Strings
      /\ Token("SYNC_DONE") \in Strings /\ << >> \in Strings
  BY <1>4, TokenParts, PathParts, Joined
<1>6. ASSUME m.kind \in {"update", "file"}
      PROVE  At(<< "SYNC_FILE" >>, Following(m.path, m.text))'
  <2>1. PICK v \in Strings : v = t \o (<< Open >> \o AfterText(t))
    <3>1. PICK a \in Strings : a = AfterText(t)
      BY AfterParts
    <3> QED BY <3>1, SymbolParts, Joined
  <2>2. PICK z \in Strings : z = Braced(p, v)
    BY PathParts
  <2>3. Payload(t) \o Token("SYNC_DONE") = v
    BY <2>1, AfterParts
  <2>4. wire' = Braced(<< "SYNC_FILE" >>, z)
    BY <1>1, <1>2, <1>6, <2>2, <2>3, WireParts
  <2>5. At(<< "SYNC_FILE" >>, z)'
    BY <1>2, <1>5, <2>4, AtStart DEF Braced
  <2> QED BY <1>1, <2>1, <2>2, <2>5 DEF Following
<1>7. CASE m.kind = "update"
  BY <1>2, <1>3, <1>6, <1>7 DEF Calm, LoopOf
<1>8. CASE m.kind = "delete"
  <2>1. wire' = Braced(p, << >>)
    BY <1>1, <1>2, <1>8, WireParts
  <2>2. At(p, << >>)'
    BY <1>2, <1>5, <2>1, AtStart DEF Braced
  <2>3. loop' = "delete" /\ phase' = "delete"
    BY <1>2, <1>8 DEF LoopOf
  <2> QED BY <1>1, <1>2, <1>3, <1>8, <2>2, <2>3 DEF DeleteAt, Calm
<1>9. CASE m.kind = "folder"
  <2>1. PICK z \in Strings : z = Braced(p, Token("SYNC_DONE"))
    BY <1>5, PathParts
  <2>2. wire' = Braced(<< "SYNC_FOLDER" >>, z)
    BY <1>1, <1>2, <1>9, <2>1, WireParts
  <2>3. At(<< "SYNC_FOLDER" >>, z)'
    BY <1>2, <1>5, <2>2, AtStart DEF Braced
  <2>4. loop' = "create" /\ phase' = "create"
    BY <1>2, <1>9 DEF LoopOf
  <2> QED BY <1>1, <1>2, <1>3, <1>9, <2>1, <2>3, <2>4 DEF FolderBefore, Calm
<1>10. CASE m.kind = "file"
  BY <1>2, <1>3, <1>6, <1>10 DEF Calm, LoopOf
<1> QED BY <1>7, <1>8, <1>9, <1>10, MessageParts DEF Kinds

(* A message of a plain content.                                           *)
LEMMA PlainSayStep ==
  ASSUME NEW m \in Messages, TypeInv, Resting, Plain(m), Say(m),
         phase = (IF m.kind \in {"update", "delete"} THEN m.kind ELSE "create")
  PROVE  MessagePlace(m)'
<1>1. /\ phase' = phase /\ Calm' /\ ideal' = Asked(disk', m)
      /\ m.kind \in {"update", "file"} =>
           /\ loop' = (IF m.kind = "update" THEN "top" ELSE "create")
           /\ At(<< "SYNC_FILE" >>, Following(m.path, m.text))'
      /\ m.kind = "delete" => DeleteAt(m)'
      /\ m.kind = "folder" => FolderBefore(m)'
  BY SayStep DEF Resting
<1>2. CASE m.kind = "update"
  <2>1. AfterText(m.text) = Ending
    BY <1>2 DEF Plain, PlainUpdate, AfterText
  <2>2. << Open >> \o AfterText(m.text) = Token("SYNC_DONE")
    BY <2>1, AfterParts
  <2> QED BY <1>1, <1>2, <2>2 DEF MessagePlace, UpdatePlace, Following
<1>3. CASE m.kind = "delete"
  BY <1>1, <1>3 DEF MessagePlace, DeletePlace
<1>4. CASE m.kind = "folder"
  BY <1>1, <1>4 DEF MessagePlace, FolderPlace
<1>5. CASE m.kind = "file"
  BY <1>1, <1>5 DEF MessagePlace, FilePlace, Following, Calm
<1> QED BY <1>2, <1>3, <1>4, <1>5, MessageParts DEF Kinds

(* So are the tokens between two phases.                                   *)
LEMMA TokensStep ==
  ASSUME TypeInv, RestAt, EndUpdates \/ EndDeletes \/ EndCreates \/ EndTurn
  PROVE  TurnAt' /\ UNCHANGED << sent, disk, ideal >>
<1>1. \A n \in Tokens : /\ << n >> \in Strings /\ Token(n) \in Strings
                        /\ Token(n) = Braced(<< n >>, << >>)
                        /\ \A k \in Tokens : Token(n) \o Token(k) = Braced(<< n >>, Token(k))
  BY TokenParts
<1>2. << >> \in Strings
  BY Joined
<1>3. ASSUME NEW n \in Tokens, NEW r \in Strings, wire' = Braced(<< n >>, r), buf' = << >>
      PROVE  At(<< n >>, r)'
  BY <1>1, <1>3, AtStart DEF Braced
<1>4. ASSUME NEW a, NEW b, NEW w, SendTokens(a, b, w)
      PROVE  /\ phase = a /\ phase' = b /\ loop' = LoopOf[a] /\ buf' = << >> /\ wire' = w
             /\ Calm' /\ UNCHANGED << sent, disk, ideal >>
  BY <1>4 DEF SendTokens, RestAt, Calm, flags
<1>5. CASE EndUpdates
  <2>1. "SYNC_UPDATE_DONE" \in Tokens /\ "SYNC_DELETE" \in Tokens
    BY DEF Tokens
  <2>2. PICK w : w = Token("SYNC_UPDATE_DONE") \o Token("SYNC_DELETE")
    OBVIOUS
  <2>3. SendTokens("update", "delete", w)
    BY <1>5, <2>2 DEF EndUpdates
  <2>4. /\ phase' = "delete" /\ loop' = "top" /\ buf' = << >> /\ wire' = w
        /\ Calm' /\ UNCHANGED << sent, disk, ideal >>
    BY <1>4, <2>3 DEF LoopOf
  <2>5. At(<< "SYNC_UPDATE_DONE" >>, Token("SYNC_DELETE"))'
    BY <1>1, <1>3, <2>1, <2>2, <2>4
  <2> QED BY <2>4, <2>5 DEF TurnAt
<1>6. CASE EndDeletes
  <2>1. "SYNC_DELETE_DONE" \in Tokens /\ "SYNC_CREATE" \in Tokens
    BY DEF Tokens
  <2>2. PICK w : w = Token("SYNC_DELETE_DONE") \o Token("SYNC_CREATE")
    OBVIOUS
  <2>3. SendTokens("delete", "create", w)
    BY <1>6, <2>2 DEF EndDeletes
  <2>4. /\ phase' = "create" /\ loop' = "delete" /\ buf' = << >> /\ wire' = w
        /\ Calm' /\ UNCHANGED << sent, disk, ideal >>
    BY <1>4, <2>3 DEF LoopOf
  <2>5. At(<< "SYNC_DELETE_DONE" >>, Token("SYNC_CREATE"))'
    BY <1>1, <1>3, <2>1, <2>2, <2>4
  <2> QED BY <2>4, <2>5 DEF TurnAt
<1>7. CASE EndCreates
  <2>1. "SYNC_CREATE_DONE" \in Tokens
    BY DEF Tokens
  <2>2. /\ phase' = "done" /\ loop' = "create" /\ buf' = << >>
        /\ wire' = Token("SYNC_CREATE_DONE") /\ Calm' /\ UNCHANGED << sent, disk, ideal >>
    BY <1>4, <1>7 DEF EndCreates, LoopOf
  <2>3. At(<< "SYNC_CREATE_DONE" >>, << >>)'
    BY <1>1, <1>2, <1>3, <2>1, <2>2
  <2> QED BY <2>2, <2>3 DEF TurnAt
<1>8. CASE EndTurn
  <2>1. "DONE_CONTROL" \in Tokens
    BY DEF Tokens
  <2>2. /\ phase' = "sent" /\ loop' = "top" /\ buf' = << >>
        /\ wire' = Token("DONE_CONTROL") /\ Calm' /\ UNCHANGED << sent, disk, ideal >>
    BY <1>4, <1>8 DEF EndTurn, LoopOf
  <2>3. At(<< "DONE_CONTROL" >>, << >>)'
    BY <1>1, <1>2, <1>3, <2>1, <2>2
  <2> QED BY <2>2, <2>3 DEF TurnAt
<1> QED BY <1>5, <1>6, <1>7, <1>8

-----------------------------------------------------------------------------
(* The receiver is at one of the places, and so in step.                   *)

(* No text is ahead when all is read.                                      *)
LEMMA NothingAhead ==
  ASSUME wire = << >>
  PROVE  /\ \A w, r \in Strings : ~ At(w, r) /\ ~ Rest(w, Open, r) /\ ~ Rest(w, Close, r)
         /\ ~ TurnAt /\ ~ FolderAfter
         /\ \A m \in Messages : ~ DeleteAt(m) /\ ~ FolderBefore(m)
<1>1. << >> \in Strings /\ Open \in Symbols /\ Close \in Symbols
  BY SymbolParts, Joined
<1>2. \A n \in Tokens : << n >> \in Strings /\ Token(n) \in Strings
  BY TokenParts
<1>3. \A w, r \in Strings : ~ At(w, r) /\ ~ Rest(w, Open, r) /\ ~ Rest(w, Close, r)
  BY <1>1, AtWire, RestWire
<1>4. {"SYNC_UPDATE_DONE", "SYNC_DELETE", "SYNC_DELETE_DONE", "SYNC_CREATE", "SYNC_CREATE_DONE",
       "DONE_CONTROL", "SYNC_DONE", "SYNC_FOLDER"} \subseteq Tokens
  BY DEF Tokens
<1>5. ~ TurnAt /\ ~ FolderAfter
  BY <1>1, <1>2, <1>3, <1>4 DEF TurnAt, FolderAfter
<1>6. ASSUME NEW m \in Messages
      PROVE  ~ DeleteAt(m) /\ ~ FolderBefore(m)
  <2>1. m.path \in Strings /\ Braced(m.path, Token("SYNC_DONE")) \in Strings
    BY <1>2, <1>4, MessageParts, PathParts
  <2> QED BY <1>1, <1>2, <1>3, <1>4, <2>1 DEF DeleteAt, FolderBefore
<1> QED BY <1>3, <1>5, <1>6

(* Something is on its way at every place but the resting one.             *)
LEMMA PlaceWire ==
  ASSUME TypeInv, InPlace, wire = << >>
  PROVE  Resting
<1>1. << >> \in Strings /\ Ending \in Strings /\ Open \in Symbols /\ Close \in Symbols
  BY AfterParts, SymbolParts, Joined
<1>2. \A n \in Tokens : << n >> \in Strings /\ Token(n) \in Strings
  BY TokenParts
<1>3. \A w, r \in Strings : ~ At(w, r)
  BY NothingAhead
<1>4. \A w, r \in Strings : ~ Rest(w, Open, r) /\ ~ Rest(w, Close, r)
  BY NothingAhead
<1>5. ~ TurnPlace
  BY NothingAhead DEF TurnPlace
<1>6. ASSUME NEW m \in Messages
      PROVE  ~ MessagePlace(m)
  <2>1. {"SYNC_FILE", "SYNC_FOLDER", "SYNC_DONE", "EMPTY_FILE"} \subseteq Tokens
    BY DEF Tokens
  <2>2. PICK p \in Known \cup New, t \in Strings : p = m.path /\ t = m.text /\ p \in Strings
    BY MessageParts
  <2>3. PICK d \in Strings : d = Token("SYNC_DONE")
    BY <1>2, <2>1
  <2>4. PICK a \in Strings : a = AfterText(t)
    BY AfterParts
  <2>5. PICK y \in Strings : y = t \o d
    BY Joined
  <2>6. PICK v \in Strings : v = t \o (<< Open >> \o a)
    BY <1>1, Joined
  <2>7. Braced(p, y) \in Strings /\ Braced(p, d) \in Strings /\ Braced(p, v) \in Strings
    BY PathParts
  <2>8. ~ UpdatePlace(m)
    <3>1. ~ Writing(t)
      <4> SUFFICES ASSUME NEW q \in Strings, wire = q \o Token("SYNC_DONE") PROVE FALSE
        BY DEF Writing
      <4>1. Token("SYNC_DONE") = << Open >> \o Ending
        BY AfterParts
      <4>2. CASE q = << >>
        <5>1. << >> \o d = d
          BY <2>3, Joined
        <5>2. << Open >> \o Ending # << >>
          BY <1>1, OneSymbol
        <5> QED BY <2>3, <4>1, <4>2, <5>1, <5>2
      <4>3. CASE q # << >>
        <5>1. q \o d # << >>
          BY <4>3, NextSymbol
        <5> QED BY <2>3, <5>1
      <4> QED BY <4>2, <4>3
    <3> QED BY <1>1, <1>2, <1>3, <1>4, <2>1, <2>2, <2>3, <2>5, <2>7, <3>1 DEF UpdatePlace
  <2>9. ~ DeletePlace(m)
    BY NothingAhead DEF DeletePlace
  <2>10. ~ FolderPlace(m)
    BY NothingAhead DEF FolderPlace
  <2>11. ~ FilePlace(m)
    BY <1>1, <1>2, <1>3, <1>4, <2>1, <2>2, <2>3, <2>4, <2>6, <2>7 DEF FilePlace
  <2> QED BY <2>8, <2>9, <2>10, <2>11 DEF MessagePlace
<1>7. sent # << >> => Last(sent) \in Messages
  <2> SUFFICES ASSUME sent # << >> PROVE Last(sent) \in Messages
    OBVIOUS
  <2>1. sent \in Seq(Messages)
    BY DEF TypeInv, TypeOK, Messages
  <2>2. Len(sent) \in Nat /\ Len(sent) \in 1 .. Len(sent)
    BY <2>1, EmptySeq, LenProperties
  <2> QED BY <2>1, <2>2, ElementOfSeq DEF Last
<1> QED BY <1>5, <1>6, <1>7 DEF InPlace

LEMMA InitStepInv == Init => StepInv
<1> SUFFICES ASSUME Init PROVE StepInv
  OBVIOUS
<1>1. Resting
  BY DEF Init, Resting, RestAt, Calm, LoopOf
<1> QED BY <1>1, InitTypeOK DEF StepInv, InPlace

(* The last message of a turn, and the others.                             *)
LEMMA LastParts ==
  ASSUME NEW ms \in Seq(Messages)
  PROVE  /\ ms # << >> /\ All(ms, Plain) => Last(ms) \in Messages /\ Plain(Last(ms))
         /\ \A m \in Messages :
              /\ Append(ms, m) # << >> /\ Last(Append(ms, m)) = m
              /\ All(Append(ms, m), Plain) => All(ms, Plain) /\ Plain(m)
<1>1. Len(ms) \in Nat /\ DOMAIN ms = 1 .. Len(ms) /\ (ms # << >> => Len(ms) # 0)
  BY EmptySeq, LenProperties
<1>2. ms # << >> => Len(ms) \in DOMAIN ms /\ ms[Len(ms)] \in Messages
  BY <1>1, ElementOfSeq
<1>3. ASSUME NEW m \in Messages
      PROVE  /\ Append(ms, m) # << >> /\ Last(Append(ms, m)) = m
             /\ All(Append(ms, m), Plain) => All(ms, Plain) /\ Plain(m)
  <2>1. PICK ns \in Seq(Messages) : ns = Append(ms, m)
    BY AppendProperties
  <2>2. /\ Len(ns) = Len(ms) + 1 /\ ns[Len(ns)] = m /\ ns # << >>
        /\ \A i \in 1 .. Len(ms) : ns[i] = ms[i]
    BY <2>1, AppendProperties
  <2>3. DOMAIN ns = 1 .. Len(ns)
    BY LenProperties
  <2>4. All(ns, Plain) => All(ms, Plain) /\ Plain(m)
    <3> SUFFICES ASSUME All(ns, Plain) PROVE All(ms, Plain) /\ Plain(m)
      OBVIOUS
    <3>1. \A i \in 1 .. Len(ns) : Plain(ns[i])
      BY <2>3 DEF All
    <3>2. Len(ns) \in 1 .. Len(ns) /\ 1 .. Len(ms) \subseteq 1 .. Len(ns)
      BY <1>1, <2>2
    <3>3. \A i \in 1 .. Len(ms) : Plain(ms[i])
      BY <2>2, <3>1, <3>2
    <3> QED BY <1>1, <2>2, <3>1, <3>2, <3>3 DEF All
  <2> QED BY <2>1, <2>2, <2>4 DEF Last
<1> QED BY <1>2, <1>3 DEF All, Last

(* The sender goes on when the receiver is at rest.                        *)
LEMMA SendStep == ASSUME StepInv, Send PROVE StepInv'
<1>1. TypeInv /\ TypeInv'
  BY SendTypeOK DEF StepInv
<1>2. wire = << >> /\ loop # "exited"
  BY DEF Send, Ready, Stopped
<1>3. sent \in Seq(Messages)
  BY <1>1 DEF TypeInv, TypeOK, Messages
<1>4. All(sent, Plain) => Resting
  BY <1>1, <1>2, PlaceWire DEF StepInv
<1>5. ASSUME NEW k \in Kinds, NEW p \in Known \cup New, NEW t \in Texts \cup {<< >>},
             Say(Message(k, p, t)),
             phase = (IF k \in {"update", "delete"} THEN k ELSE "create"),
             All(sent', Plain)
      PROVE  InPlace'
  <2>1. PICK m \in Messages : m = Message(k, p, t)
    BY DEF Messages, Message
  <2>2. m.kind = k /\ Say(m)
    BY <1>5, <2>1 DEF Message
  <2>3. sent' = Append(sent, m)
    BY <2>2 DEF Say
  <2>4. All(sent, Plain) /\ Plain(m) /\ sent' # << >> /\ Last(sent') = m
    BY <1>3, <1>5, <2>3, LastParts
  <2>5. MessagePlace(m)'
    BY <1>1, <1>4, <1>5, <2>2, <2>4, PlainSayStep
  <2> QED BY <2>4, <2>5 DEF InPlace
<1>6. ASSUME EndUpdates \/ EndDeletes \/ EndCreates \/ EndTurn, All(sent', Plain)
      PROVE  InPlace'
  <2>1. All(sent, Plain)
    BY <1>6 DEF EndUpdates, EndDeletes, EndCreates, EndTurn, SendTokens
  <2>2. TurnPlace'
    BY <1>1, <1>4, <1>6, <2>1, TokensStep DEF TurnPlace, Resting
  <2> QED BY <2>2 DEF InPlace
<1>7. ASSUME All(sent', Plain)
      PROVE  InPlace'
  <2>1. ASSUME NEW p \in Known, NEW t \in Texts, SendUpdate(p, t) PROVE InPlace'
    BY <1>5, <1>7, <2>1 DEF SendUpdate, Kinds
  <2>2. ASSUME NEW p \in Known, SendDelete(p) PROVE InPlace'
    BY <1>5, <1>7, <2>2 DEF SendDelete, Kinds
  <2>3. ASSUME NEW p \in New, NEW t \in Texts, SendFile(p, t) PROVE InPlace'
    BY <1>5, <1>7, <2>3 DEF SendFile, Kinds
  <2>4. ASSUME NEW p \in New, SendFolder(p) PROVE InPlace'
    BY <1>5, <1>7, <2>4 DEF SendFolder, Kinds
  <2> QED BY <1>6, <1>7, <2>1, <2>2, <2>3, <2>4 DEF Send
<1> QED BY <1>1, <1>7 DEF StepInv

(* What is read leads from place to place.                                 *)
LEMMA ReadingStep == ASSUME StepInv, Reading PROVE StepInv'
<1>1. TypeInv /\ TypeInv'
  BY ReadingTypeOK DEF StepInv
<1>2. wire # << >> /\ loop # "exited" /\ sent' = sent /\ ideal' = ideal
  BY ReadingParts DEF sender, Stopped
<1>3. sent \in Seq(Messages)
  BY <1>1 DEF TypeInv, TypeOK, Messages
<1>4. ASSUME All(sent', Plain), loop' # "exited"
      PROVE  InPlace'
  <2>1. InPlace
    BY <1>2, <1>4 DEF StepInv
  <2>2. CASE Resting
    BY <1>2, <2>2 DEF Resting, RestAt
  <2>3. CASE TurnPlace
    BY <1>1, <1>2, <2>3, TurnStep DEF InPlace, TurnPlace, Resting
  <2>4. CASE sent # << >> /\ MessagePlace(Last(sent))
    <3>1. PICK m \in Messages : m = Last(sent) /\ Plain(m)
      BY <1>2, <1>3, <1>4, <2>4, LastParts
    <3>2. MessagePlace(m)' \/ Resting'
      <4>1. CASE m.kind = "update" /\ UpdatePlace(m)
        BY <1>1, <1>4, <3>1, <4>1, UpdateStep DEF MessagePlace, Plain
      <4>2. CASE m.kind = "delete" /\ DeletePlace(m)
        BY <1>1, <1>2, <4>2, DeleteStep DEF MessagePlace, DeletePlace, Resting
      <4>3. CASE m.kind = "folder" /\ FolderPlace(m)
        BY <1>1, <1>2, <4>3, FolderStep DEF MessagePlace, FolderPlace, Resting
      <4>4. CASE m.kind = "file" /\ FilePlace(m)
        BY <1>1, <3>1, <4>4, FileStep DEF MessagePlace, Plain
      <4> QED BY <2>4, <3>1, <4>1, <4>2, <4>3, <4>4 DEF MessagePlace
    <3>3. sent' # << >> /\ Last(sent') = m
      BY <1>2, <2>4, <3>1
    <3> QED BY <3>2, <3>3 DEF InPlace
  <2> QED BY <2>1, <2>2, <2>3, <2>4 DEF InPlace
<1> QED BY <1>1, <1>4 DEF StepInv

(* What is between braces fits in pathBuffer.                              *)
LEMMA PlainFits ==
  ASSUME NEW m \in Messages, Plain(m), TypeInv, MessagePlace(m)
  PROVE  ~ CreateCrash
<1> SUFFICES ASSUME CreateCrash PROVE FALSE
  OBVIOUS
<1>1. /\ loop = "create" /\ Symbol = Close /\ folderFlag = 0 /\ fileFlag = 1 /\ count = 0
      /\ buf # << "SYNC_DONE" >> /\ Len(buf) > PathSize
  BY DEF CreateCrash
<1>2. m.kind = "file" /\ FilePlace(m)
  BY <1>1 DEF MessagePlace, UpdatePlace, DeletePlace, DeleteAt, FolderPlace, FolderBefore,
     FolderAfter, Calm
<1>3. /\ m.path \in Strings /\ Even(m.path) /\ m.text \in Strings
      /\ AfterText(m.text) \in Strings /\ << Open >> \in Strings /\ << >> \in Strings
  BY MessageParts, AfterParts, SymbolParts, Joined
<1>4. \A n \in Tokens : << n >> \in Strings /\ Even(<< n >>) /\ Token(n) \in Strings
  BY TokenParts
<1>5. "EMPTY_FILE" \in Tokens /\ "SYNC_DONE" \in Tokens
  BY DEF Tokens
<1>6. m.text \o (<< Open >> \o AfterText(m.text)) \in Strings
  BY <1>3, Joined
<1>7. CASE At(m.path, m.text \o (<< Open >> \o AfterText(m.text)))
  <2>1. buf = m.path
    BY <1>1, <1>3, <1>6, <1>7, AtHead
  <2>2. Len(m.path) <= PathSize
    BY MessageCopies
  <2>3. Len(buf) \in Nat /\ PathSize \in Nat
    BY <1>3, <2>1, LenProperties, TurnAssumption DEF Strings
  <2> QED BY <1>1, <2>1, <2>2, <2>3
<1>8. CASE Rest(<< "EMPTY_FILE" >>, Close, Token("SYNC_DONE"))
  <2>1. buf = << "EMPTY_FILE" >>
    BY <1>1, <1>4, <1>5, <1>8, RestHead
  <2>2. Len(buf) <= PathSize /\ Len(buf) = 1 /\ PathSize \in Nat
    BY <2>1, EmptyCopies, TurnAssumption
  <2> QED BY <1>1, <2>2
<1>9. CASE Rest(<< "SYNC_DONE" >>, Close, << >>)
  BY <1>1, <1>3, <1>4, <1>5, <1>9, RestHead
<1> QED BY <1>1, <1>2, <1>7, <1>8, <1>9 DEF FilePlace

LEMMA ReceiveStep == ASSUME StepInv, Receive PROVE StepInv'
<1>1. CASE CreateCrash
  <2>1. TypeInv /\ TypeInv' /\ sent' = sent /\ loop = "create" /\ wire # << >>
    BY <1>1, ReceiveTypeOK DEF StepInv, CreateCrash, sender
  <2>2. ASSUME All(sent, Plain) PROVE FALSE
    <3>1. InPlace
      BY <2>1, <2>2 DEF StepInv
    <3>2. ~ Resting /\ ~ TurnPlace
      <4>1. ~ Resting
        BY <2>1 DEF Resting, RestAt
      <4>2. ASSUME TurnAt PROVE FALSE
        BY <1>1, <4>2 DEF TurnAt, CreateCrash, Calm
      <4> QED BY <4>1, <4>2 DEF TurnPlace
    <3>3. sent # << >> /\ MessagePlace(Last(sent))
      BY <3>1, <3>2 DEF InPlace
    <3>4. sent \in Seq(Messages)
      BY <2>1 DEF TypeInv, TypeOK, Messages
    <3>5. PICK m \in Messages : m = Last(sent) /\ Plain(m)
      BY <2>2, <3>3, <3>4, LastParts
    <3> QED BY <1>1, <2>1, <3>3, <3>5, PlainFits
  <2> QED BY <2>1, <2>2 DEF StepInv
<1> QED BY <1>1, ReceiveCases, ReadingStep

(* As long as the contents are plain, the receiver is at rest between any  *)
(* two messages and its directory is what the messages ask for, however    *)
(* many files a turn has, whatever their length and the block size.        *)
THEOREM PlainInStep == Spec => []InStep
<1>1. StepInv /\ [Next]_vars => StepInv'
  <2> SUFFICES ASSUME StepInv, [Next]_vars PROVE StepInv'
    OBVIOUS
  <2>1. CASE UNCHANGED vars
    <3> USE <2>1 DEF vars
    <3>1. TypeInv'
      BY DEF StepInv, TypeInv, TypeOK, Typed, IsFile
    <3>2. Calm' = Calm /\ Pending' = Pending
      BY DEF Calm, Pending
    <3>3. \A w, x, r : Rest(w, x, r)' = Rest(w, x, r)
      BY DEF Rest
    <3>4. \A w, r : At(w, r)' = At(w, r)
      BY DEF At, Rest
    <3>5. \A t : Writing(t)' = Writing(t)
      BY DEF Writing, Pending
    <3>6. InPlace => InPlace'
      BY <3>2, <3>3, <3>4, <3>5 DEF InPlace, Resting, RestAt, TurnPlace, TurnAt, MessagePlace,
         UpdatePlace, DeletePlace, DeleteAt, FolderPlace, FolderBefore, FolderAfter, FilePlace
    <3> QED BY <3>1, <3>6 DEF StepInv
  <2> QED BY <2>1, SendStep, ReceiveStep DEF Next
<1>2. StepInv => InStep
  <2> SUFFICES ASSUME StepInv, Between, All(sent, Plain) PROVE AtRest /\ disk = ideal
    BY DEF InStep
  <2>1. Resting
    BY PlaceWire DEF StepInv, Between
  <2> QED BY <2>1 DEF Resting, RestAt, AtRest, Calm
<1> QED BY <1>1, <1>2, InitStepInv, PTL DEF Spec

-----------------------------------------------------------------------------
(* Where the receiver is while it reads a message m of any content, and    *)
(* what has become of the content so far.                                  *)

(* What the properties say of an update and of a new file.                 *)
UpdateResult(m) == Whole(m) <=> PlainUpdate(m.text)
EvenFile(p) == IsFile(disk, p) => Even(disk[p].text)
FileResult(m) ==
  CanWrite(old, m.path) =>
    /\ PlainFile(m.text) => Whole(m)
    /\ ~ PlainFile(m.text) /\ Wordless(m) => EvenFile(m.path)
Result(m) ==
  /\ m.kind = "update" => UpdateResult(m)
  /\ m.kind = "file" => FileResult(m)

(* Such a message lets the receiver lose its place, if its text is not one *)
(* of those after which it keeps it.                                       *)
Telling(m) == Wordless(m) /\ Fits(m.text)

(* A text that is copied as it is.                                         *)
Clean(a) ==
  /\ ~ Has(a, Close) /\ ~ Has(a, Nul)
  /\ \A i \in DOMAIN a : a[i] = Open => i > 1 /\ a[i - 1] # Open

(* The text w is written for the part a of the content t of an update: all *)
(* of it, but for a brace that is not written yet (f = 1), or less.        *)
Kept(t, a, w, f) ==
  \/ a = << >> /\ w = << >> /\ f = 0
  \/ a = Append(w, Open) /\ f = 1 /\ Clean(a)
  \/ Len(w) + f < Len(a) /\ ~ Clean(t)

EarlyEnd(t, i, j) ==
  IsPart(t, i, j) /\ CString(SubSeq(t, i, j - 1)) = << "SYNC_DONE" >>
Unended(t, n) == \A i, j \in DOMAIN t : EarlyEnd(t, i, j) => j > n

(* The content t consists of what is written, the buffer and what is on    *)
(* its way.                                                                *)
Copying(t) ==
  \E a, q \in Strings :
    /\ t = Cat(a, Cat(buf, q)) /\ wire = q \o (<< Open >> \o AfterText(t))
    /\ ~ Has(buf, Open) /\ ~ Has(buf, Close)
    /\ a = << >> \/ Last(a) \in {Open, Close}
    /\ Unended(t, Len(a) + Len(buf))
    /\ Kept(t, a, disk[path].text, flag)

EndFlag(t) == IF t = << >> \/ Last(t) \in {Open, Close} THEN 0 ELSE 1

UpdateGoing(m) ==
  /\ phase = "update" /\ Calm
  /\ \/ loop = "top" /\ At(<< "SYNC_FILE" >>, Following(m.path, m.text))
     \/ loop = "update" /\ At(m.path, m.text \o (<< Open >> \o AfterText(m.text)))
     \/ loop = "content" /\ path = m.path /\ Copying(m.text)
     \/ /\ loop = "content" /\ path = m.path /\ KeepsPlace(m) /\ Full(m.text)
        /\ flag = EndFlag(m.text)
        /\ \/ Rest(<< "EMPTY_FILE" >>, Close, Token("SYNC_DONE"))
           \/ /\ Rest(<< >>, Open, Ending)
              /\ disk[path].text # << >> /\ Last(disk[path].text) = "EMPTY_FILE"
     \/ /\ loop = "content" /\ KeepsPlace(m) /\ UpdateResult(m)
        /\ Rest(<< "SYNC_DONE" >>, Close, << >>)

(* A created file: the text u is read of its content and b is in the       *)
(* buffer, a text since the last brace that was heeded.                    *)
FileTokens == {"SYNC_FILE", "SYNC_FOLDER", "SYNC_DONE"}

Gathered(u, b) ==
  /\ Even(b) /\ \A x : Contains(b, x) => Contains(u, x)
  /\ b = << >> => u = << >> \/ Last(u) \in {Open, Close, Nul}
  /\ \A n \in FileTokens : b = << n >> =>
       \E i \in DOMAIN u : /\ u[i] = n /\ (i = 1 \/ u[i - 1] \in {Open, Close, Nul})
                           /\ \A k \in i + 1 .. Len(u) : u[k] \in {Open, Nul}

(* An opening brace has a closing one after it.                            *)
Closed(u, i) == \E j \in i .. Len(u) : u[j] = Close
AllClosed(u) == \A i \in DOMAIN u : u[i] = Open => Closed(u, i)

(* The opening brace o is the first without.                               *)
FirstOpen(u, b, o) ==
  /\ o \in DOMAIN u /\ u[o] = Open /\ ~ Closed(u, o)
  /\ \A i \in DOMAIN u : i < o /\ u[i] = Open => Closed(u, i)
  /\ b = << >> <=> \A k \in o .. Len(u) : u[k] \in {Open, Nul}
  /\ Len(b) <= Len(u) - o

(* No brace has ended the content yet; one has, and what is read now is a  *)
(* path; the path is read, and what is read is its content.                *)
Unopened(m, u) ==
  /\ count = 1 /\ path = m.path /\ disk = old /\ ~ Contains(u, Open)
  /\ buf = u \/ ~ PlainFile(m.text)
Opened(m, u) ==
  /\ count = 0 /\ FileResult(m) /\ ~ PlainFile(m.text)
  /\ \E o \in Nat : FirstOpen(u, buf, o)
Reopened(m, u) ==
  /\ count = 1 /\ FileResult(m) /\ ~ PlainFile(m.text) /\ AllClosed(u)

Gathering(m) ==
  \E u, q \in Strings :
    /\ m.text = Cat(u, q) /\ wire = q \o (<< Open >> \o AfterText(m.text))
    /\ Gathered(u, buf)
    /\ Unopened(m, u) \/ Opened(m, u) \/ Reopened(m, u)

FileGoing(m) ==
  /\ phase = "create" /\ loop = "create" /\ folderFlag = 0
  /\ \/ /\ fileFlag = 0 /\ count = 0 /\ disk = old
        /\ At(<< "SYNC_FILE" >>, Following(m.path, m.text))
     \/ /\ fileFlag = 1 /\ count = 0 /\ disk = old
        /\ At(m.path, m.text \o (<< Open >> \o AfterText(m.text)))
     \/ fileFlag = 1 /\ Gathering(m)
     \/ /\ fileFlag = 1 /\ FileResult(m) /\ (Telling(m) => KeepsPlace(m))
        /\ \/ /\ count = 0
              /\ \E b \in Strings : /\ Even(b) /\ (PlainFile(m.text) => b = << >>)
                                    /\ Fits(m.text) => Len(b) < PathSize
                                    /\ Rest(Append(b, "EMPTY_FILE"), Close, Token("SYNC_DONE"))
           \/ /\ count = 1 /\ (PlainFile(m.text) => NoFile(path))
              /\ Rest(<< >>, Open, Ending)
           \/ count = 0 /\ Rest(<< "SYNC_DONE" >>, Close, << >>)

Going(m) ==
  \/ m.kind = "update" /\ UpdateGoing(m)
  \/ m.kind = "delete" /\ DeleteAt(m)
  \/ m.kind = "folder" /\ (FolderBefore(m) \/ FolderAfter)
  \/ m.kind = "file" /\ FileGoing(m)

(* The message is read, and the receiver has kept its place.               *)
Done(m) == (RestAt \/ TurnAt) /\ Result(m) /\ (Telling(m) => KeepsPlace(m))

(* After an update without other tokens it stays in the first loop, with   *)
(* the token of the end in its buffer or ahead.                            *)
Leading == {"SYNC_FILE", "SYNC_DELETE", "SYNC_CREATE", "DONE_CONTROL",
            "SYNC_UPDATE_DONE", "SYNC_DELETE_DONE", "SYNC_CREATE_DONE"}
StuckTop ==
  /\ loop = "top" /\ ~ Contains(buf, Nul) /\ ~ Contains(wire, Nul)
  /\ \/ Contains(buf, "SYNC_DONE")
     \/ \E w \in Strings : /\ wire = w \o Ending
                           /\ \A n \in Leading : ~ Contains(w, n) /\ ~ Contains(buf, n)

(* After a new file without tokens it stays in the loop of creations.      *)
StuckFile ==
  /\ loop = "create" /\ fileFlag = 1 /\ folderFlag = 0
  /\ \/ \E b \in Strings : b # << >> /\ Even(b) /\ Rest(Append(b, "SYNC_DONE"), Close, << >>)
     \/ \A n \in {"SYNC_DONE", "SYNC_FOLDER"} : ~ Contains(buf, n) /\ ~ Contains(wire, n)

(* No file that is written gets a closing brace, and no new file a brace   *)
(* or a 0.                                                                 *)
Unclosed(p) == IsFile(disk, p) => ~ Has(disk[p].text, Close)
Braceless ==
  /\ ~ Has(buf, Close) /\ (loop = "content" => Unclosed(path))
  /\ loop = "create" => Even(buf)

Lost(m) ==
  /\ ~ KeepsPlace(m)
  /\ \/ m.kind = "update" /\ Unclosed(m.path) /\ (Wordless(m) => StuckTop)
     \/ /\ m.kind = "file"
        /\ Wordless(m) => (StuckFile \/ loop = "crashed") /\ FileResult(m)

Follow ==
  \/ sent = << >> /\ (RestAt \/ TurnAt)
  \/ /\ sent # << >>
     /\ Going(Last(sent)) \/ Done(Last(sent)) \/ Lost(Last(sent))

FollowInv ==
  TypeInv /\ Braceless /\ (All(Earlier, KeepsPlace) /\ loop # "exited" => Follow)

-----------------------------------------------------------------------------
(* More about sequences of symbols.                                        *)

LEMMA StringParts ==
  ASSUME NEW u \in Strings
  PROVE  /\ Len(u) \in Nat /\ DOMAIN u = 1 .. Len(u)
         /\ \A i \in 1 .. Len(u) : u[i] \in Symbols
         /\ u = << >> <=> Len(u) = 0
         /\ u # << >> => Last(u) = u[Len(u)] /\ Len(u) \in 1 .. Len(u)
<1>1. /\ Len(u) \in Nat /\ DOMAIN u = 1 .. Len(u)
      /\ \A i \in 1 .. Len(u) : u[i] \in Symbols
  BY LenProperties, ElementOfSeq DEF Strings
<1>2. u # << >> => Len(u) \in Nat \ {0}
  BY EmptySeq DEF Strings
<1>3. Len(<< >>) = 0
  OBVIOUS
<1> QED BY <1>1, <1>2, <1>3 DEF Last

LEMMA AppendParts ==
  ASSUME NEW u \in Strings, NEW x \in Symbols
  PROVE  /\ Append(u, x) \in Strings /\ Append(u, x) # << >>
         /\ Len(u) \in Nat /\ Len(Append(u, x)) = Len(u) + 1 /\ Last(Append(u, x)) = x
         /\ \A i \in 1 .. Len(u) : Append(u, x)[i] = u[i]
         /\ Append(u, x)[Len(u) + 1] = x
         /\ \A y : Contains(Append(u, x), y) <=> Contains(u, y) \/ y = x
<1>1. PICK v : v = Append(u, x)
  OBVIOUS
<1>2. /\ v \in Strings /\ v # << >> /\ Len(u) \in Nat /\ Len(v) = Len(u) + 1
      /\ \A i \in 1 .. Len(u) : v[i] = u[i]
      /\ v[Len(u) + 1] = x
  BY <1>1, AppendProperties, LenProperties DEF Strings
<1>3. Last(v) = x
  BY <1>2 DEF Last
<1>4. ASSUME NEW y PROVE Contains(v, y) <=> Contains(u, y) \/ y = x
  <2>1. ASSUME NEW i \in 1 .. Len(v), v[i] = y PROVE Contains(u, y) \/ y = x
    <3>1. i \in 1 .. Len(u) \/ i = Len(u) + 1
      BY <1>2
    <3> QED BY <1>2, <2>1, <3>1 DEF Contains
  <2>2. ASSUME NEW i \in 1 .. Len(u), u[i] = y PROVE i \in 1 .. Len(v) /\ v[i] = y
    BY <1>2, <2>2
  <2>3. Len(u) + 1 \in 1 .. Len(v)
    BY <1>2
  <2> QED BY <1>2, <2>1, <2>2, <2>3 DEF Contains
<1> QED BY <1>1, <1>2, <1>3, <1>4

LEMMA CatParts ==
  ASSUME NEW a \in Strings, NEW b \in Strings
  PROVE  /\ Cat(a, b) \in Strings
         /\ Len(a) \in Nat /\ Len(b) \in Nat /\ Len(Cat(a, b)) = Len(a) + Len(b)
         /\ \A i \in 1 .. Len(a) : Cat(a, b)[i] = a[i]
         /\ \A i \in 1 .. Len(b) : Cat(a, b)[Len(a) + i] = b[i]
         /\ \A y : Contains(Cat(a, b), y) <=> Contains(a, y) \/ Contains(b, y)
<1>1. PICK v : v = a \o b
  OBVIOUS
<1>2. /\ v \in Strings /\ Len(a) \in Nat /\ Len(b) \in Nat /\ Len(v) = Len(a) + Len(b)
      /\ \A i \in 1 .. Len(a) + Len(b) : v[i] = IF i <= Len(a) THEN a[i] ELSE b[i - Len(a)]
  BY <1>1, ConcatProperties, LenProperties DEF Strings
<1>3. \A i \in 1 .. Len(a) : i \in 1 .. Len(v) /\ v[i] = a[i]
  BY <1>2
<1>4. ASSUME NEW i \in 1 .. Len(b)
      PROVE  Len(a) + i \in 1 .. Len(v) /\ v[Len(a) + i] = b[i]
  <2>1. Len(a) + i \in 1 .. Len(a) + Len(b) /\ ~ (Len(a) + i <= Len(a)) /\ (Len(a) + i) - Len(a) = i
    BY <1>2
  <2> QED BY <1>2, <2>1
<1>5. ASSUME NEW i \in 1 .. Len(v)
      PROVE  i \in 1 .. Len(a) \/ (i - Len(a) \in 1 .. Len(b) /\ v[i] = b[i - Len(a)])
  BY <1>2
<1>6. ASSUME NEW y PROVE Contains(v, y) <=> Contains(a, y) \/ Contains(b, y)
  <2>1. Contains(v, y) => Contains(a, y) \/ Contains(b, y)
    BY <1>3, <1>5 DEF Contains
  <2>2. Contains(a, y) => Contains(v, y)
    BY <1>3 DEF Contains
  <2>3. Contains(b, y) => Contains(v, y)
    BY <1>4 DEF Contains
  <2> QED BY <2>1, <2>2, <2>3
<1> QED BY <1>1, <1>2, <1>3, <1>4, <1>6 DEF Cat

LEMMA SingleParts ==
  ASSUME NEW x \in Symbols
  PROVE  /\ << x >> \in Strings /\ << x >> # << >> /\ Len(<< x >>) = 1 /\ << x >>[1] = x
         /\ \A y : Contains(<< x >>, y) <=> y = x
         /\ \A y : ~ Contains(<< >>, y)
<1>1. << x >> \in Strings
  BY Joined
<1> QED BY <1>1 DEF Contains

(* The first symbol and the others.                                        *)
LEMMA HeadParts ==
  ASSUME NEW u \in Strings, u # << >>
  PROVE  /\ Head(u) \in Symbols /\ Tail(u) \in Strings /\ u = << Head(u) >> \o Tail(u)
         /\ \A y : Contains(u, y) <=> y = Head(u) \/ Contains(Tail(u), y)
<1>1. PICK x \in Symbols, v \in Strings : x = Head(u) /\ v = Tail(u)
  BY HeadTailProperties DEF Strings
<1>2. PICK c \in Strings : c = << x >>
  BY Joined
<1>3. u = Cat(c, v)
  <2>1. (<< >> \o << x >>) \o v = << >> \o u
    BY <1>1, NextSymbol, Joined
  <2>2. << >> \o << x >> = c /\ << >> \o u = u
    BY <1>2, Joined
  <2> QED BY <2>1, <2>2 DEF Cat
<1>4. \A y : Contains(c, y) <=> y = x
  BY <1>2, SingleParts
<1>5. \A y : Contains(Cat(c, v), y) <=> Contains(c, y) \/ Contains(v, y)
  BY CatParts
<1> QED BY <1>1, <1>2, <1>3, <1>4, <1>5 DEF Cat

(* The C string in a buffer is shorter when there is a 0 in it.            *)
LEMMA CStringShort ==
  ASSUME NEW b \in Strings
  PROVE  /\ Len(CString(b)) \in Nat /\ Len(CString(b)) <= Len(b)
         /\ Contains(b, Nul) => Len(CString(b)) < Len(b)
<1> DEFINE I == {i \in DOMAIN b : b[i] = Nul}
<1>1. Len(b) \in Nat /\ DOMAIN b = 1 .. Len(b) /\ \A i \in 1 .. Len(b) : b[i] \in Symbols
  BY StringParts
<1>2. CASE Contains(b, Nul)
  <2>1. I \in SUBSET Nat /\ I # {}
    BY <1>1, <1>2 DEF Contains
  <2>2. Min(I) \in I
    BY <2>1, MinParts
  <2>3. PICK k \in 1 .. Len(b) : k = Min(I)
    BY <1>1, <2>2
  <2>4. CString(b) = SubSeq(b, 1, k - 1)
    BY <1>2, <2>3 DEF CString
  <2>5. \A i \in 1 .. k - 1 : b[i] \in Symbols
    BY <1>1, <2>3
  <2>6. 1 \in Int /\ k - 1 \in Int
    BY <1>1, <2>3
  <2>7. Len(SubSeq(b, 1, k - 1)) = IF 1 <= k - 1 THEN (k - 1) - 1 + 1 ELSE 0
    BY <2>5, <2>6, SubSeqProperties
  <2> QED BY <1>1, <2>3, <2>4, <2>7
<1>3. CASE ~ Contains(b, Nul)
  BY <1>1, <1>3 DEF CString
<1> QED BY <1>2, <1>3

(* A text c of two parts.                                                  *)
Joins(c, a, b) ==
  /\ c \in Strings /\ Len(c) = Len(a) + Len(b)
  /\ DOMAIN c = 1 .. Len(c) /\ DOMAIN a = 1 .. Len(a) /\ DOMAIN b = 1 .. Len(b)
  /\ Len(a) \in Nat /\ Len(b) \in Nat
  /\ \A i \in 1 .. Len(a) : c[i] = a[i]
  /\ \A i \in 1 .. Len(b) : c[Len(a) + i] = b[i]
  /\ \A y : Contains(c, y) <=> Contains(a, y) \/ Contains(b, y)

LEMMA TwoParts ==
  ASSUME NEW a \in Strings, NEW b \in Strings, NEW c, c = Cat(a, b)
  PROVE  Joins(c, a, b)
<1>1. /\ c \in Strings /\ Len(a) \in Nat /\ Len(b) \in Nat /\ Len(c) = Len(a) + Len(b)
      /\ \A i \in 1 .. Len(a) : c[i] = a[i]
      /\ \A i \in 1 .. Len(b) : c[Len(a) + i] = b[i]
      /\ \A y : Contains(c, y) <=> Contains(a, y) \/ Contains(b, y)
  BY CatParts
<1>2. DOMAIN c = 1 .. Len(c) /\ DOMAIN a = 1 .. Len(a) /\ DOMAIN b = 1 .. Len(b)
  BY <1>1, StringParts
<1> QED BY <1>1, <1>2 DEF Joins

(* A text t of three parts.                                                *)
Slices(t, a, b, q) ==
  /\ t \in Strings /\ Len(a) \in Nat /\ Len(b) \in Nat /\ Len(q) \in Nat
  /\ Len(t) = Len(a) + Len(b) + Len(q)
  /\ \A i \in 1 .. Len(a) : t[i] = a[i]
  /\ \A i \in 1 .. Len(b) : t[Len(a) + i] = b[i]
  /\ \A i \in 1 .. Len(q) : t[Len(a) + Len(b) + i] = q[i]

LEMMA ThreeParts ==
  ASSUME NEW a \in Strings, NEW b \in Strings, NEW q \in Strings, NEW t, t = Cat(a, Cat(b, q))
  PROVE  /\ Slices(t, a, b, q)
         /\ \A y : Contains(t, y) <=> Contains(a, y) \/ Contains(b, y) \/ Contains(q, y)
<1>1. PICK u \in Strings : u = Cat(b, q)
  BY CatParts
<1>2. /\ u \in Strings /\ Len(b) \in Nat /\ Len(q) \in Nat /\ Len(u) = Len(b) + Len(q)
      /\ \A i \in 1 .. Len(b) : u[i] = b[i]
      /\ \A i \in 1 .. Len(q) : u[Len(b) + i] = q[i]
      /\ \A y : Contains(u, y) <=> Contains(b, y) \/ Contains(q, y)
  <2>1. Joins(u, b, q)
    BY <1>1, TwoParts
  <2> QED BY <2>1 DEF Joins
<1>3. /\ t \in Strings /\ Len(a) \in Nat /\ Len(t) = Len(a) + Len(u)
      /\ \A i \in 1 .. Len(a) : t[i] = a[i]
      /\ \A i \in 1 .. Len(u) : t[Len(a) + i] = u[i]
      /\ \A y : Contains(t, y) <=> Contains(a, y) \/ Contains(u, y)
  <2>1. t = Cat(a, u)
    BY <1>1
  <2>2. Joins(t, a, u)
    BY <2>1, TwoParts
  <2> QED BY <2>2 DEF Joins
<1>4. ASSUME NEW i \in 1 .. Len(b) PROVE t[Len(a) + i] = b[i]
  <2>1. i \in 1 .. Len(u)
    BY <1>2
  <2> QED BY <1>2, <1>3, <2>1
<1>5. ASSUME NEW i \in 1 .. Len(q) PROVE t[Len(a) + Len(b) + i] = q[i]
  <2>1. Len(b) + i \in 1 .. Len(u) /\ Len(a) + (Len(b) + i) = Len(a) + Len(b) + i
    BY <1>2, <1>3
  <2> QED BY <1>2, <1>3, <2>1
<1>6. Slices(t, a, b, q)
  BY <1>2, <1>3, <1>4, <1>5 DEF Slices
<1> QED BY <1>2, <1>3, <1>6

LEMMA LastPart ==
  ASSUME NEW a \in Strings, NEW b \in Strings, NEW q \in Strings, NEW t, t = Cat(a, Cat(b, q)),
         ~ Contains(b, Open), ~ Contains(b, Close), a = << >> \/ Last(a) \in {Open, Close},
         q # << >>, Head(q) = Close, NEW j, j = Len(a) + Len(b) + 1
  PROVE  /\ Len(a) + 1 \in DOMAIN t /\ j \in DOMAIN t
         /\ IsPart(t, Len(a) + 1, j) /\ SubSeq(t, Len(a) + 1, j - 1) = b
         /\ \A i \in DOMAIN t : IsPart(t, i, j) => i = Len(a) + 1
<1>1. /\ t \in Strings /\ Len(a) \in Nat /\ Len(b) \in Nat /\ Len(q) \in Nat
      /\ Len(t) = Len(a) + Len(b) + Len(q)
      /\ \A i \in 1 .. Len(a) : t[i] = a[i]
      /\ \A i \in 1 .. Len(b) : t[Len(a) + i] = b[i]
      /\ \A i \in 1 .. Len(q) : t[Len(a) + Len(b) + i] = q[i]
  <2>1. Slices(t, a, b, q)
    BY ThreeParts
  <2> QED BY <2>1 DEF Slices
<1>2. DOMAIN t = 1 .. Len(t) /\ Len(q) # 0 /\ \A i \in 1 .. Len(b) : b[i] \in Symbols
  BY <1>1, StringParts
<1>3. Head(q) = q[1]
  OBVIOUS
<1>4. Len(a) + 1 \in DOMAIN t /\ j \in DOMAIN t /\ t[j] = Close
  <2>1. 1 \in 1 .. Len(q)
    BY <1>1, <1>2
  <2>2. t[Len(a) + Len(b) + 1] = q[1]
    BY <1>1, <2>1
  <2> QED BY <1>1, <1>2, <1>3, <2>2
<1>5. ASSUME NEW k \in Len(a) + 1 .. j - 1
      PROVE  t[k] \notin {Open, Close} /\ t[k] = b[k - Len(a)] /\ t[k] \in Symbols
  <2>1. k - Len(a) \in 1 .. Len(b)
    <3> HIDE <1>1
    <3>1. Len(a) \in Nat /\ Len(b) \in Nat
      BY <1>1
    <3> QED BY <3>1
  <2>2. PICK i \in 1 .. Len(b) : i = k - Len(a)
    BY <2>1
  <2>4. k = Len(a) + i
    BY <1>1, <2>2
  <2>3. b[i] \notin {Open, Close}
    BY DEF Contains
  <2> QED BY <1>1, <1>2, <2>2, <2>3, <2>4
<1>6. Len(a) + 1 = 1 \/ t[Len(a)] \in {Open, Close}
  <2>1. CASE a = << >>
    BY <1>1, <2>1, StringParts
  <2>2. CASE a # << >>
    <3>1. Len(a) \in 1 .. Len(a) /\ a[Len(a)] \in {Open, Close}
      BY <2>2, StringParts
    <3> QED BY <1>1, <3>1
  <2> QED BY <2>1, <2>2
<1>7. IsPart(t, Len(a) + 1, j)
  <2>1. Len(a) + 1 <= j /\ Len(a) + 1 - 1 = Len(a)
    BY <1>1
  <2> QED BY <1>4, <1>5, <1>6, <2>1 DEF IsPart
<1>8. SubSeq(t, Len(a) + 1, j - 1) = b
  <2>1. PICK i \in Int, k \in Int : i = Len(a) + 1 /\ k = j - 1
    BY <1>1
  <2>2. \A n \in i .. k : t[n] \in Symbols
    BY <1>5, <2>1
  <2>3. /\ SubSeq(t, i, k) \in Strings
        /\ Len(SubSeq(t, i, k)) = IF i <= k THEN k - i + 1 ELSE 0
        /\ \A n \in 1 .. k - i + 1 : SubSeq(t, i, k)[n] = t[i + n - 1]
    <3> HIDE <2>1
    <3> QED BY <2>2, SubSeqProperties DEF Strings
  <2>4. Len(SubSeq(t, i, k)) = Len(b)
    BY <1>1, <2>1, <2>3
  <2>5. ASSUME NEW n \in 1 .. Len(b) PROVE SubSeq(t, i, k)[n] = b[n]
    <3>1. n \in 1 .. k - i + 1 /\ i + n - 1 = Len(a) + n
      BY <1>1, <2>1
    <3> QED BY <1>1, <2>3, <3>1
  <2> QED BY <2>1, <2>3, <2>4, <2>5, SeqEqual DEF Strings
<1>9. ASSUME NEW i \in DOMAIN t, IsPart(t, i, j) PROVE i = Len(a) + 1
  <2>1. i \in Nat /\ i <= j /\ (i = 1 \/ t[i - 1] \in {Open, Close})
        /\ \A k \in i .. j - 1 : t[k] \notin {Open, Close}
    BY <1>2, <1>9 DEF IsPart
  <2>2. ~ (i <= Len(a))
    <3> SUFFICES ASSUME i <= Len(a) PROVE FALSE
      OBVIOUS
    <3>1. Len(a) \in i .. j - 1 /\ Len(a) + 1 # 1
      BY <1>1, <1>2, <2>1
    <3> QED BY <1>6, <2>1, <3>1
  <2>3. ~ (i > Len(a) + 1)
    <3> SUFFICES ASSUME i > Len(a) + 1 PROVE FALSE
      OBVIOUS
    <3>1. i - 1 \in Len(a) + 1 .. j - 1 /\ i # 1
      BY <1>1, <2>1
    <3> QED BY <1>5, <2>1, <3>1
  <2> QED BY <1>1, <2>1, <2>2, <2>3
<1> QED BY <1>4, <1>7, <1>8, <1>9

-----------------------------------------------------------------------------
(* The receiver that has lost its place.                                   *)

(* What the loop of creations writes has no brace and no 0 in it.          *)
LEMMA EvenWrite ==
  ASSUME NEW p, EvenFile(p), NEW q, NEW b, Even(b),
         disk' = disk \/ disk' = WriteFile(disk, q, b) \/ disk' = MakeFolder(disk, q)
  PROVE  EvenFile(p)'
<1>1. CASE disk' = disk
  BY <1>1 DEF EvenFile, IsFile
<1>2. ASSUME NEW n, n.kind = "file" => n.text = b, disk' = Put(disk, q, n)
      PROVE  EvenFile(p)'
  <2>1. /\ p \in DOMAIN disk' <=> p = q \/ p \in DOMAIN disk
        /\ p = q => disk'[p] = n
        /\ p # q /\ p \in DOMAIN disk => disk'[p] = disk[p]
    BY <1>2 DEF Put
  <2> QED BY <1>2, <2>1 DEF EvenFile, IsFile
<1>3. /\ File(b).text = b
      /\ Folder.kind # "file"
  BY DEF File, Folder
<1>4. disk' = disk \/ disk' = Put(disk, q, File(b)) \/ disk' = Put(disk, q, Folder)
  BY DEF WriteFile, MakeFolder
<1> QED BY <1>1, <1>2, <1>3, <1>4

LEMMA EvenStep ==
  ASSUME Braceless, loop = "create", Reading, NEW p, EvenFile(p)
  PROVE  EvenFile(p)'
<1>1. CreateOpen \/ CreateText \/ CreateClose
  BY DEF Reading, TopOpen, TopText, TopClose, PathOpen, PathText, UpdatePath, DeletePath,
     ContentOpen, ContentText, ContentClose, Reads
<1>2. \/ disk' = disk \/ disk' = WriteFile(disk, path, buf)
      \/ disk' = MakeFolder(disk, buf)
  BY <1>1 DEF CreateOpen, CreateText, CreateClose, CloseFolder
<1>3. Even(buf)
  BY DEF Braceless
<1> QED BY <1>2, <1>3, EvenWrite

(* After an update it stays in the first loop.                             *)
LEMMA StuckTopStep ==
  ASSUME TypeInv, StuckTop, Reading
  PROVE  StuckTop' /\ UNCHANGED disk
<1>1. wire # << >> /\ wire' = Tail(wire) /\ wire \in Strings /\ buf \in Strings
  BY ReadingParts DEF TypeInv, TypeOK
<1>2. loop = "top" /\ ~ Contains(buf, Nul) /\ ~ Contains(wire, Nul)
  BY DEF StuckTop
<1>3. PICK x \in Symbols, v \in Strings : /\ x = Head(wire) /\ v = Tail(wire)
                                          /\ wire = << x >> \o v
  BY <1>1, HeadParts
<1>4. \A y : Contains(wire, y) <=> y = x \/ Contains(v, y)
  BY <1>1, <1>3, HeadParts
<1>5. x # Nul /\ ~ Contains(wire', Nul)
  BY <1>1, <1>2, <1>3, <1>4
<1>6. CString(buf) = buf
  BY <1>1, <1>2, CStringParts
<1>7. ASSUME \A n \in Leading : buf # << n >>
      PROVE  /\ loop' = "top" /\ disk' = disk
             /\ buf' = buf \/ (x \notin {Open, Close} /\ buf' = Append(buf, x))
  <2>1. Entered(CString(buf)) = "top" /\ CString(buf) \notin Ends
    BY <1>6, <1>7 DEF Entered, Ends, Leading
  <2>2. TopOpen \/ TopText \/ TopClose
    BY <1>2 DEF Reading, PathOpen, PathText, UpdatePath, DeletePath, ContentOpen, ContentText,
       ContentClose, CreateOpen, CreateText, CreateClose, Reads
  <2> QED BY <1>2, <1>3, <2>1, <2>2 DEF TopOpen, TopText, TopClose, IsText, Symbol
<1>8. \A y : Contains(Append(buf, x), y) <=> Contains(buf, y) \/ y = x
  BY <1>1, AppendParts
<1>9. \A n \in Leading : n # "SYNC_DONE" /\ n \in Symbols /\ Contains(<< n >>, n) /\ ~ Contains(<< n >>, "SYNC_DONE")
  <2>1. Leading \subseteq Tokens /\ "SYNC_DONE" \notin Leading
    BY DEF Leading, Tokens
  <2> QED BY <2>1, SymbolParts, SingleParts
<1>10. CASE Contains(buf, "SYNC_DONE")
  <2>1. \A n \in Leading : buf # << n >>
    BY <1>9, <1>10
  <2>2. Contains(buf', "SYNC_DONE") /\ ~ Contains(buf', Nul)
    BY <1>2, <1>5, <1>7, <1>8, <1>10, <2>1
  <2> QED BY <1>5, <1>7, <2>1, <2>2 DEF StuckTop
<1>11. CASE \E w \in Strings : /\ wire = w \o Ending
                               /\ \A n \in Leading : ~ Contains(w, n) /\ ~ Contains(buf, n)
  <2>1. PICK w \in Strings, e \in Strings :
          /\ wire = w \o e /\ e = Ending
          /\ \A n \in Leading : ~ Contains(w, n) /\ ~ Contains(buf, n)
    BY <1>11, AfterParts
  <2>2. \A n \in Leading : buf # << n >>
    BY <1>9, <2>1
  <2>3. CASE w = << >>
    <3>1. wire = << "SYNC_DONE" >> \o (<< Close >> \o << >>)
      BY <2>1, <2>3, Joined DEF Ending
    <3>2. "SYNC_DONE" \in Symbols /\ << Close >> \o << >> \in Strings
      BY SymbolParts, Joined DEF Tokens
    <3>3. x = "SYNC_DONE"
      BY <1>3, <3>1, <3>2, OneSymbol
    <3>4. TopText
      <4>1. Symbol \notin {Open, Close}
        BY <1>3, <3>3 DEF Symbol, Open, Close
      <4> QED BY <1>2, <4>1 DEF Reading, TopOpen, TopClose, PathOpen, PathText, UpdatePath,
            DeletePath, ContentOpen, ContentText, ContentClose, CreateOpen, CreateText, CreateClose, Reads
    <3>5. buf' = Append(buf, x) /\ loop' = "top" /\ disk' = disk
      BY <1>2, <1>3, <3>4 DEF TopText, Symbol
    <3>6. Contains(buf', "SYNC_DONE") /\ ~ Contains(buf', Nul)
      BY <1>2, <1>5, <1>8, <3>3, <3>5
    <3> QED BY <1>5, <3>5, <3>6 DEF StuckTop
  <2>4. CASE w # << >>
    <3>1. PICK z \in Strings : z = Tail(w)
      BY <2>4, NextSymbol, Joined
    <3>2. x = Head(w) /\ v = z \o e
      BY <1>3, <2>1, <2>4, <3>1, NextSymbol, ZenonT(30)
    <3>3. \A n : ~ Contains(w, n) => n # x /\ ~ Contains(z, n)
      BY <2>4, <3>1, <3>2, HeadParts
    <3>4. \A n \in Leading : ~ Contains(z, n) /\ ~ Contains(buf', n)
      BY <1>7, <1>8, <2>1, <2>2, <3>3
    <3>5. ~ Contains(buf', Nul)
      BY <1>2, <1>5, <1>7, <1>8, <2>2
    <3>6. wire' = z \o Ending
      BY <1>1, <1>3, <2>1, <3>2
    <3> QED BY <1>5, <1>7, <2>2, <3>4, <3>5, <3>6 DEF StuckTop
  <2> QED BY <2>3, <2>4
<1> QED BY <1>10, <1>11 DEF StuckTop

(* After a new file it stays in the loop of creations.                     *)
LEMMA StuckFileStep ==
  ASSUME TypeInv, StuckFile, Reading
  PROVE  StuckFile'
<1>1. wire # << >> /\ wire' = Tail(wire) /\ wire \in Strings /\ buf \in Strings
  BY ReadingParts DEF TypeInv, TypeOK
<1>2. loop = "create" /\ fileFlag = 1 /\ folderFlag = 0
  BY DEF StuckFile
<1>3. Open # Close /\ Close \in Symbols /\ "SYNC_DONE" \in Symbols
  BY SymbolParts DEF Tokens
<1>4. CreateOpen \/ CreateText \/ CreateClose
  BY <1>2 DEF Reading, TopOpen, TopText, TopClose, PathOpen, PathText, UpdatePath, DeletePath,
     ContentOpen, ContentText, ContentClose, Reads
<1>5. CreateClose /\ buf # << "SYNC_FOLDER" >> /\ buf # << "SYNC_DONE" >> =>
        buf' = << >> /\ loop' = "create" /\ fileFlag' = 1 /\ folderFlag' = 0
  BY <1>2 DEF CreateClose, AboutFolder, AboutFile, CloseFile
<1>6. CASE \E b \in Strings : /\ b # << >> /\ Even(b)
                              /\ Rest(Append(b, "SYNC_DONE"), Close, << >>)
  <2>1. PICK b \in Strings : /\ b # << >> /\ Even(b)
                             /\ Rest(Append(b, "SYNC_DONE"), Close, << >>)
    BY <1>6
  <2>2. PICK w \in Strings : w = Append(b, "SYNC_DONE")
    BY <1>3, AppendParts
  <2>3. Even(w) /\ \A n : w # << n >>
    <3>1. \A y : Contains(w, y) <=> Contains(b, y) \/ y = "SYNC_DONE"
      BY <1>3, <2>2, AppendParts
    <3>2. "SYNC_DONE" \notin {Open, Close, Nul}
      BY DEF Open, Close, Nul
    <3>3. Len(w) = Len(b) + 1 /\ Len(b) \in Nat /\ Len(b) # 0
      BY <1>3, <2>1, <2>2, AppendParts, StringParts
    <3>4. \A n : Len(<< n >>) = 1
      OBVIOUS
    <3> QED BY <2>1, <3>1, <3>2, <3>3, <3>4 DEF Even
  <2>4. << >> \in Strings
    BY Joined
  <2>5. CASE Rest(w, Close, << >>)' /\ UNCHANGED Others
    <3>1. loop' = "create" /\ fileFlag' = 1 /\ folderFlag' = 0
      BY <1>2, <2>5 DEF Others, flags
    <3> QED BY <2>1, <2>2, <2>5, <3>1 DEF StuckFile
  <2>6. CASE Symbol = Close /\ buf = w /\ wire' = << >>
    <3>1. CreateClose
      BY <1>3, <1>4, <2>6 DEF CreateOpen, CreateText, IsText
    <3>2. buf' = << >> /\ loop' = "create" /\ fileFlag' = 1 /\ folderFlag' = 0
      BY <1>5, <2>3, <2>6, <3>1
    <3> QED BY <2>6, <3>2, SingleParts, <1>3 DEF StuckFile
  <2> QED BY <2>1, <2>2, <2>3, <2>4, <2>5, <2>6, RestStep
<1>7. CASE \A n \in {"SYNC_DONE", "SYNC_FOLDER"} : ~ Contains(buf, n) /\ ~ Contains(wire, n)
  <2>1. PICK x \in Symbols, v \in Strings : x = Head(wire) /\ v = Tail(wire)
    BY <1>1, HeadTailProperties DEF Strings
  <2>2. \A y : Contains(wire, y) <=> y = x \/ Contains(v, y)
    BY <1>1, <2>1, HeadParts
  <2>3. \A y : Contains(Append(buf, x), y) <=> Contains(buf, y) \/ y = x
    BY <1>1, AppendParts
  <2>4. \A y : ~ Contains(<< >>, y)
    BY <1>3, SingleParts
  <2>5. \A n \in {"SYNC_DONE", "SYNC_FOLDER"} : ~ Contains(wire', n)
    BY <1>1, <1>7, <2>1, <2>2
  <2>6. CASE CreateOpen \/ CreateText
    <3>1. loop' = "create" /\ fileFlag' = 1 /\ folderFlag' = 0
      BY <1>2, <2>6 DEF CreateOpen, CreateText, flags
    <3>2. buf' \in {buf, << >>, Append(buf, x)}
      BY <2>1, <2>6 DEF CreateOpen, CreateText, AppendText, Symbol
    <3>3. \A n \in {"SYNC_DONE", "SYNC_FOLDER"} : ~ Contains(buf', n)
      BY <1>7, <2>2, <2>3, <2>4, <3>2
    <3> QED BY <2>5, <3>1, <3>3 DEF StuckFile
  <2>7. CASE CreateClose
    <3>1. buf # << "SYNC_FOLDER" >> /\ buf # << "SYNC_DONE" >>
      <4>1. "SYNC_FOLDER" \in Symbols
        BY SymbolParts DEF Tokens
      <4> QED BY <1>3, <1>7, <4>1, SingleParts
    <3>2. buf' = << >> /\ loop' = "create" /\ fileFlag' = 1 /\ folderFlag' = 0
      BY <1>5, <2>7, <3>1
    <3> QED BY <2>4, <2>5, <3>2 DEF StuckFile
  <2> QED BY <1>4, <2>6, <2>7
<1> QED BY <1>2, <1>6, <1>7 DEF StuckFile

-----------------------------------------------------------------------------
(* The content of an update, between its braces.                           *)

LEMMA Shifted ==
  ASSUME NEW a \in Strings, NEW b \in Strings, NEW q \in Strings, q # << >>,
         NEW t, t = Cat(a, Cat(b, q))
  PROVE  /\ Append(b, Head(q)) \in Strings /\ Tail(q) \in Strings /\ Cat(a, b) \in Strings
         /\ t = Cat(a, Cat(Append(b, Head(q)), Tail(q)))
         /\ Append(Cat(a, b), Head(q)) \in Strings
         /\ t = Cat(Append(Cat(a, b), Head(q)), Cat(<< >>, Tail(q)))
         /\ Len(Append(Cat(a, b), Head(q))) = Len(a) + Len(b) + 1
         /\ Len(Append(b, Head(q))) = Len(b) + 1
         /\ Last(Append(Cat(a, b), Head(q))) = Head(q)
         /\ Len(a) \in Nat /\ Len(b) \in Nat /\ t \in Strings
<1>1. PICK x \in Symbols, s \in Strings : x = Head(q) /\ s = Tail(q)
  BY HeadParts
<1>2. /\ Append(b, x) \in Strings /\ Append(b, x) \o s = b \o q
      /\ \A c \in Strings : Append(c, x) \in Strings /\ Append(c, x) \o s = c \o q
  BY <1>1, NextSymbol, Joined
<1>3. PICK c \in Strings : c = Cat(a, b) /\ Len(c) = Len(a) + Len(b)
  BY CatParts
<1>4. t = Cat(a, Cat(Append(b, x), s))
  BY <1>2 DEF Cat
<1>5. t = Cat(Append(c, x), Cat(<< >>, s))
  <2>1. t = Cat(c, q)
    BY <1>3, CatAssoc
  <2>2. Cat(<< >>, s) = s
    BY Joined DEF Cat
  <2> QED BY <1>2, <2>1, <2>2 DEF Cat
<1>6. /\ Len(Append(c, x)) = Len(c) + 1 /\ Last(Append(c, x)) = x
      /\ Len(Append(b, x)) = Len(b) + 1
  BY AppendParts
<1>7. Len(a) \in Nat /\ Len(b) \in Nat /\ t \in Strings
  <2>1. Cat(b, q) \in Strings
    BY CatParts
  <2> QED BY <2>1, CatParts
<1> QED BY <1>1, <1>2, <1>3, <1>4, <1>5, <1>6, <1>7

(* A part that reads as the token of the end is found at its brace.        *)
LEMMA UnendedStep ==
  ASSUME NEW a \in Strings, NEW b \in Strings, NEW q \in Strings, q # << >>,
         NEW t, t = Cat(a, Cat(b, q)),
         ~ Has(b, Open), ~ Has(b, Close), a = << >> \/ Last(a) \in {Open, Close},
         Unended(t, Len(a) + Len(b))
  PROVE  /\ Head(q) # Close \/ CString(b) # << "SYNC_DONE" >> =>
              Unended(t, Len(a) + Len(b) + 1)
         /\ Head(q) = Close /\ CString(b) = << "SYNC_DONE" >> => EndsEarly(t)
<1>1. PICK n \in Nat : n = Len(a) + Len(b)
  BY Shifted
<1>2. PICK x : x = Head(q)
  OBVIOUS
<1>3. ~ Contains(b, Open) /\ ~ Contains(b, Close)
  BY DEF Has
<1>4. t[n + 1] = x /\ DOMAIN t = 1 .. Len(t) /\ Len(t) \in Nat
  <2>1. Slices(t, a, b, q)
    BY ThreeParts
  <2>2. Len(q) \in Nat /\ Len(q) # 0 /\ q[1] = x
    BY <1>2, StringParts
  <2>3. t[n + 1] = q[1]
    BY <1>1, <2>1, <2>2 DEF Slices
  <2>4. t \in Strings
    BY <2>1 DEF Slices
  <2> QED BY <2>2, <2>3, <2>4, StringParts
<1>5. x = Close => /\ Len(a) + 1 \in DOMAIN t /\ n + 1 \in DOMAIN t
                   /\ IsPart(t, Len(a) + 1, n + 1) /\ SubSeq(t, Len(a) + 1, n + 1 - 1) = b
                   /\ \A i \in DOMAIN t : IsPart(t, i, n + 1) => i = Len(a) + 1
  BY <1>1, <1>2, <1>3, LastPart
<1>6. ASSUME x # Close \/ CString(b) # << "SYNC_DONE" >>
      PROVE  Unended(t, n + 1)
  <2> SUFFICES ASSUME NEW i \in DOMAIN t, NEW j \in DOMAIN t, EarlyEnd(t, i, j)
               PROVE  j > n + 1
    BY DEF Unended
  <2>1. j \in Nat /\ j > n
    BY <1>1, <1>4 DEF Unended
  <2>2. j # n + 1
    <3> SUFFICES ASSUME j = n + 1 PROVE FALSE
      OBVIOUS
    <3>1. x = Close /\ IsPart(t, i, n + 1) /\ CString(SubSeq(t, i, n + 1 - 1)) = << "SYNC_DONE" >>
      BY <1>4 DEF EarlyEnd, IsPart
    <3> QED BY <1>5, <1>6, <3>1
  <2> QED BY <2>1, <2>2
<1>7. ASSUME x = Close, CString(b) = << "SYNC_DONE" >>
      PROVE  EndsEarly(t)
  <2>1. PICK i \in DOMAIN t, j \in DOMAIN t :
          i = Len(a) + 1 /\ j = n + 1 /\ IsPart(t, i, j) /\ SubSeq(t, i, j - 1) = b
    BY <1>5, <1>7
  <2> QED BY <1>7, <2>1 DEF EndsEarly
<1> QED BY <1>1, <1>2, <1>6, <1>7

(* A brace that is not written yet.                                        *)
Pend(f) == IF f = 1 THEN << Open >> ELSE << >>

(* What is written and the brace make up the part, or are shorter.         *)
LEMMA KeptParts ==
  ASSUME NEW t, NEW a \in Strings, NEW w \in Strings, NEW f \in 0 .. 1, Kept(t, a, w, f)
  PROVE  /\ Cat(w, Pend(f)) \in Strings /\ Len(w) \in Nat
         /\ Len(Cat(w, Pend(f))) = Len(w) + f
         /\ \/ Cat(w, Pend(f)) = a /\ Clean(a)
            \/ Len(w) + f < Len(a) /\ ~ Clean(t)
<1>1. Open \in Symbols /\ << Open >> \in Strings /\ << >> \in Strings
  BY SymbolParts, Joined
<1>2. CASE f = 0
  <2>1. Cat(w, Pend(f)) = w /\ Len(w) \in Nat
    BY <1>2, Joined, StringParts DEF Cat, Pend
  <2>2. Clean(<< >>)
    BY DEF Clean, Has, Contains
  <2> QED BY <1>2, <2>1, <2>2 DEF Kept
<1>3. CASE f = 1
  <2>1. Cat(w, Pend(f)) = Append(w, Open)
    BY <1>1, <1>3, AppendIsConcat DEF Cat, Pend, Strings
  <2>2. Append(w, Open) \in Strings /\ Len(Append(w, Open)) = Len(w) + 1 /\ Len(w) \in Nat
    BY <1>1, AppendParts
  <2>3. CASE a = Append(w, Open) /\ f = 1 /\ Clean(a)
    BY <1>3, <2>1, <2>2, <2>3
  <2>4. CASE Len(w) + f < Len(a) /\ ~ Clean(t)
    BY <1>3, <2>1, <2>2, <2>4
  <2> QED BY <1>3, <2>3, <2>4 DEF Kept
<1> QED BY <1>2, <1>3

(* What is written at the next brace.                                      *)
Written(t, a, b, v) ==
  /\ v \in Strings /\ Len(v) \in Nat /\ Len(a) \in Nat /\ Len(b) \in Nat
  /\ \/ v = Cat(a, b) /\ Clean(a) /\ ~ Contains(b, Nul) /\ Len(v) = Len(a) + Len(b)
     \/ Len(v) < Len(a) + Len(b) /\ (Contains(b, Nul) \/ ~ Clean(t))

LEMMA WrittenParts ==
  ASSUME NEW t, NEW a \in Strings, NEW w \in Strings, NEW f \in 0 .. 1, Kept(t, a, w, f),
         NEW b \in Strings, NEW v, v = Cat(Cat(w, Pend(f)), CString(b))
  PROVE  Written(t, a, b, v)
<1>1. PICK h \in Strings : h = Cat(w, Pend(f))
  BY KeptParts
<1>2. PICK c \in Strings : c = CString(b)
  BY CStringParts
<1>3. /\ Len(c) \in Nat /\ Len(b) \in Nat /\ Len(c) <= Len(b)
      /\ Contains(b, Nul) => Len(c) < Len(b)
      /\ ~ Contains(b, Nul) => c = b
  BY <1>2, CStringShort, CStringParts, StringParts
<1>4. /\ Len(h) \in Nat /\ Len(a) \in Nat
      /\ (h = a /\ Clean(a)) \/ (Len(h) < Len(a) /\ ~ Clean(t))
  BY <1>1, KeptParts, StringParts
<1>5. v = Cat(h, c) /\ v \in Strings /\ Len(v) = Len(h) + Len(c)
  BY <1>1, <1>2, CatParts
<1>6. /\ v \in Strings /\ Len(v) \in Nat
      /\ \/ v = Cat(a, b) /\ Clean(a) /\ ~ Contains(b, Nul) /\ Len(v) = Len(a) + Len(b)
         \/ Len(v) < Len(a) + Len(b) /\ (Contains(b, Nul) \/ ~ Clean(t))
  <2>1. CASE h = a /\ Clean(a) /\ ~ Contains(b, Nul)
    BY <1>3, <1>4, <1>5, <2>1
  <2>2. CASE h = a /\ Contains(b, Nul)
    BY <1>3, <1>4, <1>5, <2>2
  <2>3. CASE Len(h) < Len(a) /\ ~ Clean(t)
    BY <1>3, <1>4, <1>5, <2>3
  <2> QED BY <1>3, <1>4, <1>5, <2>1, <2>2, <2>3
<1> QED BY <1>3, <1>4, <1>6 DEF Written

(* A text that is clean, but for an opening brace after another symbol.    *)
LEMMA CleanParts ==
  ASSUME NEW a \in Strings, NEW b \in Strings, NEW q \in Strings, NEW t, t = Cat(a, Cat(b, q)),
         ~ Contains(b, Open), ~ Contains(b, Close), a = << >> \/ Last(a) \in {Open, Close}
  PROVE  /\ Contains(b, Nul) => ~ Clean(t)
         /\ q # << >> /\ Head(q) = Close => ~ Clean(t)
         /\ q # << >> /\ Head(q) = Open /\ b = << >> => ~ Clean(t)
         /\ Clean(a) /\ ~ Contains(b, Nul) => Clean(Cat(a, b))
         /\ Clean(a) /\ ~ Contains(b, Nul) /\ b # << >> => Clean(Append(Cat(a, b), Open))
<1>1. Slices(t, a, b, q) /\ \A y : Contains(t, y) <=> Contains(a, y) \/ Contains(b, y) \/ Contains(q, y)
  BY ThreeParts
<1>2. /\ t \in Strings /\ Len(a) \in Nat /\ Len(b) \in Nat /\ Len(q) \in Nat
      /\ Len(t) = Len(a) + Len(b) + Len(q) /\ DOMAIN t = 1 .. Len(t)
  <2>1. t \in Strings
    BY <1>1 DEF Slices
  <2>2. DOMAIN t = 1 .. Len(t)
    BY <2>1, StringParts
  <2> QED BY <1>1, <2>1, <2>2 DEF Slices
<1>3. Contains(b, Nul) => ~ Clean(t)
  BY <1>1 DEF Clean, Has
<1>4. q # << >> => Contains(q, Head(q)) /\ Head(q) = q[1] /\ Len(q) # 0
  <2> SUFFICES ASSUME q # << >> PROVE Contains(q, Head(q)) /\ Head(q) = q[1] /\ Len(q) # 0
    OBVIOUS
  <2>1. Contains(q, Head(q))
    BY HeadParts
  <2>2. Len(q) # 0
    BY StringParts
  <2> QED BY <2>1, <2>2
<1>5. q # << >> /\ Head(q) = Close => ~ Clean(t)
  BY <1>1, <1>4 DEF Clean, Has
<1>6. ASSUME q # << >>, Head(q) = Open, b = << >>, Clean(t) PROVE FALSE
  <2>1. Len(b) = 0
    BY <1>6
  <2>2. PICK n \in DOMAIN t : n = Len(a) + 1 /\ t[n] = Open
    <3>1. 1 \in 1 .. Len(q) /\ Len(a) + 1 \in DOMAIN t
      BY <1>2, <1>4, <1>6, <2>1
    <3>2. t[Len(a) + Len(b) + 1] = q[1]
      BY <1>1, <3>1 DEF Slices
    <3>3. Len(a) + Len(b) + 1 = Len(a) + 1
      BY <1>2, <2>1
    <3> QED BY <1>4, <1>6, <3>1, <3>2, <3>3
  <2>3. n > 1 /\ t[n - 1] # Open /\ ~ Contains(t, Close)
    BY <1>6, <2>2 DEF Clean, Has
  <2>4. a # << >> /\ Len(a) \in 1 .. Len(a) /\ Last(a) = a[Len(a)]
    BY <1>2, <2>2, <2>3, StringParts
  <2>5. t[Len(a)] = a[Len(a)] /\ n - 1 = Len(a)
    BY <1>1, <1>2, <2>2, <2>4 DEF Slices
  <2>6. Contains(a, Close) => FALSE
    BY <1>1, <2>3
  <2>7. Last(a) = Close => Contains(a, Close)
    BY <2>4 DEF Contains
  <2> QED BY <2>3, <2>4, <2>5, <2>6, <2>7
<1>7. PICK c \in Strings : c = Cat(a, b)
  BY CatParts
<1>8. /\ Len(c) = Len(a) + Len(b) /\ DOMAIN c = 1 .. Len(c) /\ DOMAIN a = 1 .. Len(a)
      /\ \A i \in 1 .. Len(a) : c[i] = a[i]
      /\ \A i \in 1 .. Len(b) : c[Len(a) + i] = b[i]
      /\ \A y : Contains(c, y) <=> Contains(a, y) \/ Contains(b, y)
  <2>1. Joins(c, a, b)
    BY <1>7, TwoParts
  <2> QED BY <2>1 DEF Joins
<1>9. ASSUME NEW i \in 1 .. Len(c), i > Len(a) PROVE c[i] \notin {Open, Close}
  <2>1. i - Len(a) \in 1 .. Len(b) /\ Len(a) + (i - Len(a)) = i
    BY <1>2, <1>8, <1>9
  <2>2. c[i] = b[i - Len(a)]
    BY <1>8, <2>1
  <2> QED BY <2>1, <2>2 DEF Contains
<1>10. ASSUME Clean(a), ~ Contains(b, Nul) PROVE Clean(c)
  <2>1. ~ Has(c, Close) /\ ~ Has(c, Nul)
    BY <1>8, <1>10 DEF Clean, Has
  <2>2. ASSUME NEW i \in DOMAIN c, c[i] = Open PROVE i > 1 /\ c[i - 1] # Open
    <3>1. i \in 1 .. Len(a)
      BY <1>2, <1>8, <1>9, <2>2
    <3>2. i > 1 /\ a[i - 1] # Open
      BY <1>8, <1>10, <2>2, <3>1 DEF Clean
    <3>3. i - 1 \in 1 .. Len(a)
      BY <1>2, <3>1, <3>2
    <3> QED BY <1>8, <3>2, <3>3
  <2> QED BY <2>1, <2>2 DEF Clean
<1>11. ASSUME Clean(a), ~ Contains(b, Nul), b # << >> PROVE Clean(Append(c, Open))
  <2>1. PICK d \in Strings : d = Append(c, Open)
    BY SymbolParts, AppendParts
  <2>2. /\ Len(d) = Len(c) + 1 /\ DOMAIN d = 1 .. Len(d)
        /\ \A i \in 1 .. Len(c) : d[i] = c[i]
        /\ \A y : Contains(d, y) <=> Contains(c, y) \/ y = Open
    BY <2>1, SymbolParts, AppendParts, StringParts
  <2>3. Clean(c) /\ Len(b) # 0
    BY <1>10, <1>11, StringParts
  <2>4. ~ Has(d, Close) /\ ~ Has(d, Nul)
    BY <2>2, <2>3, SymbolParts DEF Clean, Has
  <2>5. ASSUME NEW i \in DOMAIN d, d[i] = Open PROVE i > 1 /\ d[i - 1] # Open
    <3>1. CASE i \in 1 .. Len(c)
      <4>1. c[i] = Open /\ i \in DOMAIN c
        BY <1>8, <2>2, <2>5, <3>1
      <4>2. i > 1 /\ c[i - 1] # Open
        BY <2>3, <4>1 DEF Clean
      <4>3. i - 1 \in 1 .. Len(c)
        BY <1>2, <1>8, <3>1, <4>2
      <4> QED BY <2>2, <4>2, <4>3
    <3>2. CASE i = Len(c) + 1
      <4>1. Len(c) \in 1 .. Len(c) /\ Len(c) > Len(a) /\ Len(c) > 0
        BY <1>2, <1>8, <2>3
      <4>2. c[Len(c)] # Open /\ d[Len(c)] = c[Len(c)]
        BY <1>9, <2>2, <4>1
      <4>3. i - 1 = Len(c) /\ i > 1
        BY <1>2, <1>8, <3>2, <4>1
      <4> QED BY <4>2, <4>3
    <3>3. i \in 1 .. Len(c) \/ i = Len(c) + 1
      BY <1>2, <1>8, <2>2
    <3> QED BY <3>1, <3>2, <3>3
  <2> QED BY <2>1, <2>4, <2>5 DEF Clean
<1> QED BY <1>3, <1>5, <1>6, <1>7, <1>10, <1>11

-----------------------------------------------------------------------------
(* What is copied of the content t of an update: it consists of the part a *)
(* that is dealt with, the buffer b and what is on its way, q; w is written. *)
Copy(t, a, b, q, w, f) ==
  /\ a \in Strings /\ b \in Strings /\ q \in Strings /\ w \in Strings /\ f \in 0 .. 1
  /\ t = Cat(a, Cat(b, q))
  /\ ~ Has(b, Open) /\ ~ Has(b, Close)
  /\ a = << >> \/ Last(a) \in {Open, Close}
  /\ Unended(t, Len(a) + Len(b))
  /\ Kept(t, a, w, f)

LEMMA CopyParts ==
  ASSUME NEW t, NEW a, NEW b, NEW q, NEW w, NEW f, Copy(t, a, b, q, w, f)
  PROVE  /\ a \in Strings /\ b \in Strings /\ q \in Strings /\ w \in Strings /\ f \in 0 .. 1
         /\ t = Cat(a, Cat(b, q)) /\ t \in Strings
         /\ ~ Contains(b, Open) /\ ~ Contains(b, Close)
         /\ Len(a) \in Nat /\ Len(b) \in Nat /\ Len(w) \in Nat /\ Len(w) + f <= Len(a)
<1>1. /\ a \in Strings /\ b \in Strings /\ q \in Strings /\ w \in Strings /\ f \in 0 .. 1
      /\ t = Cat(a, Cat(b, q)) /\ ~ Contains(b, Open) /\ ~ Contains(b, Close)
      /\ Kept(t, a, w, f)
  BY DEF Copy, Has
<1>2. t \in Strings
  <2>1. Cat(b, q) \in Strings
    BY <1>1, CatParts
  <2> QED BY <1>1, <2>1, CatParts
<1>3. Len(a) \in Nat /\ Len(b) \in Nat /\ Len(w) \in Nat
  BY <1>1, StringParts
<1>4. Len(w) + f <= Len(a)
  <2>1. CASE a = << >> /\ w = << >> /\ f = 0
    BY <1>3, <2>1
  <2>2. CASE a = Append(w, Open) /\ f = 1
    BY <1>1, <1>3, <2>2, AppendParts, SymbolParts
  <2>3. CASE Len(w) + f < Len(a)
    BY <1>1, <1>3, <2>3
  <2> QED BY <1>1, <2>1, <2>2, <2>3 DEF Kept
<1> QED BY <1>1, <1>2, <1>3, <1>4

(* A symbol that is no brace is put into the buffer.                       *)
LEMMA CopyText ==
  ASSUME NEW t, NEW a, NEW b, NEW q, NEW w, NEW f, Copy(t, a, b, q, w, f),
         q # << >>, Head(q) \notin {Open, Close}
  PROVE  Copy(t, a, Append(b, Head(q)), Tail(q), w, f)
<1>1. /\ a \in Strings /\ b \in Strings /\ q \in Strings /\ w \in Strings /\ f \in 0 .. 1
      /\ t = Cat(a, Cat(b, q)) /\ t \in Strings
      /\ ~ Has(b, Open) /\ ~ Has(b, Close) /\ Len(a) \in Nat /\ Len(b) \in Nat
  BY CopyParts DEF Has
<1>2. PICK x \in Symbols, s \in Strings, c \in Strings :
        x = Head(q) /\ s = Tail(q) /\ c = Append(b, x)
  BY <1>1, HeadParts, AppendParts
<1>3. t = Cat(a, Cat(c, s)) /\ Len(c) = Len(b) + 1
  BY <1>1, <1>2, Shifted
<1>4. ~ Has(c, Open) /\ ~ Has(c, Close)
  BY <1>1, <1>2, AppendParts DEF Has
<1>5. Unended(t, Len(a) + Len(b)) /\ (a = << >> \/ Last(a) \in {Open, Close}) /\ Kept(t, a, w, f)
  BY DEF Copy
<1>6. Unended(t, Len(a) + Len(c))
  <2>1. Unended(t, Len(a) + Len(b) + 1)
    BY <1>1, <1>5, UnendedStep
  <2>2. Len(a) + Len(c) = Len(a) + Len(b) + 1
    BY <1>1, <1>3
  <2> QED BY <2>1, <2>2
<1>7. Copy(t, a, c, s, w, f)
  BY <1>1, <1>2, <1>3, <1>4, <1>5, <1>6 DEF Copy
<1> QED BY <1>2, <1>7

(* What is known at a brace of the content.                                *)
LEMMA CopyBrace ==
  ASSUME NEW t, NEW a, NEW b, NEW q, NEW w, NEW f, Copy(t, a, b, q, w, f),
         q # << >>, NEW x, x = Head(q), x # Close \/ CString(b) # << "SYNC_DONE" >>,
         x \in {Open, Close}, NEW v \in Strings, NEW g \in 0 .. 1,
         Kept(t, Append(Cat(a, b), x), v, g)
  PROVE  Copy(t, Append(Cat(a, b), x), << >>, Tail(q), v, g)
<1>1. /\ a \in Strings /\ b \in Strings /\ q \in Strings
      /\ t = Cat(a, Cat(b, q)) /\ ~ Has(b, Open) /\ ~ Has(b, Close)
      /\ Len(a) \in Nat /\ Len(b) \in Nat
  BY CopyParts DEF Has
<1>2. Unended(t, Len(a) + Len(b)) /\ (a = << >> \/ Last(a) \in {Open, Close})
  BY DEF Copy
<1>3. PICK c, s \in Strings : c = Append(Cat(a, b), x) /\ s = Tail(q)
  <2>1. Append(Cat(a, b), x) \in Strings /\ Tail(q) \in Strings
    BY <1>1, Shifted
  <2> QED BY <2>1
<1>4. c \in Strings /\ t = Cat(c, Cat(<< >>, s)) /\ Len(c) = Len(a) + Len(b) + 1 /\ Last(c) = x
  BY <1>1, <1>3, Shifted
<1>5. Unended(t, Len(a) + Len(b) + 1)
  BY <1>1, <1>2, UnendedStep
<1>6. << >> \in Strings /\ ~ Has(<< >>, Open) /\ ~ Has(<< >>, Close) /\ Len(<< >>) = 0
  BY Joined DEF Has, Contains
<1>7. Unended(t, Len(c) + Len(<< >>))
  <2>1. Len(c) + Len(<< >>) = Len(a) + Len(b) + 1
    BY <1>1, <1>4, <1>6
  <2> QED BY <1>5, <2>1
<1>8. Copy(t, c, << >>, s, v, g)
  BY <1>3, <1>4, <1>6, <1>7 DEF Copy
<1> QED BY <1>3, <1>8

LEMMA CopyOpen ==
  ASSUME NEW t, NEW a, NEW b, NEW q, NEW w, NEW f, Copy(t, a, b, q, w, f),
         q # << >>, Head(q) = Open
  PROVE  Copy(t, Append(Cat(a, b), Open), << >>, Tail(q), Cat(Cat(w, Pend(f)), CString(b)),
              IF b = << >> THEN 0 ELSE 1)
<1>1. /\ a \in Strings /\ b \in Strings /\ q \in Strings /\ w \in Strings /\ f \in 0 .. 1
      /\ t = Cat(a, Cat(b, q)) /\ t \in Strings /\ Len(b) \in Nat
      /\ ~ Contains(b, Open) /\ ~ Contains(b, Close) /\ Len(a) \in Nat
  BY CopyParts
<1>2. Kept(t, a, w, f) /\ (a = << >> \/ Last(a) \in {Open, Close})
  BY DEF Copy
<1>3. PICK v : v = Cat(Cat(w, Pend(f)), CString(b))
  OBVIOUS
<1>4. PICK g \in 0 .. 1 : g = IF b = << >> THEN 0 ELSE 1
  OBVIOUS
<1>5. PICK c : c = Append(Cat(a, b), Open)
  OBVIOUS
<1>6. /\ v \in Strings /\ Len(v) \in Nat
      /\ \/ v = Cat(a, b) /\ Clean(a) /\ ~ Contains(b, Nul) /\ Len(v) = Len(a) + Len(b)
         \/ Len(v) < Len(a) + Len(b) /\ (Contains(b, Nul) \/ ~ Clean(t))
  <2>1. Written(t, a, b, v)
    BY <1>1, <1>2, <1>3, WrittenParts
  <2> QED BY <2>1 DEF Written
<1>7. Len(c) = Len(a) + Len(b) + 1
  BY <1>1, <1>5, Shifted
<1>8. /\ Contains(b, Nul) => ~ Clean(t)
      /\ b = << >> => ~ Clean(t)
      /\ Clean(a) /\ ~ Contains(b, Nul) /\ b # << >> => Clean(c)
  <2>1. /\ Contains(b, Nul) => ~ Clean(t)
        /\ b = << >> => ~ Clean(t)
    BY <1>1, <1>2, CleanParts
  <2>2. Clean(a) /\ ~ Contains(b, Nul) /\ b # << >> => Clean(Append(Cat(a, b), Open))
    BY <1>1, <1>2, CleanParts
  <2> QED BY <1>5, <2>1, <2>2
<1>9. Kept(t, c, v, g)
  <2>1. CASE v = Cat(a, b) /\ Clean(a) /\ ~ Contains(b, Nul) /\ b # << >>
    BY <1>4, <1>5, <1>8, <2>1 DEF Kept
  <2>2. CASE Len(v) = Len(a) + Len(b) /\ b = << >>
    BY <1>1, <1>4, <1>7, <1>8, <2>2 DEF Kept
  <2>3. CASE Len(v) < Len(a) + Len(b) /\ (Contains(b, Nul) \/ ~ Clean(t))
    BY <1>1, <1>4, <1>6, <1>7, <1>8, <2>3 DEF Kept
  <2> QED BY <1>6, <2>1, <2>2, <2>3
<1>10. Open # Close
  BY SymbolParts
<1>11. Copy(t, Append(Cat(a, b), Open), << >>, Tail(q), v, g)
  BY <1>5, <1>6, <1>9, <1>10, CopyBrace
<1> QED BY <1>3, <1>4, <1>11

LEMMA CopyClose ==
  ASSUME NEW t, NEW a, NEW b, NEW q, NEW w, NEW f, Copy(t, a, b, q, w, f),
         q # << >>, Head(q) = Close
  PROVE  /\ CString(b) # << "SYNC_DONE" >> =>
              Copy(t, Append(Cat(a, b), Close), << >>, Tail(q), Cat(w, CString(b)), f)
         /\ CString(b) = << "SYNC_DONE" >> => EndsEarly(t) /\ Len(w) < Len(t)
<1>1. /\ a \in Strings /\ b \in Strings /\ q \in Strings /\ w \in Strings /\ f \in 0 .. 1
      /\ t = Cat(a, Cat(b, q)) /\ t \in Strings /\ Len(b) \in Nat
      /\ ~ Contains(b, Open) /\ ~ Contains(b, Close) /\ Len(a) \in Nat
      /\ Len(w) \in Nat /\ Len(w) + f <= Len(a)
  BY CopyParts
<1>2. Unended(t, Len(a) + Len(b)) /\ (a = << >> \/ Last(a) \in {Open, Close})
  BY DEF Copy
<1>3. PICK e \in Strings : e = CString(b)
  BY <1>1, CStringParts
<1>4. Len(e) \in Nat /\ Len(e) <= Len(b)
  BY <1>1, <1>3, CStringShort
<1>5. PICK v \in Strings : v = Cat(w, e) /\ Len(v) = Len(w) + Len(e)
  BY <1>1, <1>3, CatParts
<1>6. PICK c : c = Append(Cat(a, b), Close)
  OBVIOUS
<1>7. Len(c) = Len(a) + Len(b) + 1
  BY <1>1, <1>6, Shifted
<1>8. ~ Clean(t)
  BY <1>1, <1>2, CleanParts
<1>9. Kept(t, c, v, f)
  <2>1. Len(v) + f < Len(c)
    BY <1>1, <1>4, <1>5, <1>7
  <2> QED BY <1>8, <2>1 DEF Kept
<1>10. ASSUME e # << "SYNC_DONE" >>
       PROVE  Copy(t, Append(Cat(a, b), Close), << >>, Tail(q), v, f)
  BY <1>1, <1>3, <1>6, <1>9, <1>10, CopyBrace
<1>11. ASSUME e = << "SYNC_DONE" >>
       PROVE  EndsEarly(t) /\ Len(w) < Len(t)
  <2>1. EndsEarly(t)
    BY <1>1, <1>2, <1>3, <1>11, UnendedStep DEF Has
  <2>2. Slices(t, a, b, q)
    BY <1>1, ThreeParts
  <2>3. Len(q) \in Nat /\ Len(q) # 0 /\ Len(t) = Len(a) + Len(b) + Len(q)
    BY <1>1, <2>2, StringParts DEF Slices
  <2> QED BY <1>1, <2>1, <2>3
<1> QED BY <1>3, <1>5, <1>10, <1>11

(* At the end of the content.                                              *)
LEMMA CopyEnd ==
  ASSUME NEW t, NEW a, NEW b, NEW w, NEW f, Copy(t, a, b, << >>, w, f)
  PROVE  /\ Cat(Cat(w, Pend(f)), CString(b)) \in Strings
         /\ Cat(Cat(w, Pend(f)), CString(b)) = t <=> Clean(t)
         /\ ~ EndsEarly(t) /\ EndFlag(t) = IF b = << >> THEN 0 ELSE 1
<1>1. /\ a \in Strings /\ b \in Strings /\ << >> \in Strings /\ w \in Strings /\ f \in 0 .. 1
      /\ t = Cat(a, Cat(b, << >>)) /\ t \in Strings /\ Len(b) \in Nat
      /\ ~ Contains(b, Open) /\ ~ Contains(b, Close) /\ Len(a) \in Nat
  BY CopyParts
<1>2. /\ Kept(t, a, w, f) /\ (a = << >> \/ Last(a) \in {Open, Close})
      /\ Unended(t, Len(a) + Len(b))
  BY DEF Copy
<1>3. PICK v : v = Cat(Cat(w, Pend(f)), CString(b))
  OBVIOUS
<1>4. /\ v \in Strings /\ Len(v) \in Nat
      /\ \/ v = Cat(a, b) /\ Clean(a) /\ ~ Contains(b, Nul) /\ Len(v) = Len(a) + Len(b)
         \/ Len(v) < Len(a) + Len(b) /\ (Contains(b, Nul) \/ ~ Clean(t))
  <2>1. Written(t, a, b, v)
    BY <1>1, <1>2, <1>3, WrittenParts
  <2> QED BY <2>1 DEF Written
<1>5. t = Cat(a, b)
  BY <1>1, Joined DEF Cat
<1>6. Joins(t, a, b)
  BY <1>1, <1>5, TwoParts
<1>7. Len(t) = Len(a) + Len(b) /\ DOMAIN t = 1 .. Len(t) /\ DOMAIN b = 1 .. Len(b)
      /\ \A i \in 1 .. Len(b) : t[Len(a) + i] = b[i]
  BY <1>6 DEF Joins
<1>8. v = t <=> Clean(t)
  <2>1. Contains(b, Nul) => ~ Clean(t)
    BY <1>1, <1>2, CleanParts
  <2>2. Clean(a) /\ ~ Contains(b, Nul) => Clean(Cat(a, b))
    BY <1>1, <1>2, CleanParts
  <2>3. CASE v = Cat(a, b) /\ Clean(a) /\ ~ Contains(b, Nul)
    BY <1>5, <2>2, <2>3
  <2>4. CASE Len(v) < Len(a) + Len(b) /\ (Contains(b, Nul) \/ ~ Clean(t))
    BY <1>1, <1>4, <1>7, <2>1, <2>4
  <2> QED BY <1>4, <2>3, <2>4
<1>9. ~ EndsEarly(t)
  <2> SUFFICES ASSUME NEW i \in DOMAIN t, NEW j \in DOMAIN t, EarlyEnd(t, i, j) PROVE FALSE
    BY DEF EndsEarly, EarlyEnd
  <2>1. j > Len(a) + Len(b)
    BY <1>2 DEF Unended
  <2> QED BY <1>1, <1>7, <2>1
<1>10. EndFlag(t) = IF b = << >> THEN 0 ELSE 1
  <2>1. CASE b = << >>
    <3>1. t = a
      BY <1>1, <1>5, <2>1, Joined DEF Cat
    <3> QED BY <1>2, <2>1, <3>1 DEF EndFlag
  <2>2. CASE b # << >>
    <3>1. Len(b) \in 1 .. Len(b) /\ b[Len(b)] \notin {Open, Close}
      BY <1>1, <1>7, <2>2, StringParts DEF Contains
    <3>2. t[Len(t)] = b[Len(b)]
      BY <1>7, <3>1
    <3>3. t # << >> /\ Last(t) = t[Len(t)]
      <4>1. Len(t) # 0
        BY <1>1, <1>7, <3>1
      <4> QED BY <1>1, <4>1, StringParts
    <3> QED BY <2>2, <3>1, <3>2, <3>3 DEF EndFlag
  <2> QED BY <2>1, <2>2
<1> QED BY <1>3, <1>4, <1>8, <1>9, <1>10

LEMMA TextTyped ==
  ASSUME TypeInv, loop = "content"
  PROVE  disk[path].text \in Strings /\ IsFile(disk, path) /\ flag \in 0 .. 1 /\ buf \in Strings
<1>1. IsFile(disk, path) /\ Typed(disk) /\ buf \in Strings /\ flag \in 0 .. 1
  BY DEF TypeInv, TypeOK
<1> QED BY <1>1 DEF IsFile, Typed

LEMMA CopyingParts ==
  ASSUME TypeInv, loop = "content", NEW t
  PROVE  Copying(t) <=> \E a, q \in Strings :
                          /\ Copy(t, a, buf, q, disk[path].text, flag)
                          /\ wire = q \o (<< Open >> \o AfterText(t))
  BY TextTyped DEF Copying, Copy

LEMMA CopyingNext ==
  ASSUME NEW t, NEW a \in Strings, NEW q \in Strings,
         NEW b, NEW w, NEW f, Copy(t, a, b, q, w, f),
         buf' = b, disk'[path'].text = w, flag' = f,
         wire' = q \o (<< Open >> \o AfterText(t))
  PROVE  Copying(t)'
<1>1. /\ t = Cat(a, Cat(b, q)) /\ ~ Has(b, Open) /\ ~ Has(b, Close)
      /\ a = << >> \/ Last(a) \in {Open, Close}
      /\ Unended(t, Len(a) + Len(b)) /\ Kept(t, a, w, f)
  BY DEF Copy
<1> QED BY <1>1 DEF Copying

(* The loop of the contents of updates, symbol by symbol.                  *)
LEMMA ContentCases ==
  ASSUME loop = "content", Reading
  PROVE  /\ ContentOpen \/ ContentText \/ ContentClose
         /\ Symbol = Open => ContentOpen
         /\ Symbol = Close => ContentClose
         /\ Symbol \notin {Open, Close} => ContentText
         /\ path' = path /\ UNCHANGED << sender, flags >>
<1>1. ContentOpen \/ ContentText \/ ContentClose
  BY DEF Reading, TopOpen, TopText, TopClose, PathOpen, PathText, UpdatePath, DeletePath,
         CreateOpen, CreateText, CreateClose, Reads
<1> QED BY <1>1, SymbolParts DEF ContentOpen, ContentText, ContentClose, IsText

LEMMA ContentWrites ==
  ASSUME TypeInv, loop = "content"
  PROVE  /\ ContentOpen =>
              LET v == Cat(Cat(disk[path].text, Pend(flag)), CString(buf)) IN
              /\ disk' = Put(disk, path, File(v)) /\ disk'[path'].text = v
              /\ flag' = (IF buf = << >> THEN 0 ELSE 1) /\ buf' = << >> /\ loop' = "content"
         /\ ContentClose /\ CString(buf) # << "SYNC_DONE" >> =>
              LET v == Cat(disk[path].text, CString(buf)) IN
              /\ disk' = Put(disk, path, File(v)) /\ disk'[path'].text = v
              /\ flag' = flag /\ buf' = << >> /\ loop' = "content"
<1>1. PICK w \in Strings, b \in Strings, f \in 0 .. 1 :
        w = disk[path].text /\ b = buf /\ f = flag
  BY TextTyped
<1>2. PICK e \in Strings, h \in Strings : e = CString(b) /\ h = Pend(f)
  BY CStringParts, SymbolParts, Joined DEF Pend
<1>3. (w \o (h \o e)) = Cat(Cat(w, h), e) /\ w \o e = Cat(w, e)
  BY Joined DEF Cat
<1>4. ASSUME ContentOpen
      PROVE  /\ disk' = Put(disk, path, File(Cat(Cat(w, h), e)))
             /\ flag' = (IF buf = << >> THEN 0 ELSE 1) /\ buf' = << >> /\ loop' = "content"
             /\ path' = path
  <2>1. (IF flag = 1 THEN << Open >> ELSE << >>) = h
    BY <1>1, <1>2 DEF Pend
  <2>2. Write(h \o e) /\ flag' = (IF buf = << >> THEN 0 ELSE 1) /\ buf' = << >>
        /\ loop' = loop /\ path' = path
    BY <1>1, <1>2, <1>4, <2>1 DEF ContentOpen
  <2> QED BY <1>1, <1>3, <2>2 DEF Write
<1>5. ASSUME ContentClose, e # << "SYNC_DONE" >>
      PROVE  /\ disk' = Put(disk, path, File(Cat(w, e)))
             /\ flag' = flag /\ buf' = << >> /\ loop' = "content" /\ path' = path
  BY <1>1, <1>2, <1>3, <1>5 DEF ContentClose, Write
<1>6. \A v : disk' = Put(disk, path, File(v)) /\ path' = path => disk'[path'].text = v
  BY PutText
<1> QED BY <1>1, <1>2, <1>4, <1>5, <1>6

(* The next symbol of the content of an update.                            *)
LEMMA ContentStep ==
  ASSUME TypeInv, loop = "content", NEW t \in Strings, Copying(t), Reading
  PROVE  \/ /\ loop' = "content" /\ Copying(t)'
            /\ disk' = disk \/ \E v \in Strings : disk' = Put(disk, path, File(v))
         \/ /\ loop' = "content" /\ ~ EndsEarly(t) /\ flag' = EndFlag(t)
            /\ buf' = << >> /\ wire' = AfterText(t)
            /\ \E v \in Strings : disk' = Put(disk, path, File(v)) /\ (v = t <=> Clean(t))
         \/ /\ loop' = "top" /\ EndsEarly(t) /\ disk' = disk /\ buf' = << >>
            /\ \E s \in Strings : /\ wire' = s \o (<< Open >> \o AfterText(t))
                                  /\ \A y : Contains(s, y) => Contains(t, y)
<1>1. PICK w \in Strings, b \in Strings, f \in 0 .. 1 :
        w = disk[path].text /\ b = buf /\ f = flag
  BY TextTyped
<1>2. PICK a \in Strings, q \in Strings :
        Copy(t, a, b, q, w, f) /\ wire = q \o (<< Open >> \o AfterText(t))
  BY <1>1, CopyingParts
<1>3. PICK r \in Strings, z \in Strings : z = AfterText(t) /\ r = << Open >> \o z
  BY AfterParts, SymbolParts, Joined, ZenonT(30)
<1>4. wire' = Tail(wire) /\ path' = path
  BY ReadingParts, ContentCases
<1>5. t = Cat(a, Cat(b, q)) /\ Len(w) \in Nat
  BY <1>2, CopyParts
<1>6. CASE q = << >>
  <2>1. wire = << Open >> \o z
    BY <1>2, <1>3, <1>6, Joined
  <2>2. Symbol = Open /\ wire' = z
    BY <1>3, <1>4, <2>1, OneSymbol, SymbolParts DEF Symbol
  <2>3. ContentOpen
    BY <2>2, ContentCases
  <2>4. PICK v : v = Cat(Cat(w, Pend(f)), CString(b))
    OBVIOUS
  <2>5. /\ disk' = Put(disk, path, File(v)) /\ flag' = (IF b = << >> THEN 0 ELSE 1)
        /\ buf' = << >> /\ loop' = "content"
    BY <1>1, <2>3, <2>4, ContentWrites
  <2>6. Copy(t, a, b, << >>, w, f)
    BY <1>2, <1>6
  <2>7. v \in Strings /\ (v = t <=> Clean(t)) /\ ~ EndsEarly(t)
        /\ EndFlag(t) = IF b = << >> THEN 0 ELSE 1
    BY <2>4, <2>6, CopyEnd
  <2> QED BY <1>3, <2>2, <2>5, <2>7
<1>7. CASE q # << >>
  <2>1. PICK x \in Symbols, s \in Strings : x = Head(q) /\ s = Tail(q)
    BY <1>7, HeadParts
  <2>2. wire = q \o r
    BY <1>2, <1>3
  <2>3. Symbol = x /\ wire' = s \o r
    BY <1>4, <1>7, <2>1, <2>2, NextSymbol DEF Symbol
  <2>4. wire' = s \o (<< Open >> \o AfterText(t))
    BY <1>3, <2>3
  <2>5. CASE x \notin {Open, Close}
    <3>1. /\ buf' = Append(b, x) /\ UNCHANGED << loop, path, flag, disk >>
      BY <1>1, <2>3, <2>5, ContentCases DEF ContentText
    <3>2. Copy(t, a, Append(b, x), s, w, f)
      BY <1>2, <1>7, <2>1, <2>5, CopyText
    <3>3. Copying(t)'
      BY <1>1, <2>4, <3>1, <3>2, CopyingNext
    <3> QED BY <3>1, <3>3
  <2>6. CASE x = Open
    <3>1. ContentOpen
      BY <2>3, <2>6, ContentCases
    <3>2. PICK v : v = Cat(Cat(w, Pend(f)), CString(b))
      OBVIOUS
    <3>3. PICK g : g = IF b = << >> THEN 0 ELSE 1
      OBVIOUS
    <3>4. /\ disk' = Put(disk, path, File(v)) /\ disk'[path'].text = v /\ flag' = g
          /\ buf' = << >> /\ loop' = "content"
      BY <1>1, <3>1, <3>2, <3>3, ContentWrites
    <3>5. PICK c : c = Append(Cat(a, b), Open)
      OBVIOUS
    <3>6. Copy(t, c, << >>, s, v, g)
      BY <1>2, <1>7, <2>1, <2>6, <3>2, <3>3, <3>5, CopyOpen
    <3>7. c \in Strings /\ v \in Strings
      BY <3>6, CopyParts
    <3>8. Copying(t)'
      BY <2>1, <2>4, <3>4, <3>6, <3>7, CopyingNext
    <3> QED BY <3>4, <3>7, <3>8
  <2>7. CASE x = Close /\ CString(b) # << "SYNC_DONE" >>
    <3>1. ContentClose
      BY <2>3, <2>7, ContentCases
    <3>2. PICK v : v = Cat(w, CString(b))
      OBVIOUS
    <3>4. /\ disk' = Put(disk, path, File(v)) /\ disk'[path'].text = v /\ flag' = f
          /\ buf' = << >> /\ loop' = "content"
      BY <1>1, <2>7, <3>1, <3>2, ContentWrites
    <3>5. PICK c : c = Append(Cat(a, b), Close)
      OBVIOUS
    <3>6. Copy(t, c, << >>, s, v, f)
      BY <1>2, <1>7, <2>1, <2>7, <3>2, <3>5, CopyClose
    <3>7. c \in Strings /\ v \in Strings
      BY <3>6, CopyParts
    <3>8. Copying(t)'
      BY <2>1, <2>4, <3>4, <3>6, <3>7, CopyingNext
    <3> QED BY <3>4, <3>7, <3>8
  <2>8. CASE x = Close /\ CString(b) = << "SYNC_DONE" >>
    <3>1. ContentClose
      BY <2>3, <2>8, ContentCases
    <3>2. loop' = "top" /\ disk' = disk /\ buf' = << >>
      BY <1>1, <2>8, <3>1 DEF ContentClose
    <3>3. EndsEarly(t)
      BY <1>2, <1>7, <2>1, <2>8, CopyClose
    <3>4. \A y : Contains(s, y) => Contains(t, y)
      <4>1. \A y : Contains(q, y) <=> y = x \/ Contains(s, y)
        BY <1>7, <2>1, HeadParts
      <4>2. \A y : Contains(t, y) <=> Contains(a, y) \/ Contains(b, y) \/ Contains(q, y)
        BY <1>5, ThreeParts
      <4> QED BY <4>1, <4>2
    <3> QED BY <2>4, <3>2, <3>3, <3>4
  <2> QED BY <2>5, <2>6, <2>7, <2>8
<1> QED BY <1>6, <1>7

-----------------------------------------------------------------------------
(* The end of a content that comes too early.                              *)
LEMMA AfterSplit ==
  ASSUME NEW t \in Strings
  PROVE  \E w \in Strings :
           /\ << Open >> \o AfterText(t) = w \o Ending
           /\ \A y : Contains(w, y) => y \in {Open, Close, "EMPTY_FILE"}
<1>1. "EMPTY_FILE" \in Symbols /\ Open \in Symbols /\ Close \in Symbols
  BY SymbolParts DEF Tokens
<1>2. PICK o \in Strings, c \in Strings, n \in Strings, e \in Strings :
        o = << Open >> /\ c = << Close >> /\ n = << "EMPTY_FILE" >> /\ e = Ending
  BY <1>1, Joined, AfterParts
<1>3. /\ \A y : Contains(o, y) => y = Open
      /\ \A y : Contains(c, y) => y = Close
      /\ \A y : Contains(n, y) => y = "EMPTY_FILE"
  BY <1>1, <1>2, SingleParts
<1>4. CASE ~ Full(t)
  BY <1>2, <1>3, <1>4 DEF AfterText
<1>5. CASE Full(t)
  <2>1. << Open >> \o AfterText(t) = Cat(o, Cat(n, Cat(c, Cat(o, e))))
    BY <1>2, <1>5, AfterParts DEF AfterText, Cat
  <2>2. PICK w1 \in Strings : w1 = Cat(c, o)
    BY CatParts
  <2>3. PICK w2 \in Strings : w2 = Cat(n, w1)
    BY CatParts
  <2>4. PICK w3 \in Strings : w3 = Cat(o, w2)
    BY CatParts
  <2>5. PICK e1 \in Strings : e1 = Cat(o, e)
    BY CatParts
  <2>6. Cat(c, e1) = Cat(w1, e)
    BY <2>2, <2>5, CatAssoc
  <2>7. Cat(n, Cat(w1, e)) = Cat(w2, e)
    BY <2>3, CatAssoc
  <2>8. Cat(o, Cat(w2, e)) = Cat(w3, e)
    BY <2>4, CatAssoc
  <2>9. << Open >> \o AfterText(t) = w3 \o Ending
    BY <1>2, <2>1, <2>5, <2>6, <2>7, <2>8 DEF Cat
  <2>10. ASSUME NEW y, Contains(w3, y) PROVE y \in {Open, Close, "EMPTY_FILE"}
    <3>1. Contains(w1, y) => y \in {Open, Close, "EMPTY_FILE"}
      BY <1>3, <2>2, CatParts
    <3>2. Contains(w2, y) => y \in {Open, Close, "EMPTY_FILE"}
      BY <1>3, <2>3, <3>1, CatParts
    <3> QED BY <1>3, <2>4, <2>10, <3>2, CatParts
  <2> QED BY <2>9, <2>10
<1> QED BY <1>4, <1>5

LEMMA EarlyLost ==
  ASSUME NEW m \in Messages, m.kind = "update", EndsEarly(m.text),
         loop' = "top", buf' = << >>, Unclosed(m.path)',
         NEW s \in Strings, wire' = s \o (<< Open >> \o AfterText(m.text)),
         \A y : Contains(s, y) => Contains(m.text, y)
  PROVE  Lost(m)'
<1>1. PICK t \in Strings : t = m.text
  BY MessageParts
<1>2. PICK x \in Strings : /\ << Open >> \o AfterText(t) = x \o Ending
                           /\ \A y : Contains(x, y) => y \in {Open, Close, "EMPTY_FILE"}
  BY AfterSplit
<1>3. PICK e \in Strings : e = Ending
  BY AfterParts
<1>4. PICK w \in Strings : w = Cat(s, x)
  BY CatParts
<1>5. wire' = w \o e
  <2>1. Cat(s, Cat(x, e)) = Cat(w, e)
    BY <1>4, CatAssoc
  <2> QED BY <1>1, <1>2, <1>3, <2>1 DEF Cat
<1>6. \A y : Contains(w, y) => Contains(t, y) \/ y \in {Open, Close, "EMPTY_FILE"}
  BY <1>1, <1>2, <1>4, CatParts
<1>7. \A y : ~ Contains(<< >>, y)
  BY DEF Contains
<1>8. ASSUME Wordless(m) PROVE StuckTop'
  <2>1. \A n \in {Nul} \cup Tokens : n # "SYNC_DONE" => ~ Contains(t, n)
    BY <1>1, <1>8 DEF Wordless, Has
  <2>2. "SYNC_DONE" \notin Leading /\ Leading \subseteq Tokens /\ "EMPTY_FILE" \notin Leading
    BY DEF Leading, Tokens
  <2>3. \A n \in Leading : n \notin {Open, Close, "EMPTY_FILE"}
    BY <2>2, SymbolParts
  <2>4. \A n \in Leading : ~ Contains(w, n)
    BY <1>6, <2>1, <2>2, <2>3
  <2>5. Nul # "SYNC_DONE" /\ Nul \notin {Open, Close, "EMPTY_FILE"}
    BY SymbolParts DEF Nul
  <2>6. ~ Contains(w, Nul)
    BY <1>6, <2>1, <2>5
  <2>7. ~ Contains(e, Nul)
    <3>1. "SYNC_DONE" \in Symbols /\ Close \in Symbols /\ << >> \in Strings
      BY SymbolParts, Joined DEF Tokens
    <3>2. PICK d \in Strings, c \in Strings : d = << "SYNC_DONE" >> /\ c = << Close >>
      BY <3>1, Joined
    <3>3. ~ Contains(d, Nul) /\ ~ Contains(c, Nul)
      BY <2>5, <3>1, <3>2, SingleParts
    <3>4. e = Cat(d, c)
      BY <1>3, <3>2, Joined DEF Ending, Cat
    <3> QED BY <3>3, <3>4, CatParts
  <2>8. ~ Contains(wire', Nul)
    <3>1. wire' = Cat(w, e)
      BY <1>5 DEF Cat
    <3>2. Contains(Cat(w, e), Nul) <=> Contains(w, Nul) \/ Contains(e, Nul)
      BY CatParts
    <3> QED BY <2>6, <2>7, <3>1, <3>2
  <2> QED BY <1>3, <1>5, <1>7, <2>4, <2>8 DEF StuckTop
<1>9. ~ KeepsPlace(m)
  BY DEF KeepsPlace
<1> QED BY <1>8, <1>9 DEF Lost

(* A file that is updated.                                                 *)
LEMMA WholeText ==
  ASSUME NEW m, NEW v, disk' = Put(disk, m.path, File(v))
  PROVE  Whole(m)' <=> v = m.text
<1>1. Put(disk, m.path, File(v))[m.path] = File(v) /\ m.path \in DOMAIN Put(disk, m.path, File(v))
  BY DEF Put
<1> QED BY <1>1 DEF Whole, IsFile, File

LEMMA UpdateGoingStep ==
  ASSUME NEW m \in Messages, m.kind = "update", TypeInv, Braceless, UpdateGoing(m), Reading
  PROVE  UpdateGoing(m)' \/ Done(m)' \/ Lost(m)' \/ loop' = "exited"
<1>1. PICK p \in Known \cup New, t \in Strings : p = m.path /\ t = m.text
  BY MessageParts
<1>2. /\ p \in Strings /\ Even(p) /\ p # << "SYNC_UPDATE_DONE" >>
      /\ \A dk : Asked(dk, m) = Put(dk, p, File(t))
      /\ KeepsPlace(m) <=> ~ EndsEarly(t)
  BY <1>1, PathParts DEF Tokens, Asked, KeepsPlace
<1>3. \A n \in {"SYNC_FILE", "SYNC_DONE", "EMPTY_FILE"} :
        << n >> \in Strings /\ Even(<< n >>) /\ CString(<< n >>) = << n >>
  BY TokenParts DEF Tokens
<1>4. /\ Open \in Symbols /\ Close \in Symbols /\ Open # Close /\ << >> \in Strings /\ Even(<< >>)
      /\ Ending \in Strings /\ Token("SYNC_DONE") \in Strings
      /\ Token("SYNC_DONE") = << Open >> \o Ending /\ CString(<< >>) = << >>
  <2>1. Open \in Symbols /\ Close \in Symbols /\ Open # Close /\ << >> \in Strings
        /\ Ending \in Strings /\ Token("SYNC_DONE") = << Open >> \o Ending
    BY SymbolParts, Joined, AfterParts
  <2>2. Token("SYNC_DONE") \in Strings
    BY TokenParts DEF Tokens
  <2>3. Even(<< >>) /\ CString(<< >>) = << >>
    BY DEF Even, Contains, CString
  <2> QED BY <2>1, <2>2, <2>3
<1>5. PICK y \in Strings : y = t \o (<< Open >> \o AfterText(t))
  BY AfterParts, Joined, <1>4
<1>6. PICK z \in Strings : z = Following(p, t) /\ z = Braced(p, y)
  BY <1>5, PathParts DEF Following
<1>7. phase = "update" /\ Calm
  BY DEF UpdateGoing
<1>8. phase' = phase /\ sent' = sent /\ ideal' = ideal
  BY ReadingParts DEF sender
<1>9. ASSUME UNCHANGED flags PROVE phase' = "update" /\ Calm' /\ count' = 0
  BY <1>7, <1>8, <1>9 DEF Calm, flags
<1>10. CASE loop = "top" /\ At(<< "SYNC_FILE" >>, z)
  <2>1. CASE At(<< "SYNC_FILE" >>, z)' /\ UNCHANGED Others
    BY <1>1, <1>6, <1>9, <1>10, <2>1 DEF UpdateGoing, Others
  <2>2. CASE /\ buf = << "SYNC_FILE" >> /\ wire' = z
             /\ TopClose \/ UpdatePath \/ DeletePath \/ CreateClose
    <3>1. TopClose
      BY <1>10, <2>2 DEF UpdatePath, DeletePath, CreateClose, Reads
    <3>2. Entered(CString(buf)) = "update"
      BY <1>3, <2>2 DEF Entered
    <3>3. loop' = "update" /\ buf' = << >> /\ UNCHANGED << sender, path, flag, flags, disk >>
      BY <3>1, <3>2 DEF TopClose
    <3>4. At(p, y)'
      BY <1>2, <1>6, <2>2, <3>3, AtStart DEF Braced
    <3> QED BY <1>1, <1>5, <1>9, <3>3, <3>4 DEF UpdateGoing
  <2> QED BY <1>3, <1>10, <2>1, <2>2, AtStep
<1>11. CASE loop = "update" /\ At(p, y)
  <2>1. CASE At(p, y)' /\ UNCHANGED Others
    BY <1>1, <1>5, <1>9, <1>11, <2>1 DEF UpdateGoing, Others
  <2>2. CASE buf = p /\ wire' = y /\ (TopClose \/ UpdatePath \/ DeletePath \/ CreateClose)
    <3>1. UpdatePath
      BY <1>11, <2>2 DEF TopClose, DeletePath, CreateClose, Reads
    <3>2. CASE ~ IsFile(disk, p)
      BY <1>2, <2>2, <3>1, <3>2 DEF UpdatePath
    <3>3. CASE IsFile(disk, p)
      <4>1. /\ loop' = "content" /\ path' = p /\ disk' = Put(disk, p, File(<< >>))
            /\ buf' = << >> /\ flag' = 0 /\ UNCHANGED << sender, flags >>
        BY <1>2, <2>2, <3>1, <3>3 DEF UpdatePath
      <4>3. disk'[path'].text = << >>
        BY <4>1, PutText
      <4>4. Copy(t, << >>, << >>, t, << >>, 0)
        <5>1. t = Cat(<< >>, Cat(<< >>, t))
          BY Joined DEF Cat
        <5>2. ~ Has(<< >>, Open) /\ ~ Has(<< >>, Close) /\ Len(<< >>) + Len(<< >>) = 0
          BY DEF Has, Contains
        <5>3. Unended(t, 0)
          <6>1. DOMAIN t = 1 .. Len(t) /\ Len(t) \in Nat
            BY StringParts
          <6> QED BY <6>1 DEF Unended
        <5> QED BY <1>4, <5>1, <5>2, <5>3 DEF Copy, Kept
      <4>5. Copying(t)'
        BY <1>4, <1>5, <2>2, <4>1, <4>3, <4>4, CopyingNext
      <4> QED BY <1>1, <1>9, <4>1, <4>5 DEF UpdateGoing
    <3> QED BY <3>2, <3>3
  <2> QED BY <1>2, <1>11, <2>1, <2>2, AtStep
<1>12. ASSUME loop = "content"
       PROVE  IsFile(disk, path) /\ path' = path /\ UNCHANGED flags /\ disk[path].text \in Strings
  BY <1>12, ContentCases, TextTyped
<1>13. CASE loop = "content" /\ path = p /\ Copying(t)
  <2>1. CASE /\ loop' = "content" /\ Copying(t)'
             /\ disk' = disk \/ \E v \in Strings : disk' = Put(disk, path, File(v))
    BY <1>1, <1>9, <1>12, <1>13, <2>1 DEF UpdateGoing
  <2>2. CASE /\ loop' = "content" /\ ~ EndsEarly(t) /\ flag' = EndFlag(t)
             /\ buf' = << >> /\ wire' = AfterText(t)
             /\ \E v \in Strings : disk' = Put(disk, path, File(v)) /\ (v = t <=> Clean(t))
    <3>1. KeepsPlace(m) /\ path' = m.path
      BY <1>1, <1>2, <1>12, <1>13, <2>2
    <3>2. Whole(m)' <=> Clean(t)
      BY <1>1, <1>13, <2>2, WholeText
    <3>3. CASE Full(t)
      <4>1. wire' = << "EMPTY_FILE" >> \o (<< Close >> \o Token("SYNC_DONE"))
        BY <2>2, <3>3 DEF AfterText
      <4>2. Rest(<< "EMPTY_FILE" >>, Close, Token("SYNC_DONE"))'
        BY <1>3, <1>4, <2>2, <4>1, RestStart
      <4> QED BY <1>1, <1>9, <1>12, <1>13, <2>2, <3>1, <3>3, <4>2 DEF UpdateGoing
    <3>4. CASE ~ Full(t)
      <4>1. wire' = << "SYNC_DONE" >> \o (<< Close >> \o << >>)
        BY <2>2, <3>4 DEF AfterText, Ending
      <4>2. Rest(<< "SYNC_DONE" >>, Close, << >>)'
        BY <1>3, <1>4, <2>2, <4>1, RestStart
      <4>3. UpdateResult(m)'
        BY <1>1, <3>2, <3>4 DEF UpdateResult, PlainUpdate, Clean
      <4> QED BY <1>9, <1>12, <1>13, <2>2, <3>1, <4>2, <4>3 DEF UpdateGoing
    <3> QED BY <3>3, <3>4
  <2>3. CASE /\ loop' = "top" /\ EndsEarly(t) /\ disk' = disk /\ buf' = << >>
             /\ \E s \in Strings : /\ wire' = s \o (<< Open >> \o AfterText(t))
                                   /\ \A y1 : Contains(s, y1) => Contains(t, y1)
    <3>1. Unclosed(m.path)'
      BY <1>1, <1>13, <2>3 DEF Braceless, Unclosed
    <3> QED BY <1>1, <2>3, <3>1, EarlyLost
  <2> QED BY <1>13, <2>1, <2>2, <2>3, ContentStep
<1>14. CASE /\ loop = "content" /\ path = p /\ KeepsPlace(m) /\ Full(t) /\ flag = EndFlag(t)
            /\ Rest(<< "EMPTY_FILE" >>, Close, Token("SYNC_DONE"))
  <2>1. CASE Rest(<< "EMPTY_FILE" >>, Close, Token("SYNC_DONE"))' /\ UNCHANGED Others
    BY <1>1, <1>9, <1>14, <2>1 DEF UpdateGoing, Others
  <2>2. CASE Symbol = Close /\ buf = << "EMPTY_FILE" >> /\ wire' = Token("SYNC_DONE")
    <3>1. CString(buf) = << "EMPTY_FILE" >> /\ << "EMPTY_FILE" >> # << "SYNC_DONE" >>
      BY <1>3, <2>2
    <3>2. PICK v : v = Cat(disk[path].text, << "EMPTY_FILE" >>)
      OBVIOUS
    <3>3. /\ disk' = Put(disk, path, File(v)) /\ disk'[path'].text = v
          /\ flag' = flag /\ buf' = << >> /\ loop' = "content"
      BY <1>14, <2>2, <3>1, <3>2, ContentCases, ContentWrites
    <3>4. v # << >> /\ Last(v) = "EMPTY_FILE"
      <4>1. PICK w \in Strings : w = disk[path].text
        BY <1>12, <1>14
      <4>2. "EMPTY_FILE" \in Symbols
        BY SymbolParts DEF Tokens
      <4>3. v = Append(w, "EMPTY_FILE")
        BY <3>2, <4>1, <4>2, AppendIsConcat DEF Cat, Strings
      <4> QED BY <4>2, <4>3, AppendParts
    <3>5. wire' = << >> \o (<< Open >> \o Ending)
      BY <1>4, <2>2, Joined
    <3>6. Rest(<< >>, Open, Ending)'
      BY <1>4, <3>3, <3>5, RestStart
    <3>7. path' = p
      BY <1>12, <1>14, <3>3
    <3> QED BY <1>1, <1>9, <1>12, <1>14, <3>3, <3>4, <3>6, <3>7 DEF UpdateGoing
  <2> QED BY <1>3, <1>4, <1>14, <2>1, <2>2, RestStep
<1>15. CASE /\ loop = "content" /\ path = p /\ KeepsPlace(m) /\ Full(t) /\ flag = EndFlag(t)
            /\ Rest(<< >>, Open, Ending)
            /\ disk[path].text # << >> /\ Last(disk[path].text) = "EMPTY_FILE"
  <2>1. CASE Rest(<< >>, Open, Ending)' /\ UNCHANGED Others
    BY <1>1, <1>9, <1>15, <2>1 DEF UpdateGoing, Others
  <2>2. CASE Symbol = Open /\ buf = << >> /\ wire' = Ending
    <3>1. PICK w \in Strings : w = disk[path].text
      BY <1>12, <1>15
    <3>2. PICK v : v = Cat(Cat(w, Pend(flag)), << >>)
      OBVIOUS
    <3>3. /\ disk' = Put(disk, path, File(v)) /\ buf' = << >> /\ loop' = "content"
      BY <1>4, <1>15, <2>2, <3>1, <3>2, ContentCases, ContentWrites
    <3>4. v # t
      <4>1. CASE flag = 0
        <5>1. v = w
          BY <3>2, <4>1, Joined DEF Pend, Cat
        <5>2. "EMPTY_FILE" \notin {Open, Close}
          BY DEF Open, Close
        <5> QED BY <1>15, <3>1, <4>1, <5>1, <5>2 DEF EndFlag
      <4>2. CASE flag = 1
        <5>1. v = Append(w, Open)
          <6>1. PICK o \in Strings : o = << Open >>
            BY <1>4, Joined
          <6>2. w \o << Open >> = Append(w, Open)
            BY <1>4, AppendIsConcat DEF Strings
          <6>3. w \o o \in Strings
            BY Joined
          <6>4. (w \o o) \o << >> = w \o o
            BY <6>3, Joined
          <6> QED BY <3>2, <4>2, <6>1, <6>2, <6>4 DEF Pend, Cat
        <5>2. Last(v) = Open
          BY <1>4, <5>1, AppendParts
        <5>3. v = t => t # << >>
          BY <1>4, <5>1, AppendParts
        <5> QED BY <1>15, <4>2, <5>2, <5>3 DEF EndFlag
      <4> QED BY <1>15, <4>1, <4>2 DEF EndFlag
    <3>5. UpdateResult(m)'
      <4>1. ~ Whole(m)'
        BY <1>1, <1>15, <3>3, <3>4, WholeText
      <4> QED BY <1>1, <1>15, <4>1 DEF UpdateResult, PlainUpdate
    <3>6. Rest(<< "SYNC_DONE" >>, Close, << >>)'
      BY <1>3, <1>4, <2>2, <3>3, RestStart DEF Ending
    <3> QED BY <1>9, <1>12, <1>15, <3>3, <3>5, <3>6 DEF UpdateGoing
  <2> QED BY <1>4, <1>15, <2>1, <2>2, RestStep
<1>16. CASE /\ loop = "content" /\ KeepsPlace(m) /\ UpdateResult(m)
            /\ Rest(<< "SYNC_DONE" >>, Close, << >>)
  <2>1. CASE Rest(<< "SYNC_DONE" >>, Close, << >>)' /\ UNCHANGED Others
    <3>1. UpdateResult(m)'
      BY <1>12, <1>16, <2>1 DEF Others, UpdateResult, Whole
    <3> QED BY <1>9, <1>16, <2>1, <3>1 DEF UpdateGoing, Others
  <2>2. CASE Symbol = Close /\ buf = << "SYNC_DONE" >> /\ wire' = << >>
    <3>1. ContentClose
      BY <1>16, <2>2, ContentCases
    <3>2. loop' = "top" /\ disk' = disk /\ buf' = << >> /\ UNCHANGED flags
      BY <1>3, <2>2, <3>1 DEF ContentClose
    <3>3. RestAt'
      BY <1>9, <2>2, <3>2 DEF RestAt, LoopOf
    <3>4. UpdateResult(m)'
      BY <1>12, <1>16, <3>2 DEF UpdateResult, Whole
    <3> QED BY <1>16, <3>3, <3>4 DEF Done, Result
  <2> QED BY <1>3, <1>4, <1>16, <2>1, <2>2, RestStep
<1> QED BY <1>1, <1>5, <1>6, <1>10, <1>11, <1>13, <1>14, <1>15, <1>16 DEF UpdateGoing

-----------------------------------------------------------------------------
(* The content of a new file, symbol by symbol.                            *)

LEMMA GatheredText ==
  ASSUME NEW u \in Strings, NEW b \in Strings, Gathered(u, b),
         NEW x \in Symbols, x \notin {Open, Close, Nul}
  PROVE  Gathered(Append(u, x), Append(b, x))
<1>1. PICK v \in Strings : v = Append(u, x)
  BY AppendParts
<1>2. PICK c \in Strings : c = Append(b, x)
  BY AppendParts
<1>3. /\ Len(u) \in Nat /\ Len(v) = Len(u) + 1 /\ v[Len(u) + 1] = x
      /\ \A i \in 1 .. Len(u) : v[i] = u[i]
      /\ \A y : Contains(v, y) <=> Contains(u, y) \/ y = x
  BY <1>1, AppendParts
<1>4. /\ c # << >> /\ Len(c) = Len(b) + 1 /\ Len(b) \in Nat /\ c[Len(b) + 1] = x
      /\ \A y : Contains(c, y) <=> Contains(b, y) \/ y = x
  BY <1>2, AppendParts
<1>5. /\ Even(b) /\ \A y : Contains(b, y) => Contains(u, y)
      /\ b = << >> => u = << >> \/ Last(u) \in {Open, Close, Nul}
  BY DEF Gathered
<1>6. Even(c) /\ \A y : Contains(c, y) => Contains(v, y)
  BY <1>3, <1>4, <1>5 DEF Even
<1>7. ASSUME NEW n \in FileTokens, c = << n >>
      PROVE  \E i \in DOMAIN v : /\ v[i] = n /\ (i = 1 \/ v[i - 1] \in {Open, Close, Nul})
                                 /\ \A k \in i + 1 .. Len(v) : v[k] \in {Open, Nul}
  <2>1. Len(c) = 1 /\ c[1] = n
    BY <1>7
  <2>2. b = << >> /\ x = n
    <3>2. PICK k \in Nat : k = Len(b)
      BY <1>4
    <3>3. k + 1 = 1
      <4>1. Len(c) = 1
        BY <1>7
      <4> QED BY <1>4, <3>2, <4>1
    <3>1. Len(b) = 0
      BY <3>2, <3>3
    <3> QED BY <1>4, <2>1, <3>1, StringParts
  <2>3. PICK i \in DOMAIN v : i = Len(u) + 1
    <3>1. DOMAIN v = 1 .. Len(v)
      BY StringParts
    <3> QED BY <1>3, <3>1
  <2>4. i = 1 \/ v[i - 1] \in {Open, Close, Nul}
    <3>1. CASE u = << >>
      BY <1>3, <2>3, <3>1, StringParts
    <3>2. CASE u # << >>
      <4>1. Len(u) \in 1 .. Len(u) /\ u[Len(u)] \in {Open, Close, Nul} /\ i - 1 = Len(u)
        BY <1>3, <1>5, <2>2, <2>3, <3>2, StringParts
      <4> QED BY <1>3, <4>1
    <3> QED BY <3>1, <3>2
  <2>5. \A k \in i + 1 .. Len(v) : v[k] \in {Open, Nul}
    BY <1>3, <2>3
  <2> QED BY <1>3, <2>2, <2>3, <2>4, <2>5
<1>8. Gathered(v, c)
  BY <1>4, <1>6, <1>7 DEF Gathered
<1> QED BY <1>1, <1>2, <1>8

LEMMA GatheredSkip ==
  ASSUME NEW u \in Strings, NEW b \in Strings, Gathered(u, b), NEW x \in {Open, Nul}
  PROVE  Gathered(Append(u, x), b)
<1>1. PICK v \in Strings : v = Append(u, x)
  BY SymbolParts, AppendParts
<1>2. /\ Len(u) \in Nat /\ Len(v) = Len(u) + 1 /\ v[Len(u) + 1] = x /\ Last(v) = x
      /\ \A i \in 1 .. Len(u) : v[i] = u[i]
      /\ \A y : Contains(v, y) <=> Contains(u, y) \/ y = x
  <2>1. x \in Symbols
    BY SymbolParts
  <2> QED BY <1>1, <2>1, AppendParts
<1>3. Even(b) /\ \A y : Contains(b, y) => Contains(v, y)
  BY <1>2 DEF Gathered
<1>4. ASSUME NEW n \in FileTokens, b = << n >>
      PROVE  \E i \in DOMAIN v : /\ v[i] = n /\ (i = 1 \/ v[i - 1] \in {Open, Close, Nul})
                                 /\ \A k \in i + 1 .. Len(v) : v[k] \in {Open, Nul}
  <2>1. PICK i \in DOMAIN u : /\ u[i] = n /\ (i = 1 \/ u[i - 1] \in {Open, Close, Nul})
                              /\ \A k \in i + 1 .. Len(u) : u[k] \in {Open, Nul}
    BY <1>4 DEF Gathered
  <2>2. DOMAIN u = 1 .. Len(u) /\ DOMAIN v = 1 .. Len(v)
    BY StringParts
  <2>3. i \in DOMAIN v /\ v[i] = n
    BY <1>2, <2>1, <2>2
  <2>4. i = 1 \/ v[i - 1] \in {Open, Close, Nul}
    <3>1. i # 1 => i - 1 \in 1 .. Len(u)
      BY <1>2, <2>2
    <3> QED BY <1>2, <2>1, <3>1
  <2>5. ASSUME NEW k \in i + 1 .. Len(v) PROVE v[k] \in {Open, Nul}
    <3>1. (k \in i + 1 .. Len(u) /\ k \in 1 .. Len(u)) \/ k = Len(u) + 1
      BY <1>2, <2>2
    <3> QED BY <1>2, <2>1, <3>1
  <2> QED BY <2>3, <2>4, <2>5
<1>5. Gathered(v, b)
  BY <1>2, <1>3, <1>4 DEF Gathered
<1> QED BY <1>1, <1>5

LEMMA GatheredNew ==
  ASSUME NEW u \in Strings, NEW x \in {Open, Close}
  PROVE  Gathered(Append(u, x), << >>)
<1>1. x \in Symbols
  BY SymbolParts
<1>2. Last(Append(u, x)) = x
  BY <1>1, AppendParts
<1>3. Even(<< >>) /\ \A y : ~ Contains(<< >>, y)
  BY DEF Even, Contains
<1> QED BY <1>2, <1>3 DEF Gathered

(* Braces that are closed.                                                 *)
Extends(v, u, x) ==
  /\ DOMAIN v = 1 .. Len(u) + 1 /\ Len(v) = Len(u) + 1 /\ DOMAIN u = 1 .. Len(u)
  /\ Len(u) \in Nat /\ v[Len(u) + 1] = x /\ \A i \in DOMAIN u : v[i] = u[i]
  /\ \A i \in DOMAIN u : Closed(v, i) <=> Closed(u, i) \/ x = Close
  /\ Closed(v, Len(u) + 1) <=> x = Close

LEMMA ClosedParts ==
  ASSUME NEW u \in Strings, NEW x \in Symbols, NEW v, v = Append(u, x)
  PROVE  Extends(v, u, x)
<1>1. /\ v \in Strings /\ Len(u) \in Nat /\ Len(v) = Len(u) + 1 /\ v[Len(u) + 1] = x
      /\ \A i \in 1 .. Len(u) : v[i] = u[i]
  BY AppendParts
<1>2. DOMAIN v = 1 .. Len(u) + 1 /\ DOMAIN u = 1 .. Len(u)
  BY <1>1, StringParts
<1>3. ASSUME NEW i \in DOMAIN u PROVE Closed(v, i) <=> Closed(u, i) \/ x = Close
  <2>1. ASSUME NEW j \in i .. Len(v), v[j] = Close PROVE Closed(u, i) \/ x = Close
    <3>1. (j \in i .. Len(u) /\ j \in 1 .. Len(u)) \/ j = Len(u) + 1
      BY <1>1, <1>2
    <3> QED BY <1>1, <2>1, <3>1 DEF Closed
  <2>2. ASSUME NEW j \in i .. Len(u), u[j] = Close PROVE j \in i .. Len(v) /\ v[j] = Close
    BY <1>1, <1>2, <2>2
  <2>3. Len(u) + 1 \in i .. Len(v)
    BY <1>1, <1>2
  <2> QED BY <1>1, <2>1, <2>2, <2>3 DEF Closed
<1>4. Closed(v, Len(u) + 1) <=> x = Close
  <2>1. \A j \in Len(u) + 1 .. Len(v) : j = Len(u) + 1
    BY <1>1
  <2>2. Len(u) + 1 \in Len(u) + 1 .. Len(v)
    BY <1>1
  <2> QED BY <1>1, <2>1, <2>2 DEF Closed
<1> QED BY <1>1, <1>2, <1>3, <1>4 DEF Extends

LEMMA FirstOpenStep ==
  ASSUME NEW u \in Strings, NEW b \in Strings, NEW o \in Nat, FirstOpen(u, b, o),
         NEW x \in Symbols, x # Close, NEW c \in Strings, c = b \/ Len(c) = Len(b) + 1,
         IF x \in {Open, Nul} THEN c = b ELSE c # << >>
  PROVE  FirstOpen(Append(u, x), c, o)
<1>1. PICK v \in Strings : v = Append(u, x)
  BY AppendParts
<1>2. /\ DOMAIN v = 1 .. Len(u) + 1 /\ Len(v) = Len(u) + 1 /\ DOMAIN u = 1 .. Len(u)
      /\ Len(u) \in Nat /\ v[Len(u) + 1] = x /\ \A i \in DOMAIN u : v[i] = u[i]
      /\ \A i \in DOMAIN u : Closed(v, i) <=> Closed(u, i) \/ x = Close
  <2>1. Extends(v, u, x)
    BY <1>1, ClosedParts
  <2> QED BY <2>1 DEF Extends
<1>3. /\ o \in DOMAIN u /\ u[o] = Open /\ ~ Closed(u, o)
      /\ \A i \in DOMAIN u : i < o /\ u[i] = Open => Closed(u, i)
      /\ b = << >> <=> \A k \in o .. Len(u) : u[k] \in {Open, Nul}
      /\ Len(b) <= Len(u) - o
  BY DEF FirstOpen
<1>4. o \in DOMAIN v /\ v[o] = Open /\ ~ Closed(v, o)
  BY <1>2, <1>3
<1>5. ASSUME NEW i \in DOMAIN v, i < o, v[i] = Open PROVE Closed(v, i)
  <2>1. i \in DOMAIN u
    BY <1>2, <1>3, <1>5
  <2> QED BY <1>2, <1>3, <1>5, <2>1
<1>6. (\A k \in o .. Len(v) : v[k] \in {Open, Nul}) <=>
        (\A k \in o .. Len(u) : u[k] \in {Open, Nul}) /\ x \in {Open, Nul}
  <2>1. \A k \in o .. Len(v) : (k \in o .. Len(u) /\ k \in DOMAIN u) \/ k = Len(u) + 1
    BY <1>2, <1>3
  <2>2. \A k \in o .. Len(u) : k \in DOMAIN u /\ k \in o .. Len(v)
    BY <1>2, <1>3
  <2>3. Len(u) + 1 \in o .. Len(v)
    BY <1>2, <1>3
  <2> QED BY <1>2, <2>1, <2>2, <2>3
<1>7. c = << >> <=> \A k \in o .. Len(v) : v[k] \in {Open, Nul}
  BY <1>3, <1>6
<1>9. Len(c) <= Len(v) - o
  <2>1. Len(b) \in Nat /\ Len(c) \in Nat /\ Len(c) <= Len(b) + 1
    BY StringParts
  <2> QED BY <1>2, <1>3, <2>1
<1>8. FirstOpen(v, c, o)
  BY <1>4, <1>5, <1>7, <1>9 DEF FirstOpen
<1> QED BY <1>1, <1>8

LEMMA FirstOpenNew ==
  ASSUME NEW u \in Strings, AllClosed(u)
  PROVE  FirstOpen(Append(u, Open), << >>, Len(u) + 1)
<1>1. PICK v : v = Append(u, Open)
  OBVIOUS
<1>2. /\ DOMAIN v = 1 .. Len(u) + 1 /\ Len(v) = Len(u) + 1 /\ DOMAIN u = 1 .. Len(u)
      /\ Len(u) \in Nat /\ v[Len(u) + 1] = Open /\ \A i \in DOMAIN u : v[i] = u[i]
      /\ \A i \in DOMAIN u : Closed(v, i) <=> Closed(u, i) \/ Open = Close
      /\ Closed(v, Len(u) + 1) <=> Open = Close
  <2>1. Extends(v, u, Open)
    BY <1>1, SymbolParts, ClosedParts
  <2> QED BY <2>1 DEF Extends
<1>3. Len(u) + 1 \in DOMAIN v /\ ~ Closed(v, Len(u) + 1)
  BY <1>2, SymbolParts
<1>4. ASSUME NEW i \in DOMAIN v, i < Len(u) + 1, v[i] = Open PROVE Closed(v, i)
  <2>1. i \in DOMAIN u
    BY <1>2, <1>4
  <2> QED BY <1>2, <1>4, <2>1 DEF AllClosed
<1>5. \A k \in Len(u) + 1 .. Len(v) : k = Len(u) + 1
  BY <1>2
<1>7. Len(<< >>) <= Len(v) - (Len(u) + 1)
  BY <1>2
<1>6. FirstOpen(v, << >>, Len(u) + 1)
  BY <1>2, <1>3, <1>4, <1>5, <1>7 DEF FirstOpen
<1> QED BY <1>1, <1>6

LEMMA AllClosedStep ==
  ASSUME NEW u \in Strings, NEW x \in Symbols, x = Close \/ (AllClosed(u) /\ x # Open)
  PROVE  AllClosed(Append(u, x))
<1>1. PICK v : v = Append(u, x)
  OBVIOUS
<1>2. /\ DOMAIN v = 1 .. Len(u) + 1 /\ DOMAIN u = 1 .. Len(u)
      /\ Len(u) \in Nat /\ v[Len(u) + 1] = x /\ \A i \in DOMAIN u : v[i] = u[i]
      /\ \A i \in DOMAIN u : Closed(v, i) <=> Closed(u, i) \/ x = Close
  <2>1. Extends(v, u, x)
    BY <1>1, ClosedParts
  <2> QED BY <2>1 DEF Extends
<1>3. ASSUME NEW i \in DOMAIN v, v[i] = Open PROVE Closed(v, i)
  <2>1. i \in DOMAIN u \/ i = Len(u) + 1
    BY <1>2
  <2> QED BY <1>2, <1>3, <2>1, SymbolParts DEF AllClosed
<1>4. AllClosed(v)
  BY <1>3 DEF AllClosed
<1> QED BY <1>1, <1>4

(* The end of the content of a new file.                                   *)
LEMMA SettledParts ==
  ASSUME NEW t \in Strings
  PROVE  /\ AllClosed(t) => Settled(t)
         /\ ~ Contains(t, Open) => AllClosed(t)
         /\ \A b, o : FirstOpen(t, b, o) => (b = << >> <=> Settled(t))
<1>1. DOMAIN t = 1 .. Len(t) /\ Len(t) \in Nat
  BY StringParts
<1>2. AllClosed(t) => Settled(t)
  BY DEF AllClosed, Closed, Settled
<1>3. ~ Contains(t, Open) => AllClosed(t)
  BY <1>1 DEF AllClosed, Contains
<1>4. ASSUME NEW b, NEW o, FirstOpen(t, b, o), b = << >> PROVE Settled(t)
  <2> SUFFICES ASSUME NEW i \in DOMAIN t, t[i] = Open
               PROVE  \/ \E j \in i .. Len(t) : t[j] = Close
                      \/ \A j \in i .. Len(t) : t[j] \in {Open, Nul}
    BY DEF Settled
  <2>1. /\ o \in DOMAIN t
        /\ i < o => Closed(t, i)
        /\ \A k \in o .. Len(t) : t[k] \in {Open, Nul}
    BY <1>1, <1>4 DEF FirstOpen
  <2>2. ASSUME i < o PROVE \E j \in i .. Len(t) : t[j] = Close
    BY <2>1, <2>2 DEF Closed
  <2>3. ASSUME ~ (i < o) PROVE \A j \in i .. Len(t) : t[j] \in {Open, Nul}
    <3>1. i \in Nat /\ o \in Nat /\ o <= i
      BY <1>1, <2>1, <2>3
    <3>2. \A j \in i .. Len(t) : j \in o .. Len(t)
      BY <1>1, <3>1
    <3> QED BY <2>1, <3>2
  <2> QED BY <2>2, <2>3
<1>5. ASSUME NEW b, NEW o, FirstOpen(t, b, o), Settled(t) PROVE b = << >>
  <2>1. /\ o \in DOMAIN t /\ t[o] = Open /\ ~ Closed(t, o)
        /\ b = << >> <=> \A k \in o .. Len(t) : t[k] \in {Open, Nul}
    BY <1>5 DEF FirstOpen
  <2>2. \/ \E j \in o .. Len(t) : t[j] = Close
        \/ \A j \in o .. Len(t) : t[j] \in {Open, Nul}
    BY <1>5, <2>1 DEF Settled
  <2> QED BY <2>1, <2>2 DEF Closed
<1> QED BY <1>2, <1>3, <1>4, <1>5

(* What fits in pathBuffer.                                                *)
LEMMA FullFits ==
  ASSUME NEW t \in Strings, Full(t), Fits(t), NEW b \in Strings, \E o \in Nat : FirstOpen(t, b, o)
  PROVE  Len(b) < PathSize
<1>1. DOMAIN t = 1 .. Len(t) /\ Len(t) \in Nat /\ Len(b) \in Nat
  BY StringParts
<1>2. PICK o \in Nat : FirstOpen(t, b, o)
  OBVIOUS
<1>3. o \in DOMAIN t /\ t[o] = Open /\ ~ Closed(t, o) /\ Len(b) <= Len(t) - o
  BY <1>2 DEF FirstOpen
<1>4. \A k \in o .. Len(t) : t[k] # Close
  BY <1>3 DEF Closed
<1>5. Len(t) - o + 1 <= PathSize
  BY <1>3, <1>4 DEF Fits
<1> QED BY <1>1, <1>3, <1>5, TurnAssumption

LEMMA CloseFits ==
  ASSUME NEW u \in Strings, NEW b \in Strings, \E o \in Nat : FirstOpen(u, b, o),
         NEW q \in Strings, q # << >>, Head(q) = Close, NEW t, t = Cat(u, q), Fits(t)
  PROVE  Len(b) <= PathSize
<1>1. Joins(t, u, q)
  BY TwoParts
<1>2. /\ t \in Strings /\ Len(t) = Len(u) + Len(q) /\ DOMAIN t = 1 .. Len(t)
      /\ DOMAIN u = 1 .. Len(u) /\ Len(u) \in Nat /\ Len(q) \in Nat
      /\ \A k \in 1 .. Len(u) : t[k] = u[k]
      /\ \A k \in 1 .. Len(q) : t[Len(u) + k] = q[k]
  BY <1>1 DEF Joins
<1>3. PICK o \in Nat : FirstOpen(u, b, o)
  OBVIOUS
<1>4. o \in DOMAIN u /\ u[o] = Open /\ ~ Closed(u, o) /\ Len(b) <= Len(u) - o
  BY <1>3 DEF FirstOpen
<1>5. PICK j \in DOMAIN t : j = Len(u) + 1 /\ t[j] = Close
  <2>1. Len(q) # 0 /\ q[1] = Close
    BY StringParts
  <2>2. 1 \in 1 .. Len(q) /\ Len(u) + 1 \in DOMAIN t
    BY <1>2, <2>1
  <2>3. t[Len(u) + 1] = q[1]
    BY <1>2, <2>2
  <2> QED BY <2>1, <2>2, <2>3
<1>6. o \in DOMAIN t /\ t[o] = Open /\ j \in o .. Len(t)
  BY <1>2, <1>4, <1>5
<1>7. ASSUME NEW k \in o .. j - 1 PROVE t[k] # Close
  <2>1. k \in o .. Len(u) /\ k \in 1 .. Len(u)
    BY <1>2, <1>4, <1>5
  <2> QED BY <1>2, <1>4, <2>1 DEF Closed
<1>8. j - o - 1 <= PathSize
  BY <1>5, <1>6, <1>7 DEF Fits
<1>9. Len(b) \in Nat
  BY StringParts
<1> QED BY <1>2, <1>4, <1>5, <1>8, <1>9, TurnAssumption

LEMMA WordlessParts ==
  ASSUME NEW m \in Messages, m.kind = "file", Wordless(m)
  PROVE  ~ Misread(m.text) /\ \A n \in Tokens : ~ Contains(m.text, n)
<1>1. \A n \in Tokens : ~ Contains(m.text, n)
  BY DEF Wordless, Has
<1>2. ASSUME Misread(m.text) PROVE FALSE
  <2>1. PICK i \in DOMAIN m.text : m.text[i] \in {"SYNC_FILE", "SYNC_FOLDER", "SYNC_DONE"}
    BY <1>2 DEF Misread
  <2>2. m.text[i] \in Tokens
    BY <2>1 DEF Tokens
  <2>3. DOMAIN m.text = 1 .. Len(m.text)
    BY MessageParts, StringParts
  <2>4. Contains(m.text, m.text[i])
    BY <2>3 DEF Contains
  <2> QED BY <1>1, <2>2, <2>4
<1> QED BY <1>1, <1>2

(* A token that is alone in the buffer at a closing brace.                 *)
LEMMA MisreadHere ==
  ASSUME NEW u \in Strings, NEW q \in Strings, NEW t, t = Cat(u, q), q # << >>, Head(q) = Close,
         NEW n \in FileTokens, Gathered(u, << n >>)
  PROVE  Misread(t)
<1>1. PICK i \in DOMAIN u : /\ u[i] = n /\ (i = 1 \/ u[i - 1] \in {Open, Close, Nul})
                            /\ \A k \in i + 1 .. Len(u) : u[k] \in {Open, Nul}
  BY DEF Gathered
<1>2. Joins(t, u, q)
  BY TwoParts
<1>3. /\ t \in Strings /\ Len(t) = Len(u) + Len(q) /\ DOMAIN t = 1 .. Len(t)
      /\ DOMAIN u = 1 .. Len(u) /\ Len(u) \in Nat /\ Len(q) \in Nat
      /\ \A k \in 1 .. Len(u) : t[k] = u[k]
      /\ \A k \in 1 .. Len(q) : t[Len(u) + k] = q[k]
  BY <1>2 DEF Joins
<1>4. PICK j \in DOMAIN t : j = Len(u) + 1 /\ t[j] = Close
  <2>1. Len(q) # 0 /\ q[1] = Close
    BY StringParts
  <2>2. 1 \in 1 .. Len(q) /\ Len(u) + 1 \in DOMAIN t
    BY <1>3, <2>1
  <2>3. t[Len(u) + 1] = q[1]
    BY <1>3, <2>2
  <2> QED BY <2>1, <2>2, <2>3
<1>5. i \in DOMAIN t /\ t[i] = n /\ i < j
  BY <1>1, <1>3, <1>4
<1>6. i = 1 \/ t[i - 1] \in {Open, Close, Nul}
  <2>1. i # 1 => i - 1 \in 1 .. Len(u)
    BY <1>3
  <2> QED BY <1>1, <1>3, <2>1
<1>7. ASSUME NEW k \in i + 1 .. j - 1 PROVE t[k] \in {Open, Nul}
  <2>1. k \in i + 1 .. Len(u) /\ k \in 1 .. Len(u)
    BY <1>3, <1>4
  <2> QED BY <1>1, <1>3, <2>1
<1> QED BY <1>4, <1>5, <1>6, <1>7 DEF Misread, FileTokens

(* The loop of creations, symbol by symbol.                                *)
LEMMA CreateCases ==
  ASSUME loop = "create", Reading
  PROVE  /\ Symbol = Open => CreateOpen
         /\ Symbol = Close => CreateClose
         /\ Symbol \notin {Open, Close} => CreateText
<1>1. CreateOpen \/ CreateText \/ CreateClose
  BY DEF Reading, TopOpen, TopText, TopClose, PathOpen, PathText, UpdatePath, DeletePath,
         ContentOpen, ContentText, ContentClose, Reads
<1> QED BY <1>1, SymbolParts DEF CreateOpen, CreateText, CreateClose, IsText

(* The first brace ends the content, and the file is made.                 *)
LEMMA FirstWrite ==
  ASSUME NEW m \in Messages, m.kind = "file", TypeInv, disk = old, old' = old,
         path = m.path, NEW u \in Strings, NEW q \in Strings, m.text = Cat(u, q),
         buf = u \/ ~ PlainFile(m.text), Gathered(u, buf), q # << >> => ~ PlainFile(m.text),
         disk' = IF NoFile(buf) \/ NoFile(path) THEN disk ELSE WriteFile(disk, path, buf)
  PROVE  FileResult(m)'
<1>1. PICK p \in Known \cup New, t \in Strings, b \in Strings :
        p = m.path /\ t = m.text /\ b = buf /\ p # << "EMPTY_FILE" >>
  BY MessageParts DEF TypeInv, TypeOK, Tokens
<1>2. ASSUME CanWrite(old, p), PlainFile(t) \/ Wordless(m)
      PROVE  disk' = Put(disk, p, File(b))
  <2>1. b # << "EMPTY_FILE" >>
    <3> SUFFICES ASSUME b = << "EMPTY_FILE" >> PROVE FALSE
      OBVIOUS
    <3>1. "EMPTY_FILE" \in Tokens /\ "EMPTY_FILE" \in Symbols
      BY SymbolParts DEF Tokens
    <3>2. Contains(b, "EMPTY_FILE")
      BY <3>1, SingleParts
    <3>3. Contains(u, "EMPTY_FILE")
      BY <1>1, <3>2 DEF Gathered
    <3>4. Contains(Cat(u, q), "EMPTY_FILE")
      BY <3>3, CatParts
    <3>5. ~ Wordless(m)
      BY <1>1, <3>1, <3>4, WordlessParts
    <3>6. q = << >> /\ b = u
      BY <1>1, <1>2, <3>5
    <3>7. t = b
      BY <1>1, <3>6, Joined DEF Cat
    <3> QED BY <1>2, <3>5, <3>7 DEF PlainFile
  <2> QED BY <1>1, <1>2, <2>1 DEF NoFile, WriteFile
<1>3. ASSUME CanWrite(old, p), PlainFile(t) PROVE Whole(m)'
  <2>1. b = t
    BY <1>1, <1>3, Joined DEF Cat
  <2> QED BY <1>1, <1>2, <1>3, <2>1, WholeText
<1>4. ASSUME CanWrite(old, p), Wordless(m) PROVE EvenFile(p)'
  <2>1. Even(b)
    BY <1>1 DEF Gathered
  <2> QED BY <1>2, <1>4, <2>1, PutText DEF EvenFile
<1> QED BY <1>1, <1>3, <1>4 DEF FileResult, EvenFile

(* What is written later has no braces either.                             *)
LEMMA EvenResult ==
  ASSUME NEW m, FileResult(m), ~ PlainFile(m.text), old' = old, NEW q, NEW b, Even(b),
         disk' = disk \/ disk' = WriteFile(disk, q, b)
  PROVE  FileResult(m)'
<1>1. PICK p : p = m.path
  OBVIOUS
<1>2. EvenFile(p) => EvenFile(p)'
  BY EvenWrite
<1> QED BY <1>1, <1>2 DEF FileResult, EvenFile

LEMMA SameResult ==
  ASSUME NEW m, old' = old, disk' = disk
  PROVE  FileResult(m)' = FileResult(m)
  BY DEF FileResult, Whole, EvenFile

(* Where the content has ended: what follows it is next.                   *)
LEMMA GatheringEnd ==
  ASSUME NEW m \in Messages, m.kind = "file", phase' = "create", loop' = "create",
         fileFlag' = 1, folderFlag' = 0, count' = 0, FileResult(m)', wire' = AfterText(m.text),
         NEW b \in Strings, buf' = b, Even(b), PlainFile(m.text) => b = << >>,
         b = << >> <=> Settled(m.text), Full(m.text) /\ Fits(m.text) => Len(b) < PathSize
  PROVE  FileGoing(m)' \/ Lost(m)'
<1>1. PICK t \in Strings : t = m.text
  BY MessageParts
<1>2. /\ "EMPTY_FILE" \in Symbols /\ "SYNC_DONE" \in Symbols /\ Open \in Symbols /\ Close \in Symbols
      /\ << >> \in Strings /\ << "SYNC_DONE" >> \in Strings /\ << "EMPTY_FILE" >> \in Strings
  <2>1. "EMPTY_FILE" \in Symbols /\ "SYNC_DONE" \in Symbols
    BY SymbolParts DEF Tokens
  <2> QED BY <2>1, SymbolParts, Joined
<1>3. Telling(m) => ~ Misread(t) /\ Fits(t)
  BY <1>1, WordlessParts DEF Telling
<1>4. KeepsPlace(m) <=> ~ Misread(t) /\ Fits(t) /\ (Full(t) \/ Settled(t))
  BY <1>1 DEF KeepsPlace
<1>5. CASE Full(t)
  <2>1. PICK e \in Strings : e = << "EMPTY_FILE" >>
    BY <1>2
  <2>2. wire' = e \o (<< Close >> \o Token("SYNC_DONE"))
    BY <1>1, <1>5, <2>1 DEF AfterText
  <2>3. b \o e = Append(b, "EMPTY_FILE")
    BY <1>2, <2>1, AppendIsConcat DEF Strings
  <2>4. Rest(Append(b, "EMPTY_FILE"), Close, Token("SYNC_DONE"))'
    BY <2>1, <2>2, <2>3 DEF Rest
  <2> QED BY <1>1, <1>3, <1>4, <1>5, <2>4 DEF FileGoing
<1>6. CASE ~ Full(t) /\ b = << >>
  <2>1. Rest(<< "SYNC_DONE" >>, Close, << >>)'
    BY <1>1, <1>2, <1>6, RestStart DEF AfterText, Ending
  <2> QED BY <1>1, <1>3, <1>4, <1>6, <2>1 DEF FileGoing
<1>7. CASE ~ Full(t) /\ b # << >>
  <2>1. PICK e \in Strings : e = << "SYNC_DONE" >>
    BY <1>2
  <2>2. wire' = e \o (<< Close >> \o << >>)
    BY <1>1, <1>7, <2>1 DEF AfterText, Ending
  <2>3. b \o e = Append(b, "SYNC_DONE")
    BY <1>2, <2>1, AppendIsConcat DEF Strings
  <2>4. Rest(Append(b, "SYNC_DONE"), Close, << >>)'
    BY <2>1, <2>2, <2>3 DEF Rest
  <2>5. StuckFile'
    BY <1>7, <2>4 DEF StuckFile
  <2>6. ~ KeepsPlace(m)
    BY <1>1, <1>4, <1>7
  <2> QED BY <2>5, <2>6 DEF Lost
<1> QED BY <1>5, <1>6, <1>7

LEMMA GatheringStep ==
  ASSUME NEW m \in Messages, m.kind = "file", TypeInv, phase = "create", loop = "create",
         fileFlag = 1, folderFlag = 0, Gathering(m), Reading
  PROVE  FileGoing(m)' \/ Lost(m)'
<1>1. PICK t \in Strings : t = m.text
  BY MessageParts
<1>2. PICK u \in Strings, q \in Strings :
        /\ t = Cat(u, q) /\ wire = q \o (<< Open >> \o AfterText(t)) /\ Gathered(u, buf)
        /\ Unopened(m, u) \/ Opened(m, u) \/ Reopened(m, u)
  BY <1>1 DEF Gathering
<1>3. PICK z \in Strings, r \in Strings : z = AfterText(t) /\ r = << Open >> \o z
  BY AfterParts, SymbolParts, Joined
<1>4. wire' = Tail(wire) /\ phase' = phase /\ old' = old
  BY ReadingParts DEF sender
<1>5. /\ buf \in Strings /\ count \in 0 .. 1 /\ Open \in Symbols /\ Close \in Symbols /\ Open # Close
      /\ Nul \in Symbols /\ Nul \notin {Open, Close} /\ << >> \in Strings
  BY SymbolParts, Joined DEF TypeInv, TypeOK
<1>6. ASSUME UNCHANGED << loop, fileFlag, folderFlag >>, Gathering(m)'
      PROVE  FileGoing(m)'
  BY <1>4, <1>6 DEF FileGoing
<1>7. ASSUME disk' = disk PROVE FileResult(m) => FileResult(m)'
  BY <1>4, <1>7, SameResult
<1>9. ASSUME CreateOpen, count = 1
      PROVE  /\ disk' = IF NoFile(buf) \/ NoFile(path) THEN disk ELSE WriteFile(disk, path, buf)
             /\ count' = 0 /\ buf' = << >> /\ UNCHANGED << loop, path, fileFlag, folderFlag >>
  BY <1>9 DEF CreateOpen
<1>10. ASSUME CreateOpen, count = 1, Unopened(m, u), q # << >> => ~ PlainFile(t)
       PROVE  FileResult(m)' /\ AllClosed(u)
  <2>1. FileResult(m)'
    BY <1>1, <1>2, <1>4, <1>9, <1>10, FirstWrite DEF Unopened
  <2> QED BY <1>10, <2>1, SettledParts DEF Unopened
<1>11. ASSUME CreateOpen, count = 1, Reopened(m, u)
       PROVE  FileResult(m)' /\ AllClosed(u)
  <2>1. disk' = disk \/ disk' = WriteFile(disk, path, buf)
    BY <1>9, <1>11
  <2>2. FileResult(m)'
    BY <1>2, <1>4, <1>11, <2>1, EvenResult DEF Reopened, Gathered
  <2> QED BY <1>11, <2>2 DEF Reopened
<1>12. ASSUME CreateOpen, Opened(m, u)
       PROVE  /\ FileResult(m)' /\ UNCHANGED << loop, path, fileFlag, folderFlag, count, buf >>
              /\ ~ PlainFile(t) /\ count = 0
  BY <1>1, <1>7, <1>12 DEF Opened, CreateOpen
<1>13. CASE q = << >>
  <2>1. wire = << Open >> \o z /\ t = u
    BY <1>2, <1>3, <1>13, Joined DEF Cat
  <2>2. Symbol = Open /\ wire' = AfterText(t)
    BY <1>3, <1>4, <1>5, <2>1, OneSymbol DEF Symbol
  <2>3. CreateOpen
    BY <2>2, CreateCases
  <2>4. CASE Unopened(m, u) \/ Reopened(m, u)
    <3>1. count = 1
      BY <2>4 DEF Unopened, Reopened
    <3>2. FileResult(m)' /\ AllClosed(u)
      BY <1>10, <1>11, <1>13, <2>3, <2>4, <3>1
    <3>3. count' = 0 /\ buf' = << >> /\ loop' = "create" /\ fileFlag' = 1 /\ folderFlag' = 0
      BY <1>9, <2>3, <3>1
    <3>4. Settled(t) /\ Even(<< >>) /\ Len(<< >>) < PathSize
      BY <2>1, <3>2, SettledParts, TurnAssumption DEF Even, Contains
    <3> QED BY <1>1, <1>4, <1>5, <2>2, <3>2, <3>3, <3>4, GatheringEnd
  <2>5. CASE Opened(m, u)
    <3>1. /\ FileResult(m)' /\ buf' = buf /\ ~ PlainFile(t)
          /\ count' = 0 /\ loop' = "create" /\ fileFlag' = 1 /\ folderFlag' = 0
      BY <1>12, <2>3, <2>5
    <3>2. buf = << >> <=> Settled(t)
      BY <2>1, <2>5, SettledParts DEF Opened
    <3>3. Even(buf)
      BY <1>2 DEF Gathered
    <3>4. ASSUME Full(t), Fits(t) PROVE Len(buf) < PathSize
      BY <1>5, <2>1, <2>5, <3>4, FullFits DEF Opened
    <3> QED BY <1>1, <1>4, <1>5, <2>2, <3>1, <3>2, <3>3, <3>4, GatheringEnd
  <2> QED BY <1>2, <2>4, <2>5
<1>14. CASE q # << >>
  <2>1. PICK x \in Symbols, s \in Strings : x = Head(q) /\ s = Tail(q)
    BY <1>14, HeadParts
  <2>2. wire = q \o r
    BY <1>2, <1>3
  <2>3. Symbol = x /\ wire' = s \o r
    BY <1>4, <1>14, <2>1, <2>2, <1>3, NextSymbol, SMTT(30) DEF Symbol
  <2>4. wire' = s \o (<< Open >> \o AfterText(t))
    BY <1>3, <2>3
  <2>5. PICK v \in Strings : v = Append(u, x) /\ t = Cat(v, s)
    <3>1. Append(u, x) \in Strings /\ Append(u, x) \o s = u \o q
      BY <1>14, <2>1, NextSymbol, Joined
    <3> QED BY <1>2, <3>1 DEF Cat
  <2>6. Contains(t, x)
    <3>1. Contains(q, x)
      BY <1>14, <2>1, HeadParts
    <3> QED BY <1>2, <3>1, CatParts
  <2>7. ASSUME Gathered(v, buf'), Unopened(m, v)' \/ Opened(m, v)' \/ Reopened(m, v)'
        PROVE  Gathering(m)'
    BY <1>1, <2>4, <2>5, <2>7 DEF Gathering
  <2>8. x \in {Open, Close, Nul} => ~ PlainFile(t)
    BY <2>6 DEF PlainFile, Has
  <2>9. CASE x \notin {Open, Close}
    <3>1. /\ CreateText /\ UNCHANGED << loop, path, fileFlag, folderFlag, count, disk >>
          /\ buf' = IF x = Nul THEN buf ELSE Append(buf, x)
      BY <2>3, <2>9, CreateCases DEF CreateText, flags, AppendText
    <3>2. PICK c \in Strings : c = buf'
      BY <1>5, <3>1, AppendParts
    <3>3. Gathered(v, c)
      BY <1>2, <1>5, <2>5, <2>9, <3>1, <3>2, GatheredText, GatheredSkip
    <3>4. FileResult(m) => FileResult(m)'
      BY <1>7, <3>1
    <3>8. disk' = old' <=> disk = old
      BY <1>4, <3>1
    <3>5. CASE Unopened(m, u)
      <4>1. ~ Contains(v, Open)
        BY <2>5, <2>9, <3>5, AppendParts DEF Unopened
      <4>2. c = v \/ ~ PlainFile(t)
        BY <1>1, <2>5, <2>8, <3>1, <3>2, <3>5 DEF Unopened
      <4>3. Unopened(m, v)'
        BY <1>1, <3>1, <3>2, <3>5, <3>8, <4>1, <4>2 DEF Unopened
      <4> QED BY <1>6, <2>7, <3>1, <3>2, <3>3, <3>4, <4>3
    <3>6. CASE Opened(m, u)
      <4>1. PICK o \in Nat : FirstOpen(u, buf, o)
        BY <3>6 DEF Opened
      <4>2. /\ IF x \in {Open, Nul} THEN c = buf ELSE c # << >>
            /\ c = buf \/ Len(c) = Len(buf) + 1
        BY <1>5, <2>9, <3>1, <3>2, AppendParts
      <4>3. FirstOpen(v, c, o)
        BY <1>5, <2>5, <2>9, <4>1, <4>2, FirstOpenStep
      <4>4. Opened(m, v)'
        BY <3>1, <3>2, <3>4, <3>6, <4>3 DEF Opened
      <4> QED BY <1>6, <2>7, <3>1, <3>2, <3>3, <3>4, <4>4
    <3>7. CASE Reopened(m, u)
      <4>1. AllClosed(v)
        BY <2>5, <2>9, <3>7, AllClosedStep DEF Reopened
      <4>2. Reopened(m, v)'
        BY <3>1, <3>4, <3>7, <4>1 DEF Reopened
      <4> QED BY <1>6, <2>7, <3>1, <3>2, <3>3, <3>4, <4>2
    <3> QED BY <1>2, <3>5, <3>6, <3>7
  <2>10. CASE x = Open
    <3>1. CreateOpen /\ ~ PlainFile(t)
      BY <2>3, <2>8, <2>10, CreateCases
    <3>2. CASE Unopened(m, u) \/ Reopened(m, u)
      <4>1. count = 1
        BY <3>2 DEF Unopened, Reopened
      <4>2. FileResult(m)' /\ AllClosed(u)
        BY <1>10, <1>11, <3>1, <3>2, <4>1
      <4>3. count' = 0 /\ buf' = << >> /\ UNCHANGED << loop, fileFlag, folderFlag >>
        BY <1>9, <3>1, <4>1
      <4>4. Gathered(v, << >>)
        BY <2>5, <2>10, GatheredNew
      <4>5. FirstOpen(v, << >>, Len(u) + 1) /\ Len(u) + 1 \in Nat
        BY <2>5, <2>10, <4>2, FirstOpenNew, StringParts
      <4>6. Opened(m, v)'
        BY <1>1, <3>1, <4>2, <4>3, <4>5 DEF Opened
      <4> QED BY <1>6, <2>7, <4>2, <4>3, <4>4, <4>6
    <3>3. CASE Opened(m, u)
      <4>1. FileResult(m)' /\ UNCHANGED << loop, path, fileFlag, folderFlag, count, buf >>
            /\ count = 0
        BY <1>12, <3>1, <3>3
      <4>2. PICK o \in Nat : FirstOpen(u, buf, o)
        BY <3>3 DEF Opened
      <4>3. FirstOpen(v, buf, o)
        BY <1>5, <2>5, <2>10, <4>2, FirstOpenStep
      <4>4. Gathered(v, buf)
        BY <1>2, <1>5, <2>5, <2>10, GatheredSkip
      <4>5. Opened(m, v)'
        BY <1>1, <3>1, <4>1, <4>3 DEF Opened
      <4> QED BY <1>6, <2>7, <4>1, <4>4, <4>5
    <3> QED BY <1>2, <3>2, <3>3
  <2>11. CASE x = Close
    <3>1. CreateClose /\ ~ PlainFile(t)
      BY <2>3, <2>8, <2>11, CreateCases
    <3>2. CASE \E n \in FileTokens : buf = << n >>
      <4>1. Misread(t)
        BY <1>2, <1>14, <2>1, <2>11, <3>2, MisreadHere
      <4>2. ~ KeepsPlace(m) /\ ~ Wordless(m)
        BY <1>1, <4>1, WordlessParts DEF KeepsPlace
      <4> QED BY <4>2 DEF Lost
    <3>3. CASE \A n \in FileTokens : buf # << n >>
      <4>1. ~ AboutFolder(buf) /\ buf # << "SYNC_FILE" >> /\ buf # << "SYNC_DONE" >>
        BY <3>3 DEF AboutFolder, FileTokens
      <4>2. /\ buf' = << >> /\ UNCHANGED << loop, fileFlag, folderFlag, disk >> /\ count' = 1
            /\ count = 1 => path' = path
        BY <1>5, <3>1, <4>1 DEF CreateClose, CloseFile, AboutFile
      <4>3. FileResult(m) => FileResult(m)'
        BY <1>7, <4>2
      <4>4. Gathered(v, << >>)
        BY <2>5, <2>11, GatheredNew
      <4>5. AllClosed(v)
        BY <2>5, <2>11, AllClosedStep
      <4>6. CASE Unopened(m, u)
        <5>1. ~ Contains(v, Open)
          BY <1>5, <2>5, <2>11, <4>6, AppendParts DEF Unopened
        <5>2. Unopened(m, v)'
          BY <1>1, <1>4, <3>1, <4>2, <4>6, <5>1 DEF Unopened
        <5> QED BY <1>6, <2>7, <4>2, <4>3, <4>4, <5>2
      <4>7. CASE Opened(m, u) \/ Reopened(m, u)
        <5>1. Reopened(m, v)'
          BY <4>2, <4>3, <4>5, <4>7 DEF Opened, Reopened
        <5> QED BY <1>6, <2>7, <4>2, <4>4, <5>1
      <4> QED BY <1>2, <4>6, <4>7
    <3> QED BY <3>2, <3>3
  <2> QED BY <2>9, <2>10, <2>11
<1> QED BY <1>13, <1>14

(* A file that is created.                                                 *)
LEMMA FileGoingStep ==
  ASSUME NEW m \in Messages, m.kind = "file", TypeInv, FileGoing(m), Reading
  PROVE  FileGoing(m)' \/ Done(m)' \/ Lost(m)'
<1>1. PICK p \in Known \cup New, t \in Strings : p = m.path /\ t = m.text
  BY MessageParts
<1>2. p \in Strings /\ Even(p) /\ \A n \in Tokens : p # << n >>
  BY PathParts
<1>3. "SYNC_FILE" \in Tokens /\ "SYNC_DONE" \in Tokens /\ "EMPTY_FILE" \in Tokens
      /\ "SYNC_FOLDER" \in Tokens
  BY DEF Tokens
<1>4. /\ Open \in Symbols /\ Close \in Symbols /\ Open # Close /\ << >> \in Strings /\ Even(<< >>)
      /\ Ending \in Strings
  BY SymbolParts, Joined, AfterParts DEF Even, Contains
<1>5. PICK d \in Strings : d = Token("SYNC_DONE")
  BY <1>3, TokenParts
<1>6. PICK y \in Strings : y = t \o (<< Open >> \o AfterText(t))
  BY AfterParts, Joined, <1>4
<1>7. PICK z \in Strings : z = Following(p, t) /\ z = Braced(p, y)
  BY <1>6, PathParts DEF Following
<1>8. /\ phase = "create" /\ loop = "create" /\ folderFlag = 0
  BY DEF FileGoing
<1>9. phase' = phase /\ old' = old
  BY ReadingParts DEF sender
<1>10. ASSUME disk' = disk
       PROVE  /\ FileResult(m) => FileResult(m)'
              /\ disk = old => disk' = old'
  BY <1>9, <1>10, SameResult
<1>11. ASSUME UNCHANGED Others
       PROVE  /\ phase' = "create" /\ loop' = "create" /\ UNCHANGED << fileFlag, folderFlag, count, path >>
              /\ folderFlag' = 0 /\ (FileResult(m) => FileResult(m)')
              /\ disk = old => disk' = old'
  BY <1>8, <1>9, <1>10, <1>11 DEF Others, flags
<1>12. ASSUME NEW w \in Strings, Even(w), w # << "SYNC_FOLDER" >>, NEW r \in Strings,
              At(w, r), count = 0
       PROVE  \/ At(w, r)' /\ UNCHANGED Others
              \/ /\ buf = w /\ wire' = r /\ buf' = << >> /\ disk' = disk
                 /\ AboutFile(w) => CloseFile(w) /\ UNCHANGED << loop, folderFlag >>
  <2>1. TopClose \/ UpdatePath \/ DeletePath \/ CreateClose => CreateClose
    BY <1>8 DEF TopClose, UpdatePath, DeletePath, Reads
  <2>2. CASE buf = w /\ wire' = r /\ CreateClose
    <3>1. ~ AboutFolder(buf)
      BY <1>8, <1>12, <2>2 DEF AboutFolder
    <3> QED BY <2>2, <3>1 DEF CreateClose
  <2> QED BY <1>8, <1>12, <2>1, <2>2, AtStep
<1>13. CASE fileFlag = 0 /\ count = 0 /\ disk = old /\ At(<< "SYNC_FILE" >>, z)
  <2>1. /\ << "SYNC_FILE" >> # << "SYNC_FOLDER" >> /\ << "SYNC_FILE" >> \in Strings
        /\ Even(<< "SYNC_FILE" >>)
    BY <1>3, TokenParts
  <2>2. CASE At(<< "SYNC_FILE" >>, z)' /\ UNCHANGED Others
    BY <1>1, <1>7, <1>8, <1>11, <1>13, <2>2 DEF FileGoing
  <2>3. CASE /\ wire' = z /\ buf' = << >> /\ disk' = disk
             /\ CloseFile(<< "SYNC_FILE" >>) /\ UNCHANGED << loop, folderFlag >>
    <3>1. fileFlag' = 1 /\ count' = 0
      BY <1>13, <2>3 DEF CloseFile
    <3>2. At(p, y)'
      BY <1>2, <1>7, <2>3, AtStart DEF Braced
    <3> QED BY <1>1, <1>6, <1>8, <1>9, <1>10, <1>13, <2>3, <3>1, <3>2 DEF FileGoing
  <2> QED BY <1>12, <1>13, <2>1, <2>2, <2>3 DEF AboutFile
<1>14. CASE fileFlag = 1 /\ count = 0 /\ disk = old /\ At(p, y)
  <2>1. CASE At(p, y)' /\ UNCHANGED Others
    BY <1>1, <1>6, <1>8, <1>11, <1>14, <2>1 DEF FileGoing
  <2>2. CASE /\ wire' = y /\ buf' = << >> /\ disk' = disk
             /\ CloseFile(p) /\ UNCHANGED << loop, folderFlag >>
    <3>1. path' = p /\ count' = 1 /\ fileFlag' = 1
      BY <1>1, <1>2, <1>3, <1>14, <2>2, MessageCopies DEF CloseFile
    <3>2. t = Cat(<< >>, t)
      BY Joined DEF Cat
    <3>3. Gathered(<< >>, << >>)
      <4>1. Len(<< >>) = 0 /\ \A n : << >> # << n >>
        OBVIOUS
      <4> QED BY <1>4, <4>1 DEF Gathered
    <3>4. Unopened(m, << >>)'
      BY <1>1, <1>10, <1>14, <2>2, <3>1 DEF Unopened, Contains
    <3>5. Gathering(m)'
      BY <1>1, <1>4, <1>6, <2>2, <3>2, <3>3, <3>4 DEF Gathering
    <3> QED BY <1>8, <1>9, <1>10, <2>2, <3>1, <3>5 DEF FileGoing
  <2> QED BY <1>2, <1>3, <1>12, <1>14, <2>1, <2>2 DEF AboutFile
<1>15. CASE fileFlag = 1 /\ Gathering(m)
  BY <1>8, <1>15, GatheringStep
<1>16. CASE /\ fileFlag = 1 /\ FileResult(m) /\ (Telling(m) => KeepsPlace(m)) /\ count = 0
            /\ \E b \in Strings : /\ Even(b) /\ (PlainFile(m.text) => b = << >>)
                                  /\ Fits(m.text) => Len(b) < PathSize
                                  /\ Rest(Append(b, "EMPTY_FILE"), Close, Token("SYNC_DONE"))
  <2>1. PICK b \in Strings : /\ Even(b) /\ (PlainFile(m.text) => b = << >>)
                             /\ Fits(m.text) => Len(b) < PathSize
                             /\ Rest(Append(b, "EMPTY_FILE"), Close, Token("SYNC_DONE"))
    BY <1>16
  <2>2. "EMPTY_FILE" \in Symbols /\ "EMPTY_FILE" \notin {Open, Close, Nul}
    BY <1>3, SymbolParts
  <2>3. PICK c \in Strings : c = Append(b, "EMPTY_FILE")
    BY <2>2, AppendParts
  <2>4. Even(c) /\ Last(c) = "EMPTY_FILE"
    BY <2>1, <2>2, <2>3, AppendParts DEF Even
  <2>5. \A n \in FileTokens : c # << n >>
    <3> SUFFICES ASSUME NEW n \in FileTokens, c = << n >> PROVE FALSE
      OBVIOUS
    <3>1. Last(<< n >>) = n
      BY DEF Last
    <3> QED BY <2>4, <3>1 DEF FileTokens
  <2>6. CASE Rest(c, Close, d)' /\ UNCHANGED Others
    BY <1>5, <1>8, <1>11, <1>16, <2>1, <2>3, <2>6 DEF FileGoing
  <2>7. CASE Symbol = Close /\ buf = c /\ wire' = d
    <3>1. CreateClose /\ ~ AboutFolder(buf) /\ AboutFile(buf)
          /\ buf # << "SYNC_FILE" >> /\ buf # << "SYNC_DONE" >>
      BY <1>8, <1>16, <2>5, <2>7, CreateCases DEF AboutFolder, AboutFile, FileTokens
    <3>2. /\ path' \in Copies(c) /\ count' = 1 /\ buf' = << >>
          /\ UNCHANGED << loop, fileFlag, folderFlag, disk >>
      BY <1>16, <2>7, <3>1 DEF CreateClose, CloseFile
    <3>3. wire' = << >> \o (<< Open >> \o Ending)
      <4>1. << Open >> \o Ending = d /\ << >> \o d = d
        BY <1>5, AfterParts, Joined
      <4> QED BY <2>7, <4>1
    <3>4. Rest(<< >>, Open, Ending)'
      BY <1>4, <3>2, <3>3, RestStart
    <3>5. ASSUME PlainFile(m.text) PROVE NoFile(path')
      <4>1. c = << "EMPTY_FILE" >>
        BY <2>1, <2>3, <3>5
      <4> QED BY <3>2, <4>1, EmptyCopies DEF NoFile
    <3>6. FileResult(m)'
      BY <1>10, <1>16, <3>2
    <3> QED BY <1>8, <1>9, <1>16, <3>2, <3>4, <3>5, <3>6 DEF FileGoing
  <2>8. Rest(c, Close, d)
    BY <1>5, <2>1, <2>3
  <2> QED BY <2>4, <2>6, <2>7, <2>8, RestStep
<1>17. CASE /\ fileFlag = 1 /\ FileResult(m) /\ (Telling(m) => KeepsPlace(m)) /\ count = 1
            /\ (PlainFile(m.text) => NoFile(path)) /\ Rest(<< >>, Open, Ending)
  <2>1. CASE Rest(<< >>, Open, Ending)' /\ UNCHANGED Others
    BY <1>8, <1>11, <1>17, <2>1 DEF FileGoing
  <2>2. CASE Symbol = Open /\ buf = << >> /\ wire' = Ending
    <3>1. CreateOpen
      BY <1>8, <2>2, CreateCases
    <3>2. /\ disk' = IF NoFile(buf) \/ NoFile(path) THEN disk ELSE WriteFile(disk, path, buf)
          /\ count' = 0 /\ buf' = << >> /\ UNCHANGED << loop, fileFlag, folderFlag >>
      BY <1>17, <3>1 DEF CreateOpen
    <3>3. FileResult(m)'
      <4>1. CASE PlainFile(m.text)
        <5>1. disk' = disk
          BY <1>17, <3>2, <4>1
        <5> QED BY <1>10, <1>17, <5>1
      <4>2. CASE ~ PlainFile(m.text)
        <5>1. disk' = disk \/ disk' = WriteFile(disk, path, buf)
          BY <3>2
        <5> QED BY <1>4, <1>9, <1>17, <2>2, <4>2, <5>1, EvenResult
      <4> QED BY <4>1, <4>2
    <3>4. Rest(<< "SYNC_DONE" >>, Close, << >>)'
      BY <1>3, <1>4, <2>2, <3>2, TokenParts, RestStart DEF Ending
    <3> QED BY <1>8, <1>9, <1>17, <3>2, <3>3, <3>4 DEF FileGoing
  <2> QED BY <1>4, <1>17, <2>1, <2>2, RestStep
<1>18. CASE /\ fileFlag = 1 /\ FileResult(m) /\ (Telling(m) => KeepsPlace(m)) /\ count = 0
            /\ Rest(<< "SYNC_DONE" >>, Close, << >>)
  <2>1. CASE Rest(<< "SYNC_DONE" >>, Close, << >>)' /\ UNCHANGED Others
    BY <1>8, <1>11, <1>18, <2>1 DEF FileGoing
  <2>2. CASE Symbol = Close /\ buf = << "SYNC_DONE" >> /\ wire' = << >>
    <3>1. CreateClose /\ ~ AboutFolder(buf) /\ AboutFile(buf)
      BY <1>8, <1>18, <2>2, CreateCases DEF AboutFolder, AboutFile
    <3>2. fileFlag' = 0 /\ buf' = << >> /\ UNCHANGED << loop, folderFlag, count, disk >>
      BY <1>18, <2>2, <3>1 DEF CreateClose, CloseFile
    <3>3. RestAt'
      BY <1>8, <1>9, <1>18, <2>2, <3>2 DEF RestAt, Calm, LoopOf
    <3> QED BY <1>10, <1>18, <3>2, <3>3 DEF Done, Result
  <2>3. << "SYNC_DONE" >> \in Strings /\ Even(<< "SYNC_DONE" >>)
    BY <1>3, TokenParts
  <2> QED BY <1>4, <1>18, <2>1, <2>2, <2>3, RestStep
<1>19. \/ fileFlag = 0 /\ count = 0 /\ disk = old /\ At(<< "SYNC_FILE" >>, z)
       \/ fileFlag = 1 /\ count = 0 /\ disk = old /\ At(p, y)
       \/ fileFlag = 1 /\ Gathering(m)
       \/ /\ fileFlag = 1 /\ FileResult(m) /\ (Telling(m) => KeepsPlace(m))
          /\ \/ /\ count = 0
                /\ \E b \in Strings : /\ Even(b) /\ (PlainFile(m.text) => b = << >>)
                                      /\ Fits(m.text) => Len(b) < PathSize
                                      /\ Rest(Append(b, "EMPTY_FILE"), Close, Token("SYNC_DONE"))
             \/ /\ count = 1 /\ (PlainFile(m.text) => NoFile(path))
                /\ Rest(<< >>, Open, Ending)
             \/ count = 0 /\ Rest(<< "SYNC_DONE" >>, Close, << >>)
  BY <1>1, <1>6, <1>7 DEF FileGoing
<1> QED BY <1>13, <1>14, <1>15, <1>16, <1>17, <1>18, <1>19

(* It ends on the heap only after a text with a long part between braces.  *)
LEMMA GoingCrash ==
  ASSUME NEW m \in Messages, TypeInv, Going(m), CreateCrash
  PROVE  /\ m.kind = "file" /\ ~ KeepsPlace(m) /\ ~ PlainFile(m.text)
         /\ FileResult(m)
<1>1. /\ loop = "create" /\ wire # << >> /\ Symbol = Close
      /\ folderFlag = 0 /\ fileFlag = 1 /\ count = 0
      /\ buf \notin {<< "SYNC_FOLDER" >>, << "SYNC_FILE" >>, << "SYNC_DONE" >>}
      /\ Len(buf) > PathSize
  BY DEF CreateCrash
<1>2. PICK t \in Strings : t = m.text
  BY MessageParts
<1>3. buf \in Strings /\ Len(buf) \in Nat /\ PathSize \in Nat
  BY StringParts, TurnAssumption DEF TypeInv, TypeOK
<1>4. m.kind = "file" /\ FileGoing(m)
  BY <1>1 DEF Going, UpdateGoing, DeleteAt, FolderBefore, FolderAfter
<1>5. "SYNC_DONE" \in Tokens /\ "EMPTY_FILE" \in Tokens
  BY DEF Tokens
<1>6. AfterText(t) \in Strings /\ Ending \in Strings /\ Token("SYNC_DONE") \in Strings
      /\ << Open >> \in Strings /\ << >> \in Strings
  BY <1>5, AfterParts, TokenParts, SymbolParts, Joined
<1>7. ~ At(m.path, m.text \o (<< Open >> \o AfterText(m.text)))
  <2>1. PICK y \in Strings : y = m.text \o (<< Open >> \o AfterText(m.text))
    BY <1>2, <1>6, Joined
  <2>2. PICK p \in Strings : p = m.path /\ Even(p) /\ Len(p) <= PathSize
    BY MessageParts, MessageCopies
  <2>3. ~ At(p, y)
    BY <1>1, <1>3, <2>2, AtHead
  <2> QED BY <2>1, <2>2, <2>3
<1>8. ~ Rest(<< "SYNC_DONE" >>, Close, << >>)
  <2>1. << "SYNC_DONE" >> \in Strings /\ Even(<< "SYNC_DONE" >>)
    BY <1>5, TokenParts
  <2> QED BY <1>1, <1>6, <2>1, RestHead
<1>9. KeepsPlace(m) => Fits(t)
  BY <1>2, <1>4 DEF KeepsPlace
<1>10. CASE Gathering(m)
  <2>1. PICK u \in Strings, q \in Strings :
          /\ t = Cat(u, q) /\ wire = q \o (<< Open >> \o AfterText(t)) /\ Opened(m, u)
    <3>1. \A u : ~ Unopened(m, u) /\ ~ Reopened(m, u)
      <4>1. count # 1
        BY <1>1
      <4> QED BY <4>1 DEF Unopened, Reopened
    <3> QED BY <1>2, <1>10, <3>1 DEF Gathering
  <2>2. q # << >> /\ Head(q) = Close
    <3>1. PICK r \in Strings : r = << Open >> \o AfterText(t)
      BY <1>6, Joined
    <3>2. q = << >> => Head(wire) = Open
      BY <1>6, <2>1, <3>1, SymbolParts, OneSymbol, Joined
    <3>3. q # << >> => Head(wire) = Head(q)
      BY <2>1, <3>1, NextSymbol
    <3> QED BY <1>1, <3>2, <3>3, SymbolParts DEF Symbol
  <2>3. ~ Fits(t)
    BY <1>1, <1>3, <2>1, <2>2, CloseFits DEF Opened
  <2> QED BY <1>2, <1>4, <1>9, <2>1, <2>3 DEF Opened
<1>11. CASE /\ FileResult(m)
            /\ \E b \in Strings : /\ Even(b) /\ (PlainFile(m.text) => b = << >>)
                                  /\ Fits(m.text) => Len(b) < PathSize
                                  /\ Rest(Append(b, "EMPTY_FILE"), Close, Token("SYNC_DONE"))
  <2>1. PICK b \in Strings : /\ Even(b) /\ (PlainFile(m.text) => b = << >>)
                             /\ Fits(m.text) => Len(b) < PathSize
                             /\ Rest(Append(b, "EMPTY_FILE"), Close, Token("SYNC_DONE"))
    BY <1>11
  <2>2. "EMPTY_FILE" \in Symbols /\ "EMPTY_FILE" \notin {Open, Close, Nul}
    BY <1>5, SymbolParts
  <2>3. PICK c \in Strings : c = Append(b, "EMPTY_FILE") /\ Len(c) = Len(b) + 1 /\ Even(c)
    BY <2>1, <2>2, AppendParts DEF Even
  <2>4. buf = c
    BY <1>1, <1>6, <2>1, <2>3, RestHead
  <2>5. Len(b) \in Nat /\ ~ (Len(b) < PathSize)
    BY <1>1, <1>3, <2>3, <2>4, StringParts
  <2>6. ~ PlainFile(t)
    <3>1. b # << >>
      BY <2>5, TurnAssumption
    <3> QED BY <1>2, <2>1, <3>1
  <2> QED BY <1>2, <1>4, <1>9, <1>11, <2>1, <2>5, <2>6
<1> QED BY <1>1, <1>4, <1>7, <1>8, <1>10, <1>11 DEF FileGoing

-----------------------------------------------------------------------------
(* Where the receiver has lost its place.                                  *)

(* What is written is between two braces.                                  *)
LEMMA CStringHas ==
  ASSUME NEW b \in Strings, NEW y, Contains(CString(b), y)
  PROVE  Contains(b, y)
<1> DEFINE I == {i \in DOMAIN b : b[i] = Nul}
<1>1. Len(b) \in Nat /\ DOMAIN b = 1 .. Len(b) /\ \A i \in 1 .. Len(b) : b[i] \in Symbols
  BY StringParts
<1>2. CASE Contains(b, Nul)
  <2>1. I \in SUBSET Nat /\ I # {}
    BY <1>1, <1>2 DEF Contains
  <2>2. PICK k \in 1 .. Len(b) : k = Min(I)
    BY <1>1, <2>1, MinParts
  <2>3. PICK n \in Int : n = k - 1 /\ CString(b) = SubSeq(b, 1, n)
    <3>1. CString(b) = SubSeq(b, 1, k - 1)
      BY <1>2, <2>2 DEF CString
    <3> QED BY <1>1, <3>1
  <2>4. \A i \in 1 .. n : b[i] \in Symbols /\ i \in 1 .. Len(b)
    BY <1>1, <2>3
  <2>5. 1 \in Int /\ n - 1 + 1 = n
    BY <2>3
  <2>6. /\ Len(SubSeq(b, 1, n)) = IF 1 <= n THEN n - 1 + 1 ELSE 0
        /\ \A i \in 1 .. n - 1 + 1 : SubSeq(b, 1, n)[i] = b[1 + i - 1]
    BY <2>4, <2>5, SubSeqProperties
  <2>7. SubSeq(b, 1, n) \in Strings
    BY <2>4, <2>5, SubSeqProperties DEF Strings
  <2>8. PICK i \in 1 .. Len(SubSeq(b, 1, n)) : SubSeq(b, 1, n)[i] = y
    BY <2>3 DEF Contains
  <2>9. i \in 1 .. n /\ 1 + i - 1 = i
    BY <2>3, <2>6, <2>8
  <2> QED BY <2>4, <2>5, <2>6, <2>8, <2>9 DEF Contains
<1>3. CASE ~ Contains(b, Nul)
  BY <1>3 DEF CString
<1> QED BY <1>2, <1>3

LEMMA UnclosedStep ==
  ASSUME TypeInv, Braceless, NEW p, Unclosed(p), Reading
  PROVE  Unclosed(p)'
<1>1. buf \in Strings /\ ~ Contains(buf, Close) /\ ~ Contains(CString(buf), Close)
  BY CStringHas DEF Braceless, Has, TypeInv, TypeOK
<1>2. ASSUME NEW q, NEW v, ~ Contains(v, Close), disk' = Put(disk, q, File(v))
      PROVE  Unclosed(p)'
  <2>1. q = p => Put(disk, q, File(v))[p].text = v
    BY PutText
  <2>2. q # p /\ IsFile(Put(disk, q, File(v)), p) =>
          IsFile(disk, p) /\ Put(disk, q, File(v))[p] = disk[p]
    BY DEF Put, IsFile
  <2> QED BY <1>2, <2>1, <2>2 DEF Unclosed, Has
<1>3. ASSUME NEW q, disk' = Put(disk, q, Folder) PROVE Unclosed(p)'
  <2>1. q = p => ~ IsFile(Put(disk, q, Folder), p)
    BY DEF Put, Folder, IsFile
  <2>2. q # p /\ IsFile(Put(disk, q, Folder), p) =>
          IsFile(disk, p) /\ Put(disk, q, Folder)[p] = disk[p]
    BY DEF Put, IsFile
  <2> QED BY <1>3, <2>1, <2>2 DEF Unclosed
<1>4. disk' = disk => Unclosed(p)'
  BY DEF Unclosed
<1>5. ASSUME NEW q, disk' = Without(disk, q) PROVE Unclosed(p)'
  <2>1. IsFile(Without(disk, q), p) => IsFile(disk, p) /\ Without(disk, q)[p] = disk[p]
    BY DEF Without, IsFile
  <2> QED BY <1>5, <2>1 DEF Unclosed
<1>6. CASE loop = "content"
  <2>1. IsFile(disk, path) /\ ~ Contains(disk[path].text, Close) /\ disk[path].text \in Strings
    BY <1>6, TextTyped DEF TypeInv, Braceless, Unclosed, Has
  <2>2. PICK w \in Strings, e \in Strings, h \in Strings :
          w = disk[path].text /\ e = CString(buf) /\ h = IF flag = 1 THEN << Open >> ELSE << >>
    BY <1>1, <2>1, CStringParts, SymbolParts, Joined
  <2>3. ~ Contains(h, Close)
    BY <2>2, SymbolParts, SingleParts
  <2>4. ~ Contains(Cat(w, e), Close) /\ Cat(h, e) \in Strings /\ ~ Contains(Cat(h, e), Close)
    BY <1>1, <2>1, <2>2, <2>3, CatParts
  <2>5. ~ Contains(Cat(w, Cat(h, e)), Close)
    BY <2>1, <2>2, <2>4, CatParts, ZenonT(30)
  <2>6. ContentOpen => disk' = Put(disk, path, File(Cat(w, Cat(h, e))))
    BY <2>2 DEF ContentOpen, Write, Cat
  <2>7. ContentText => disk' = disk
    BY DEF ContentText
  <2>8. ContentClose => disk' = disk \/ disk' = Put(disk, path, File(Cat(w, e)))
    BY <2>2 DEF ContentClose, Write, Cat
  <2>9. ContentOpen \/ ContentText \/ ContentClose
    BY <1>6 DEF Reading, TopOpen, TopText, TopClose, PathOpen, PathText, UpdatePath, DeletePath,
       CreateOpen, CreateText, CreateClose, Reads
  <2> QED BY <1>2, <1>4, <2>4, <2>5, <2>6, <2>7, <2>8, <2>9
<1>7. CASE TopOpen \/ TopText \/ TopClose \/ PathOpen \/ PathText \/ CreateText
  BY <1>4, <1>7 DEF TopOpen, TopText, TopClose, PathOpen, PathText, CreateText
<1>8. CASE UpdatePath
  <2>1. ~ Contains(<< >>, Close)
    BY DEF Contains
  <2>2. disk' = disk \/ disk' = Put(disk, buf, File(<< >>))
    BY <1>8 DEF UpdatePath
  <2> QED BY <1>2, <1>4, <2>1, <2>2
<1>9. CASE DeletePath
  BY <1>4, <1>5, <1>9 DEF DeletePath
<1>10. CASE CreateOpen
  <2>1. disk' = disk \/ disk' = Put(disk, path, File(buf))
    BY <1>10 DEF CreateOpen, WriteFile
  <2> QED BY <1>1, <1>2, <1>4, <2>1
<1>11. CASE CreateClose
  <2>1. disk' = disk \/ disk' = Put(disk, buf, Folder)
    BY <1>11 DEF CreateClose, CloseFolder, MakeFolder
  <2> QED BY <1>3, <1>4, <2>1
<1>12. CASE ContentOpen \/ ContentText \/ ContentClose
  BY <1>6, <1>12 DEF ContentOpen, ContentText, ContentClose, Reads
<1> QED BY <1>7, <1>8, <1>9, <1>10, <1>11, <1>12 DEF Reading

LEMMA BracelessStep ==
  ASSUME TypeInv, Braceless, Reading
  PROVE  Braceless'
<1>1. wire # << >> /\ wire \in Strings /\ buf \in Strings /\ ~ Contains(buf, Close)
  BY ReadingParts DEF TypeInv, TypeOK, Braceless, Has
<1>2. Symbol \in Symbols
  BY <1>1, HeadParts DEF Symbol
<1>3. ~ Contains(<< >>, Close)
  BY DEF Contains
<1>4. IsText => ~ Contains(Append(buf, Symbol), Close)
  BY <1>1, <1>2, AppendParts DEF IsText
<1>5. buf' = << >> \/ buf' = buf \/ (buf' = Append(buf, Symbol) /\ IsText)
  BY DEF Reading, TopOpen, TopText, TopClose, PathOpen, PathText, UpdatePath, DeletePath,
     ContentOpen, ContentText, ContentClose, CreateOpen, CreateText, CreateClose, AppendText
<1>6. ~ Has(buf, Close)'
  BY <1>1, <1>3, <1>4, <1>5 DEF Has
<1>7. ASSUME loop' = "content" PROVE Unclosed(path)'
  <2>1. CASE loop = "content"
    <3>1. path' = path
      BY <2>1 DEF Reading, TopOpen, TopText, TopClose, PathOpen, PathText, UpdatePath, DeletePath,
         ContentOpen, ContentText, ContentClose, CreateOpen, CreateText, CreateClose, Reads
    <3>2. PICK p : p = path
      OBVIOUS
    <3>3. Unclosed(p)'
      BY <2>1, <3>2, UnclosedStep DEF Braceless
    <3> QED BY <3>1, <3>2, <3>3 DEF Unclosed
  <2>2. CASE loop # "content"
    <3>1. UpdatePath /\ path' = buf /\ disk' = Put(disk, buf, File(<< >>))
      BY <1>7, <2>2 DEF Reading, TopOpen, TopText, TopClose, PathOpen, PathText, UpdatePath, DeletePath,
         ContentOpen, ContentText, ContentClose, CreateOpen, CreateText, CreateClose, Reads, Entered
    <3> QED BY <1>3, <3>1, PutText DEF Unclosed, Has
  <2> QED BY <2>1, <2>2
<1>8. ASSUME loop' = "create" PROVE Even(buf')
  <2>1. Even(<< >>)
    BY DEF Even, Contains
  <2>2. CASE loop = "create"
    <3>1. Even(buf)
      BY <2>2 DEF Braceless
    <3>2. CreateOpen \/ CreateText \/ CreateClose
      BY <2>2 DEF Reading, TopOpen, TopText, TopClose, PathOpen, PathText, UpdatePath, DeletePath,
         ContentOpen, ContentText, ContentClose, Reads
    <3>3. CASE CreateText
      <4>1. IsText /\ buf' = IF Symbol = Nul THEN buf ELSE Append(buf, Symbol)
        BY <3>3 DEF CreateText, AppendText
      <4>2. Symbol \notin {Open, Close, Nul} => Even(Append(buf, Symbol))
        BY <1>1, <1>2, <3>1, AppendParts DEF Even
      <4> QED BY <3>1, <4>1, <4>2 DEF IsText
    <3>4. CASE CreateOpen \/ CreateClose
      <4>1. buf' = << >> \/ buf' = buf
        BY <3>4 DEF CreateOpen, CreateClose
      <4> QED BY <2>1, <3>1, <4>1
    <3> QED BY <3>2, <3>3, <3>4
  <2>3. CASE loop # "create"
    <3>1. TopClose
      BY <1>8, <2>3 DEF Reading, TopOpen, TopText, TopClose, PathOpen, PathText, UpdatePath,
         DeletePath, ContentOpen, ContentText, ContentClose, CreateOpen, CreateText, CreateClose,
         Reads
    <3>2. buf' = << >>
      BY <1>8, <3>1 DEF TopClose
    <3> QED BY <2>1, <3>2
  <2> QED BY <2>2, <2>3
<1> QED BY <1>6, <1>7, <1>8 DEF Braceless

(* A plain text keeps the receiver's place.                                *)
LEMMA PlainKeeps ==
  ASSUME NEW m \in Messages, ~ KeepsPlace(m)
  PROVE  /\ m.kind = "update" => Has(m.text, Close) /\ ~ PlainUpdate(m.text)
         /\ m.kind = "file" => ~ PlainFile(m.text)
         /\ m.kind \in {"update", "file"}
<1>1. PICK t \in Strings : t = m.text /\ DOMAIN t = 1 .. Len(t)
  BY MessageParts, StringParts
<1>2. m.kind \in {"update", "file"}
  BY DEF KeepsPlace
<1>3. ASSUME EndsEarly(t) \/ Misread(t) PROVE Contains(t, Close)
  BY <1>1, <1>3 DEF EndsEarly, IsPart, Misread, Contains
<1>4. ASSUME ~ Contains(t, Open) PROVE Settled(t)
  BY <1>1, <1>4 DEF Settled, Contains
<1>5. m.kind = "update" => EndsEarly(t)
  BY <1>1 DEF KeepsPlace
<1>6. m.kind = "file" => Misread(t) \/ ~ Settled(t) \/ ~ Fits(t)
  BY <1>1 DEF KeepsPlace
<1>7. ASSUME ~ Contains(t, Open) PROVE Fits(t)
  BY <1>1, <1>7 DEF Fits, Contains
<1> QED BY <1>1, <1>2, <1>3, <1>4, <1>5, <1>6, <1>7 DEF PlainUpdate, PlainFile, Has

(* It does not find it again, nor write the file of the message.           *)
LEMMA LostStep ==
  ASSUME NEW m \in Messages, TypeInv, Braceless, Lost(m), Reading
  PROVE  Lost(m)'
<1>1. ~ KeepsPlace(m) /\ old' = old /\ loop # "crashed"
  BY ReadingParts DEF Lost, sender, Stopped
<1>2. CASE m.kind = "update" /\ Unclosed(m.path) /\ (Wordless(m) => StuckTop)
  <2>1. Unclosed(m.path)'
    BY <1>2, UnclosedStep
  <2> QED BY <1>1, <1>2, <2>1, StuckTopStep DEF Lost
<1>3. CASE m.kind = "file" /\ (Wordless(m) => (StuckFile \/ loop = "crashed") /\ FileResult(m))
  <2>1. ASSUME Wordless(m) PROVE StuckFile' /\ FileResult(m)'
    <3>1. StuckFile /\ FileResult(m)
      BY <1>1, <1>3, <2>1
    <3>2. StuckFile'
      BY <3>1, StuckFileStep
    <3>3. PICK p : p = m.path
      OBVIOUS
    <3>4. EvenFile(p) => EvenFile(p)'
      BY <3>1, EvenStep DEF StuckFile
    <3>5. ~ PlainFile(m.text)
      BY <1>1, <1>3, PlainKeeps
    <3>6. FileResult(m)'
      BY <1>1, <3>1, <3>3, <3>4, <3>5 DEF FileResult, EvenFile
    <3> QED BY <3>2, <3>6
  <2> QED BY <1>1, <1>3, <2>1 DEF Lost
<1> QED BY <1>2, <1>3 DEF Lost

LEMMA LostCrash ==
  ASSUME NEW m \in Messages, Lost(m), CreateCrash
  PROVE  Lost(m)'
<1>1. loop = "create" /\ loop' = "crashed" /\ disk' = disk /\ old' = old
  BY DEF CreateCrash, sender
<1>2. ~ StuckTop /\ FileResult(m)' = FileResult(m)
  BY <1>1, SameResult DEF StuckTop
<1>3. Unclosed(m.path)' = Unclosed(m.path)
  BY <1>1 DEF Unclosed
<1> QED BY <1>1, <1>2, <1>3 DEF Lost

(* What the sender says between two phases.                                *)
LEMMA TokensParts ==
  ASSUME EndUpdates \/ EndDeletes \/ EndCreates \/ EndTurn
  PROVE  /\ wire' \in Strings
         /\ \A y : Contains(wire', y) => y \in {Open, Close, "SYNC_UPDATE_DONE", "SYNC_DELETE",
              "SYNC_DELETE_DONE", "SYNC_CREATE", "SYNC_CREATE_DONE", "DONE_CONTROL"}
         /\ UNCHANGED << sent, old, loop, buf, path, flag, flags, disk >>
<1>1. ASSUME NEW n \in Tokens
      PROVE  Token(n) \in Strings /\ \A y : Contains(Token(n), y) => y \in {Open, Close, n}
  <2>1. Token(n) \in Strings
    BY <1>1, TokenParts
  <2>2. Len(Token(n)) = 3 /\ Token(n)[1] = Open /\ Token(n)[2] = n /\ Token(n)[3] = Close
    BY DEF Token
  <2>3. ASSUME NEW y, NEW i \in 1 .. 3, Token(n)[i] = y PROVE y \in {Open, Close, n}
    <3>1. i = 1 \/ i = 2 \/ i = 3
      OBVIOUS
    <3> QED BY <2>2, <2>3, <3>1
  <2> QED BY <2>1, <2>2, <2>3 DEF Contains
<1>2. ASSUME NEW n \in Tokens, NEW k \in Tokens
      PROVE  /\ Token(n) \o Token(k) \in Strings
             /\ \A y : Contains(Token(n) \o Token(k), y) => y \in {Open, Close, n, k}
  <2>1. PICK a \in Strings, b \in Strings : a = Token(n) /\ b = Token(k)
    BY <1>1
  <2>2. /\ Cat(a, b) \in Strings
        /\ \A y : Contains(Cat(a, b), y) <=> Contains(a, y) \/ Contains(b, y)
    BY CatParts
  <2> QED BY <1>1, <2>1, <2>2 DEF Cat
<1>3. "SYNC_UPDATE_DONE" \in Tokens /\ "SYNC_DELETE" \in Tokens /\ "SYNC_DELETE_DONE" \in Tokens
      /\ "SYNC_CREATE" \in Tokens /\ "SYNC_CREATE_DONE" \in Tokens /\ "DONE_CONTROL" \in Tokens
  BY DEF Tokens
<1>4. UNCHANGED << sent, old, loop, buf, path, flag, flags, disk >>
  BY DEF EndUpdates, EndDeletes, EndCreates, EndTurn, SendTokens
<1>5. CASE wire' = Token("SYNC_UPDATE_DONE") \o Token("SYNC_DELETE")
  BY <1>2, <1>3, <1>4, <1>5
<1>6. CASE wire' = Token("SYNC_DELETE_DONE") \o Token("SYNC_CREATE")
  BY <1>2, <1>3, <1>4, <1>6
<1>7. CASE wire' = Token("SYNC_CREATE_DONE") \/ wire' = Token("DONE_CONTROL")
  BY <1>1, <1>3, <1>4, <1>7
<1> QED BY <1>5, <1>6, <1>7 DEF EndUpdates, EndDeletes, EndCreates, EndTurn, SendTokens

LEMMA LostTokens ==
  ASSUME NEW m \in Messages, TypeInv, Lost(m), wire = << >>,
         EndUpdates \/ EndDeletes \/ EndCreates \/ EndTurn
  PROVE  Lost(m)'
<1>1. /\ wire' \in Strings
      /\ \A y : Contains(wire', y) => y \in {Open, Close, "SYNC_UPDATE_DONE", "SYNC_DELETE",
           "SYNC_DELETE_DONE", "SYNC_CREATE", "SYNC_CREATE_DONE", "DONE_CONTROL"}
      /\ UNCHANGED << sent, old, loop, buf, path, flag, flags, disk >>
  BY TokensParts
<1>2. {"SYNC_UPDATE_DONE", "SYNC_DELETE", "SYNC_DELETE_DONE", "SYNC_CREATE", "SYNC_CREATE_DONE",
       "DONE_CONTROL", "SYNC_DONE", "SYNC_FOLDER"} \subseteq Tokens
  BY DEF Tokens
<1>3. ~ Contains(wire', Nul) /\ ~ Contains(wire', "SYNC_DONE") /\ ~ Contains(wire', "SYNC_FOLDER")
  <2>1. /\ Nul \notin Tokens \cup {Open, Close}
        /\ "SYNC_DONE" \notin {Open, Close} /\ "SYNC_FOLDER" \notin {Open, Close}
    BY <1>2, SymbolParts
  <2> QED BY <1>1, <1>2, <2>1
<1>4. ASSUME StuckTop PROVE StuckTop'
  <2>1. ASSUME NEW w \in Strings, wire = w \o Ending PROVE FALSE
    <3>1. PICK d \in Strings : d = << "SYNC_DONE" >>
      BY <1>2, TokenParts
    <3>2. PICK e \in Strings : e = << Close >> \o << >>
      BY SymbolParts, Joined
    <3>3. w \o Ending = (w \o d) \o (<< Close >> \o << >>)
      BY <3>1, <3>2, Joined DEF Ending
    <3>4. PICK q \in Strings : q = w \o d
      BY Joined
    <3>5. buf \in Strings
      BY DEF TypeInv, TypeOK
    <3>6. buf \o q \in Strings
      BY <3>5, Joined
    <3>7. Rest(buf \o q, Close, << >>)
      BY <2>1, <3>3, <3>4 DEF Rest
    <3> QED BY <3>6, <3>7, Joined, NothingAhead
  <2> QED BY <1>1, <1>3, <1>4, <2>1 DEF StuckTop
<1>5. ASSUME StuckFile PROVE StuckFile'
  <2>1. ASSUME NEW b \in Strings, Rest(Append(b, "SYNC_DONE"), Close, << >>) PROVE FALSE
    <3>1. Append(b, "SYNC_DONE") \in Strings /\ << >> \in Strings
      BY <1>2, SymbolParts, AppendParts, Joined
    <3> QED BY <2>1, <3>1, NothingAhead
  <2> QED BY <1>1, <1>3, <1>5, <2>1 DEF StuckFile, flags
<1>6. Unclosed(m.path)' = Unclosed(m.path) /\ FileResult(m)' = FileResult(m)
  BY <1>1, SameResult DEF Unclosed
<1> QED BY <1>1, <1>4, <1>5, <1>6 DEF Lost

-----------------------------------------------------------------------------
(* The receiver is followed through a turn.                                *)

LEMMA EarlierParts ==
  ASSUME NEW ms \in Seq(Messages)
  PROVE  /\ ms # << >> => Last(ms) \in Messages
         /\ ms # << >> /\ All(ms, KeepsPlace) => All(Front(ms), KeepsPlace) /\ KeepsPlace(Last(ms))
         /\ \A m \in Messages : Front(Append(ms, m)) = ms
<1>1. Len(ms) \in Nat /\ DOMAIN ms = 1 .. Len(ms) /\ (ms # << >> => Len(ms) # 0)
      /\ \A i \in 1 .. Len(ms) : ms[i] \in Messages
  BY EmptySeq, LenProperties, ElementOfSeq
<1>2. ms # << >> => Last(ms) \in Messages /\ Len(ms) \in DOMAIN ms
  BY <1>1 DEF Last
<1>3. ASSUME ms # << >>, All(ms, KeepsPlace)
      PROVE  All(Front(ms), KeepsPlace) /\ KeepsPlace(Last(ms))
  <2>1. KeepsPlace(Last(ms))
    BY <1>2, <1>3 DEF All, Last
  <2>2. PICK n \in Int : n = Len(ms) - 1 /\ n - 1 + 1 = n /\ n >= 0
    <3>1. \A k \in Nat : k # 0 => /\ k - 1 \in Int /\ k - 1 - 1 + 1 = k - 1
                                 /\ k - 1 >= 0
      OBVIOUS
    <3> QED BY <1>1, <1>3, <3>1
  <2>3. \A i \in 1 .. n : ms[i] \in Messages /\ i \in DOMAIN ms
    BY <1>1, <2>2
  <2>4. 1 \in Int
    OBVIOUS
  <2>5. /\ SubSeq(ms, 1, n) \in Seq(Messages)
        /\ Len(SubSeq(ms, 1, n)) = IF 1 <= n THEN n - 1 + 1 ELSE 0
        /\ \A i \in 1 .. n - 1 + 1 : SubSeq(ms, 1, n)[i] = ms[1 + i - 1]
    BY <2>2, <2>3, <2>4, SubSeqProperties
  <2>6. DOMAIN SubSeq(ms, 1, n) = 1 .. n
    BY <2>2, <2>5, LenProperties
  <2>7. \A i \in 1 .. n : SubSeq(ms, 1, n)[i] = ms[i]
    BY <2>2, <2>5
  <2>8. All(SubSeq(ms, 1, n), KeepsPlace)
    BY <1>3, <2>3, <2>6, <2>7 DEF All
  <2> QED BY <2>1, <2>2, <2>8 DEF Front
<1>4. ASSUME NEW m \in Messages PROVE Front(Append(ms, m)) = ms
  <2>1. PICK ns \in Seq(Messages) : ns = Append(ms, m)
    BY AppendProperties
  <2>2. /\ Len(ns) = Len(ms) + 1 /\ Len(ns) - 1 = Len(ms)
        /\ \A i \in 1 .. Len(ms) : ns[i] = ms[i]
    BY <1>1, <2>1, AppendProperties
  <2>3. PICK n \in Int : n = Len(ms) /\ n >= 0 /\ n - 1 + 1 = n
    <3>1. \A k \in Nat : k \in Int /\ k >= 0 /\ k - 1 + 1 = k
      OBVIOUS
    <3> QED BY <1>1, <3>1
  <2>4. /\ \A i \in 1 .. n : ns[i] \in Messages /\ ns[i] = ms[i]
        /\ 1 \in Int
    BY <1>1, <2>2, <2>3
  <2>5. /\ SubSeq(ns, 1, n) \in Seq(Messages)
        /\ Len(SubSeq(ns, 1, n)) = IF 1 <= n THEN n - 1 + 1 ELSE 0
        /\ \A i \in 1 .. n - 1 + 1 : SubSeq(ns, 1, n)[i] = ns[1 + i - 1]
    BY <2>3, <2>4, SubSeqProperties
  <2>6. PICK w \in Seq(Messages) : w = SubSeq(ns, 1, n)
    BY <2>5
  <2>7. Len(w) = Len(ms) /\ \A i \in 1 .. Len(ms) : w[i] = ms[i]
    BY <2>3, <2>4, <2>5, <2>6
  <2>8. w = ms
    BY <2>7, SeqEqual
  <2> QED BY <2>1, <2>2, <2>3, <2>6, <2>8 DEF Front
<1> QED BY <1>2, <1>3, <1>4

(* Something is on its way at every place in a message.                    *)
LEMMA GoingWire ==
  ASSUME NEW m \in Messages, TypeInv, wire = << >>
  PROVE  ~ Going(m)
<1>1. PICK p \in Known \cup New, t \in Strings : p = m.path /\ t = m.text
  BY MessageParts
<1>2. << >> \in Strings /\ Ending \in Strings /\ buf \in Strings /\ p \in Strings
      /\ AfterText(t) \in Strings
  BY AfterParts, Joined, PathParts DEF TypeInv, TypeOK
<1>3. PICK y \in Strings : y = t \o (<< Open >> \o AfterText(t))
  BY <1>2, SymbolParts, Joined
<1>4. PICK z \in Strings : z = Following(p, t)
  BY <1>3, PathParts DEF Following
<1>5. "SYNC_FILE" \in Tokens /\ "SYNC_DONE" \in Tokens /\ "EMPTY_FILE" \in Tokens
  BY DEF Tokens
<1>6. /\ << "SYNC_FILE" >> \in Strings /\ << "SYNC_DONE" >> \in Strings
      /\ << "EMPTY_FILE" >> \in Strings /\ Token("SYNC_DONE") \in Strings
  BY <1>5, TokenParts
<1>7. \A w, r \in Strings : ~ At(w, r) /\ ~ Rest(w, Open, r) /\ ~ Rest(w, Close, r)
  BY NothingAhead
<1>8. \A q \in Strings : wire # q \o (<< Open >> \o AfterText(t))
  <2> SUFFICES ASSUME NEW q \in Strings, wire = q \o (<< Open >> \o AfterText(t)) PROVE FALSE
    OBVIOUS
  <2>1. buf \o q \in Strings
    BY <1>2, Joined
  <2>2. Rest(buf \o q, Open, AfterText(t))
    BY DEF Rest
  <2> QED BY <1>2, <1>7, <2>1, <2>2
<1>9. ~ UpdateGoing(m)
  BY <1>1, <1>2, <1>3, <1>4, <1>6, <1>7, <1>8 DEF UpdateGoing, Copying
<1>10. ~ FileGoing(m)
  <2>1. \A b \in Strings : Append(b, "EMPTY_FILE") \in Strings
    BY <1>5, SymbolParts, AppendParts
  <2> QED BY <1>1, <1>2, <1>3, <1>4, <1>6, <1>7, <1>8, <2>1 DEF FileGoing, Gathering
<1> QED BY <1>9, <1>10, NothingAhead DEF Going

(* A message is sent, and read from its first brace.                       *)
LEMMA GoingStart ==
  ASSUME NEW m \in Messages, TypeInv, RestAt, Say(m),
         phase = (IF m.kind \in {"update", "delete"} THEN m.kind ELSE "create")
  PROVE  Going(m)'
<1>1. /\ phase' = phase /\ Calm' /\ disk' = disk /\ old' = disk
      /\ m.kind \in {"update", "file"} =>
           /\ loop' = (IF m.kind = "update" THEN "top" ELSE "create")
           /\ At(<< "SYNC_FILE" >>, Following(m.path, m.text))'
      /\ m.kind = "delete" => DeleteAt(m)'
      /\ m.kind = "folder" => FolderBefore(m)'
  BY SayStep DEF Say
<1>2. CASE m.kind = "update"
  BY <1>1, <1>2 DEF Going, UpdateGoing
<1>3. CASE m.kind \in {"delete", "folder"}
  BY <1>1, <1>3 DEF Going
<1>4. CASE m.kind = "file"
  BY <1>1, <1>4 DEF Going, FileGoing, Calm
<1> QED BY <1>2, <1>3, <1>4, MessageParts DEF Kinds

LEMMA InitFollow == Init => FollowInv
<1> SUFFICES ASSUME Init PROVE FollowInv
  OBVIOUS
<1>1. RestAt
  BY DEF Init, RestAt, Calm, LoopOf
<1>2. Braceless
  BY DEF Init, Braceless, Has, Even, Contains
<1> QED BY <1>1, <1>2, InitTypeOK DEF FollowInv, Follow, Init

(* The sender goes on.                                                     *)
LEMMA FollowSend ==
  ASSUME FollowInv, Send
  PROVE  FollowInv'
<1>1. TypeInv /\ TypeInv' /\ Braceless
  BY SendTypeOK DEF FollowInv
<1>2. wire = << >> /\ loop # "exited"
  BY DEF Send, Ready, Stopped
<1>3. sent \in Seq(Messages)
  BY <1>1 DEF TypeInv, TypeOK, Messages
<1>4. UNCHANGED << loop, buf, path, flag, flags, disk >>
  BY DEF Send, SendUpdate, SendDelete, SendFile, SendFolder, Say, EndUpdates, EndDeletes,
         EndCreates, EndTurn, SendTokens
<1>5. Braceless'
  BY <1>1, <1>4 DEF Braceless, Unclosed
<1>6. ~ TurnAt /\ (sent # << >> => Last(sent) \in Messages /\ ~ Going(Last(sent)))
  BY <1>1, <1>2, <1>3, NothingAhead, GoingWire, EarlierParts
<1>7. ASSUME NEW k \in Kinds, NEW p \in Known \cup New, NEW t \in Texts \cup {<< >>},
             Say(Message(k, p, t)),
             phase = (IF k \in {"update", "delete"} THEN k ELSE "create"),
             All(Earlier', KeepsPlace)
      PROVE  Follow'
  <2>1. PICK m \in Messages : m = Message(k, p, t)
    BY DEF Messages, Message
  <2>2. m.kind = k /\ m.path = p /\ Say(m)
    BY <1>7, <2>1 DEF Message
  <2>3. sent' = Append(sent, m) /\ sent' # << >> /\ Last(sent') = m
    BY <1>3, <2>2, LastParts DEF Say
  <2>4. Earlier' = sent
    BY <1>3, <2>3, EarlierParts DEF Earlier
  <2>5. sent # << >> => All(Front(sent), KeepsPlace) /\ KeepsPlace(Last(sent))
    BY <1>3, <1>7, <2>4, EarlierParts
  <2>6. All(Earlier, KeepsPlace)
    <3>1. CASE sent = << >>
      BY <3>1 DEF Earlier, All
    <3> QED BY <2>5, <3>1 DEF Earlier
  <2>7. Follow /\ (sent # << >> => ~ Lost(Last(sent)))
    BY <1>2, <2>5, <2>6 DEF FollowInv, Lost
  <2>8. RestAt
    BY <1>6, <2>7 DEF Follow, Done
  <2>9. Going(m)'
    BY <1>1, <1>7, <2>2, <2>8, GoingStart
  <2> QED BY <2>3, <2>9 DEF Follow
<1>8. ASSUME EndUpdates \/ EndDeletes \/ EndCreates \/ EndTurn, All(Earlier', KeepsPlace)
      PROVE  Follow'
  <2>1. sent' = sent /\ old' = old
    BY <1>8, TokensParts
  <2>2. Follow
    BY <1>2, <1>8, <2>1 DEF FollowInv, Earlier
  <2>3. ASSUME RestAt
        PROVE  TurnAt' /\ \A m : Result(m) => Result(m)'
    <3>1. TurnAt' /\ disk' = disk
      BY <1>1, <1>8, <2>3, TokensStep
    <3>2. ASSUME NEW m, Result(m) PROVE Result(m)'
      BY <2>1, <3>1, <3>2, SameResult DEF Result, UpdateResult, Whole
    <3> QED BY <3>1, <3>2
  <2>4. CASE sent = << >>
    BY <1>6, <2>1, <2>2, <2>3, <2>4 DEF Follow
  <2>5. CASE sent # << >> /\ Done(Last(sent))
    <3>1. PICK m : m = Last(sent) /\ Done(m)
      BY <2>5
    <3>2. Done(m)'
      BY <1>6, <2>3, <3>1 DEF Done
    <3> QED BY <2>1, <2>5, <3>1, <3>2 DEF Follow
  <2>6. CASE sent # << >> /\ Lost(Last(sent))
    <3>1. PICK m \in Messages : m = Last(sent) /\ Lost(m)
      BY <1>6, <2>6
    <3>2. Lost(m)'
      BY <1>1, <1>2, <1>8, <3>1, LostTokens
    <3> QED BY <2>1, <2>6, <3>1, <3>2 DEF Follow
  <2> QED BY <1>6, <2>2, <2>4, <2>5, <2>6 DEF Follow
<1>9. ASSUME All(Earlier', KeepsPlace) PROVE Follow'
  <2>1. ASSUME NEW p \in Known, NEW t \in Texts, SendUpdate(p, t) PROVE Follow'
    BY <1>7, <1>9, <2>1 DEF SendUpdate, Kinds
  <2>2. ASSUME NEW p \in Known, SendDelete(p) PROVE Follow'
    BY <1>7, <1>9, <2>2 DEF SendDelete, Kinds
  <2>3. ASSUME NEW p \in New, NEW t \in Texts, SendFile(p, t) PROVE Follow'
    BY <1>7, <1>9, <2>3 DEF SendFile, Kinds
  <2>4. ASSUME NEW p \in New, SendFolder(p) PROVE Follow'
    BY <1>7, <1>9, <2>4 DEF SendFolder, Kinds
  <2> QED BY <1>8, <1>9, <2>1, <2>2, <2>3, <2>4 DEF Send
<1> QED BY <1>1, <1>5, <1>9 DEF FollowInv

(* What it reads leads the receiver on, to the end of the message or away  *)
(* from it.                                                                *)
LEMMA FollowReading ==
  ASSUME FollowInv, Reading
  PROVE  FollowInv'
<1>1. TypeInv /\ TypeInv' /\ Braceless /\ Braceless'
  BY ReadingTypeOK, BracelessStep DEF FollowInv
<1>2. wire # << >> /\ loop # "exited" /\ sent' = sent /\ old' = old
  BY ReadingParts DEF sender, Stopped
<1>3. sent \in Seq(Messages)
  BY <1>1 DEF TypeInv, TypeOK, Messages
<1>4. ~ RestAt
  BY <1>2 DEF RestAt
<1>5. ASSUME disk' = disk, NEW m PROVE Result(m) => Result(m)'
  BY <1>2, <1>5, SameResult DEF Result, UpdateResult, Whole
<1>6. ASSUME NEW m \in Messages, Going(m), loop' # "exited"
      PROVE  Going(m)' \/ Done(m)' \/ Lost(m)'
  <2>1. CASE m.kind = "update" /\ UpdateGoing(m)
    BY <1>1, <1>6, <2>1, UpdateGoingStep DEF Going
  <2>2. CASE m.kind = "file" /\ FileGoing(m)
    BY <1>1, <2>2, FileGoingStep DEF Going
  <2>3. m.kind \in {"delete", "folder"} => KeepsPlace(m) /\ Result(m)'
    BY DEF KeepsPlace, Result
  <2>4. CASE m.kind = "delete" /\ DeleteAt(m)
    BY <1>1, <2>3, <2>4, DeleteStep DEF Going, Done
  <2>5. CASE m.kind = "folder" /\ (FolderBefore(m) \/ FolderAfter)
    BY <1>1, <2>3, <2>5, FolderStep DEF Going, Done
  <2> QED BY <1>6, <2>1, <2>2, <2>4, <2>5 DEF Going
<1>7. ASSUME All(Earlier', KeepsPlace), loop' # "exited"
      PROVE  Follow'
  <2>1. Follow
    BY <1>2, <1>7 DEF FollowInv, Earlier
  <2>2. CASE sent = << >> /\ TurnAt
    BY <1>1, <1>2, <2>2, TurnStep DEF Follow
  <2>3. CASE sent # << >> /\ (Going(Last(sent)) \/ Done(Last(sent)) \/ Lost(Last(sent)))
    <3>1. PICK m \in Messages : m = Last(sent)
      BY <1>3, <2>3, EarlierParts
    <3>2. CASE Going(m)
      BY <1>2, <1>6, <1>7, <2>3, <3>1, <3>2 DEF Follow
    <3>3. CASE Done(m)
      <4>1. (TurnAt' \/ RestAt') /\ disk' = disk
        BY <1>1, <1>4, <3>3, TurnStep DEF Done
      <4>2. Done(m)'
        BY <1>5, <3>3, <4>1 DEF Done
      <4> QED BY <1>2, <2>3, <3>1, <4>2 DEF Follow
    <3>4. CASE Lost(m)
      BY <1>1, <1>2, <2>3, <3>1, <3>4, LostStep DEF Follow
    <3> QED BY <2>3, <3>1, <3>2, <3>3, <3>4
  <2> QED BY <1>4, <2>1, <2>2, <2>3 DEF Follow
<1> QED BY <1>1, <1>7 DEF FollowInv

LEMMA FollowReceive ==
  ASSUME FollowInv, Receive
  PROVE  FollowInv'
<1>1. CASE CreateCrash
  <2>1. /\ loop = "create" /\ loop' = "crashed" /\ wire # << >>
        /\ UNCHANGED << phase, sent, old, buf, disk >>
    BY <1>1 DEF CreateCrash, sender
  <2>2. TypeInv /\ TypeInv' /\ sent \in Seq(Messages)
    BY ReceiveTypeOK DEF FollowInv, TypeInv, TypeOK, Messages
  <2>3. Braceless'
    BY <2>1 DEF FollowInv, Braceless, Has
  <2>4. ~ RestAt /\ ~ TurnAt
    <3>1. /\ Symbol = Close /\ fileFlag = 1
      BY <1>1 DEF CreateCrash
    <3> QED BY <2>1, <3>1 DEF RestAt, TurnAt, Calm
  <2>5. ASSUME All(Earlier', KeepsPlace) PROVE Follow'
    <3>1. Follow
      BY <2>1, <2>5 DEF FollowInv, Earlier
    <3>2. PICK m \in Messages : sent # << >> /\ m = Last(sent) /\ (Going(m) \/ Lost(m))
      BY <2>2, <2>4, <3>1, EarlierParts DEF Follow, Done
    <3>3. FileResult(m)' = FileResult(m)
      BY <2>1, SameResult
    <3>4. Lost(m)'
      <4>1. CASE Going(m)
        BY <1>1, <2>1, <2>2, <3>3, <4>1, GoingCrash DEF Lost
      <4>2. CASE Lost(m)
        BY <1>1, <4>2, LostCrash
      <4> QED BY <3>2, <4>1, <4>2
    <3> QED BY <2>1, <3>2, <3>4 DEF Follow
  <2> QED BY <2>2, <2>3, <2>5 DEF FollowInv
<1> QED BY <1>1, ReceiveCases, FollowReading

LEMMA FollowStutter ==
  ASSUME FollowInv, UNCHANGED vars
  PROVE  FollowInv'
<1> USE DEF vars
<1>1. TypeInv' /\ Braceless'
  BY DEF FollowInv, TypeInv, TypeOK, Typed, IsFile, Braceless, Unclosed
<1>2. \A w, x, r : Rest(w, x, r)' = Rest(w, x, r)
  BY DEF Rest
<1>3. \A w, r : At(w, r)' = At(w, r)
  BY DEF At, Rest
<1>4. /\ Calm' = Calm
      /\ \A m : FileResult(m)' = FileResult(m) /\ UpdateResult(m)' = UpdateResult(m)
  BY SameResult DEF Calm, UpdateResult, Whole
<1>5. \A t : Copying(t)' = Copying(t)
  BY DEF Copying
<1>6. \A m : Gathering(m)' = Gathering(m)
  BY <1>4, ZenonT(30) DEF Gathering, Unopened, Opened, Reopened
<1>7. \A m : UpdateGoing(m)' = UpdateGoing(m) /\ FileGoing(m)' = FileGoing(m)
  BY <1>2, <1>3, <1>4, <1>5, <1>6 DEF UpdateGoing, FileGoing
<1>8. \A m : Going(m)' = Going(m)
  BY <1>3, <1>4, <1>7 DEF Going, DeleteAt, FolderBefore, FolderAfter
<1>9. \A m : Done(m)' = Done(m)
  BY <1>3, <1>4 DEF Done, RestAt, TurnAt, Result
<1>10. \A m : Lost(m)' = Lost(m)
  BY <1>2, <1>4 DEF Lost, StuckTop, StuckFile, Unclosed
<1>11. Earlier' = Earlier /\ loop' = loop /\ sent' = sent
  BY DEF Earlier
<1>12. Follow => Follow'
  BY <1>3, <1>4, <1>8, <1>9, <1>10, <1>11 DEF Follow, RestAt, TurnAt
<1> QED BY <1>1, <1>11, <1>12 DEF FollowInv

(* Between two messages the last is read, or the place lost.               *)
LEMMA BetweenParts ==
  ASSUME FollowInv, Between, sent # << >>, All(Earlier, KeepsPlace), NEW m, m = Last(sent)
  PROVE  /\ m \in Messages
         /\ \/ RestAt /\ Result(m) /\ (Telling(m) => KeepsPlace(m))
            \/ Lost(m)
<1>1. TypeInv /\ sent \in Seq(Messages)
  BY DEF FollowInv, TypeInv, TypeOK, Messages
<1>2. m \in Messages /\ ~ Going(m) /\ ~ TurnAt
  BY <1>1, EarlierParts, GoingWire, NothingAhead DEF Between
<1> QED BY <1>2 DEF FollowInv, Follow, Done, Between

LEMMA FollowTheorem == Spec => []FollowInv
<1>1. FollowInv /\ [Next]_vars => FollowInv'
  BY FollowSend, FollowReceive, FollowStutter DEF Next
<1> QED BY <1>1, InitFollow, PTL DEF Spec

(* Whatever the contents are, an update leaves the text that was sent if   *)
(* and only if it is plain, as long as the messages before it let the      *)
(* receiver keep its place.                                                *)
THEOREM UpdatesWhole == Spec => []UpdateWhole
<1>1. FollowInv => UpdateWhole
  <2> SUFFICES ASSUME FollowInv, Follows("update")
               PROVE  Whole(Last(sent)) <=> PlainUpdate(Last(sent).text)
    BY DEF UpdateWhole
  <2>1. PICK m : m = Last(sent)
    OBVIOUS
  <2>2. /\ m \in Messages /\ m.kind = "update"
        /\ (RestAt /\ Result(m) /\ (Telling(m) => KeepsPlace(m))) \/ Lost(m)
    BY <2>1, BetweenParts DEF Follows
  <2>3. CASE Result(m)
    BY <2>1, <2>2, <2>3 DEF Result, UpdateResult
  <2>4. CASE Lost(m)
    <3>1. Has(m.text, Close) /\ ~ PlainUpdate(m.text)
      BY <2>2, <2>4, PlainKeeps DEF Lost
    <3>2. ~ Whole(m)
      BY <2>2, <2>4, <3>1 DEF Lost, Unclosed, Whole
    <3> QED BY <2>1, <3>1, <3>2
  <2> QED BY <2>2, <2>3, <2>4
<1> QED BY <1>1, FollowTheorem, PTL

(* A new file has the text that was sent if and only if it is plain, as    *)
(* long as the messages before it let the receiver keep its place. One     *)
(* that is not may have any content without tokens: what is between its    *)
(* braces may be a path of the tree, its own or another's, or too long for *)
(* pathBuffer. No file that is made of such a content has a brace in it.   *)
THEOREM FilesWhole == Spec => []FileWhole
<1>1. FollowInv => FileWhole
  <2> SUFFICES ASSUME FollowInv, NEW m, m = Last(sent), Follows("file"), CanWrite(old, m.path),
                      PlainFile(m.text) \/ Wordless(m)
               PROVE  Whole(m) <=> PlainFile(m.text)
    BY DEF FileWhole
  <2>1. /\ m \in Messages /\ m.kind = "file"
        /\ (RestAt /\ Result(m) /\ (Telling(m) => KeepsPlace(m))) \/ Lost(m)
    BY BetweenParts DEF Follows
  <2>2. FileResult(m)
    BY <2>1, PlainKeeps DEF Result, Lost
  <2>3. ASSUME Whole(m), EvenFile(m.path), Wordless(m) PROVE PlainFile(m.text)
    <3>1. Even(m.text)
      BY <2>3 DEF Whole, EvenFile
    <3>2. "EMPTY_FILE" \in Symbols /\ "EMPTY_FILE" \in Tokens
      BY SymbolParts DEF Tokens
    <3>3. m.text # << "EMPTY_FILE" >>
      <4>1. Contains(<< "EMPTY_FILE" >>, "EMPTY_FILE")
        BY <3>2, SingleParts
      <4>2. ~ Contains(m.text, "EMPTY_FILE")
        BY <2>1, <2>3, <3>2, WordlessParts
      <4> QED BY <4>1, <4>2
    <3> QED BY <3>1, <3>3 DEF Even, PlainFile, Has
  <2> QED BY <2>2, <2>3 DEF FileResult
<1> QED BY <1>1, FollowTheorem, PTL

(* Whatever the contents are, the receiver loses its place only after the  *)
(* messages with one of the texts above, and does so after each of them    *)
(* that has no other token in it and whose parts between braces fit in     *)
(* pathBuffer.                                                             *)
THEOREM PlaceKept == Spec => []RestsAfter
<1>1. FollowInv => RestsAfter
  <2> SUFFICES ASSUME FollowInv, Between, sent # << >>, All(Earlier, KeepsPlace),
                      NEW m, m = Last(sent), KeepsPlace(m) \/ Telling(m)
               PROVE  AtRest <=> KeepsPlace(m)
    BY DEF RestsAfter, Telling
  <2>1. /\ m \in Messages
        /\ (RestAt /\ Result(m) /\ (Telling(m) => KeepsPlace(m))) \/ Lost(m)
    BY BetweenParts
  <2>2. CASE RestAt /\ (Telling(m) => KeepsPlace(m))
    BY <2>2 DEF RestAt, AtRest, Calm
  <2>3. CASE Lost(m)
    <3>1. ~ KeepsPlace(m) /\ (StuckTop \/ StuckFile \/ loop = "crashed")
      BY <2>3 DEF Lost, Telling
    <3>2. StuckFile => fileFlag = 1
      BY DEF StuckFile
    <3>4. loop = "crashed" => loop # LoopOf[phase]
      BY DEF LoopOf, FollowInv, TypeInv, TypeOK
    <3>3. ASSUME StuckTop PROVE buf # << >>
      <4>1. ASSUME NEW w \in Strings, wire = w \o Ending PROVE FALSE
        <5>1. PICK e \in Strings : e = Ending
          BY AfterParts
        <5>2. Contains(e, "SYNC_DONE")
          <6>1. "SYNC_DONE" \in Symbols
            BY SymbolParts DEF Tokens
          <6>2. << "SYNC_DONE" >> \in Strings /\ << Close >> \o << >> \in Strings
            BY <6>1, SymbolParts, Joined
          <6> QED BY <5>1, <6>1, <6>2, SingleParts, CatParts DEF Ending, Cat
        <5>3. Contains(Cat(w, e), "SYNC_DONE")
          BY <5>2, CatParts
        <5> QED BY <4>1, <5>1, <5>3 DEF Between, Cat, Contains
      <4>2. Contains(buf, "SYNC_DONE")
        BY <3>3, <4>1 DEF StuckTop
      <4> QED BY <4>2 DEF Contains
    <3> QED BY <3>1, <3>2, <3>3, <3>4 DEF AtRest
  <2> QED BY <2>1, <2>2, <2>3
<1> QED BY <1>1, FollowTheorem, PTL
=============================================================================
