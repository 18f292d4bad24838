----------------------------- MODULE TokenParser -----------------------------
(***************************************************************************)
(* One turn on the wire: a host sends its updates, deletions and creations *)
(* as text between braces, and the other applies them while it reads, one  *)
(* character after the other (syncCheckReceive.c; the sender is that of    *)
(* syncCheckSendClient.c, syncCheckSendServer.c and syncCheckSendCommon.c).*)
(* Contents are sent between tokens as they are: a content with braces     *)
(* looks like tokens. SyncRound takes this text for granted; this module   *)
(* says for which contents it may. Left out is a text of more than 254     *)
(* characters where the loops of updates and deletions read a path: they   *)
(* refuse it and keep it in the buffer.                                    *)
(***************************************************************************)
EXTENDS Naturals, Sequences, SequencesExt, FiniteSetsExt

CONSTANTS
  Known,      (* Paths of the tree of the last turn, which may be changed.   *)
  New,        (* Paths that are new since.                                   *)
  Folders,    (* The paths, of either, that are folders.                     *)
  Texts,      (* What a file may hold: sequences of symbols.                 *)
  Block,      (* RECEIVE_BUFFER_SIZE: what the sender reads at once (2048).  *)
  PathSize,   (* How many symbols the 256 bytes of pathBuffer surely hold.   *)
  InitDisks,  (* The receiver's directory at the start.                      *)
  MaxTexts    (* Bound: how many files a turn sends.                         *)

(* A symbol is a character, a brace, the character 0, a token's name, or   *)
(* a name in a path with the "/" before it. A path is a sequence of such   *)
(* names; a buffer is a sequence of any symbols.                           *)
Open == "{"
Close == "}"
Nul == "NUL"
Tokens == {"SYNC_FILE", "SYNC_FOLDER", "SYNC_DONE", "SYNC_UPDATE_DONE",
           "SYNC_DELETE", "SYNC_DELETE_DONE", "SYNC_CREATE",
           "SYNC_CREATE_DONE", "DONE_CONTROL", "EMPTY_FILE"}
Slashed == UNION {ToSet(p) : p \in Known \cup New}
Letters == (UNION {ToSet(t) : t \in Texts}) \ ({Open, Close, Nul} \cup Tokens)
Symbols == Letters \cup Tokens \cup Slashed \cup {Open, Close, Nul}
Strings == Seq(Symbols)

ASSUME TurnAssumption ==
  /\ Known \cap New = {} /\ Folders \subseteq Known \cup New
  /\ \A p \in Known \cup New : p # << >> /\ p \in Seq(Slashed) /\ Len(p) <= PathSize
  /\ \A t \in Texts : t \in Strings
  /\ Slashed \cap (Tokens \cup {Open, Close, Nul}) = {}
  /\ Block \in Nat \ {0} /\ PathSize \in Nat \ {0} /\ MaxTexts \in Nat

(* A directory is a function from the paths in it to their nodes. A path   *)
(* that does not begin with "/" is a node beside the folder: the receiver  *)
(* puts it behind the folder's name, "dir/folder" and "b" give "dir/folderb". *)
Typed(dk) ==
  \A p \in DOMAIN dk : /\ p \in Strings /\ dk[p].kind \in {"dir", "file"}
                       /\ dk[p].text \in Strings

ASSUME DiskAssumption == \A dk \in InitDisks : Typed(dk)

Folder == [kind |-> "dir", text |-> << >>]
File(t) == [kind |-> "file", text |-> t]
Beside(p) == p # << >> /\ Head(p) \notin Slashed
IsFolder(dk, p) == p = << >> \/ (p \in DOMAIN dk /\ dk[p].kind = "dir")
IsFile(dk, p) == p \in DOMAIN dk /\ dk[p].kind = "file"
Put(dk, p, n) == [q \in DOMAIN dk \cup {p} |-> IF q = p THEN n ELSE dk[q]]
Without(dk, p) == [q \in {r \in DOMAIN dk : ~ IsPrefix(p, r)} |-> dk[q]]
InFolder(dk, p) == Beside(p) \/ IsFolder(dk, Front(p))

(* open with O_CREAT fails where a folder is or the folder above is not.   *)
CanWrite(dk, p) == ~ IsFolder(dk, p) /\ InFolder(dk, p)
WriteFile(dk, p, t) == IF CanWrite(dk, p) THEN Put(dk, p, File(t)) ELSE dk

MakeFolder(dk, p) ==
  IF p # << >> /\ p \notin DOMAIN dk /\ InFolder(dk, p)
  THEN Put(dk, p, Folder) ELSE dk

(* The C string in a buffer ends at the first 0.                           *)
CString(b) == IF Contains(b, Nul)
              THEN SubSeq(b, 1, Min({i \in DOMAIN b : b[i] = Nul}) - 1) ELSE b

-----------------------------------------------------------------------------
(* The sender. A content is read in blocks; a read that returns nothing is *)
(* announced by a token of its own: that of an empty file, and the one     *)
(* after a last block that was full.                                       *)
Token(n) == << Open, n, Close >>
Payload(t) == t \o IF Len(t) % Block = 0 THEN Token("EMPTY_FILE") ELSE << >>

(* A message: its token, its path and its content.                         *)
Message(k, p, t) == [kind |-> k, path |-> p, text |-> t]
Kinds == {"update", "delete", "file", "folder"}

Wire(m) ==
  LET path == << Open >> \o m.path \o << Close >> IN
  CASE m.kind \in {"update", "file"} ->
         Token("SYNC_FILE") \o path \o Payload(m.text) \o Token("SYNC_DONE")
    [] m.kind = "folder" ->
         Token("SYNC_FOLDER") \o path \o Token("SYNC_DONE")
    [] m.kind = "delete" -> path

(* What the message asks for.                                              *)
Asked(dk, m) ==
  CASE m.kind = "update" -> Put(dk, m.path, File(m.text))
    [] m.kind = "delete" -> Without(dk, m.path)
    [] m.kind = "file" -> WriteFile(dk, m.path, m.text)
    [] m.kind = "folder" -> MakeFolder(dk, m.path)

VARIABLES
  phase,      (* What the sender is at: "update", "delete", "create",        *)
              (* "done", "sent".                                             *)
  sent,       (* The messages of the turn so far.                            *)
  wire,       (* The symbols sent and not yet read.                          *)
  loop,       (* The receive loop that reads, or "over", or "exited", or     *)
              (* "crashed".                                                  *)
  buf,        (* Its buffer.                                                 *)
  path,       (* syncReceiveFile: the file to write; createReceiveFile:      *)
              (* pathBuffer.                                                 *)
  flag,       (* readSocketWriteFile: a brace ended what was written last.   *)
  fileFlag,   (* createReceiveFile: between SYNC_FILE and SYNC_DONE.         *)
  folderFlag, (* createReceiveFile: between SYNC_FOLDER and SYNC_DONE.       *)
  count,      (* createReceiveFile: contentCount, 1 after the path.          *)
  disk,       (* The receiver's directory.                                   *)
  old,        (* The receiver's directory when the last message was sent.    *)
  ideal       (* The directory the messages ask for.                         *)

sender == << phase, sent, old, ideal >>
flags == << fileFlag, folderFlag, count >>
vars == << phase, sent, wire, loop, buf, path, flag, fileFlag, folderFlag,
           count, disk, old, ideal >>

Paths == {sent[i].path : i \in DOMAIN sent}
Sent(k) == {sent[i].path : i \in {j \in DOMAIN sent : sent[j].kind = k}}
Files == Sent("update") \cup Sent("file")

Init ==
  /\ phase = "update" /\ sent = << >> /\ wire = << >>
  /\ loop = "top" /\ buf = << >> /\ path = << >>
  /\ flag = 0 /\ fileFlag = 0 /\ folderFlag = 0 /\ count = 0
  /\ disk \in InitDisks /\ old = disk /\ ideal = disk

(* The sender goes on when all it sent is read: what the receiver does with *)
(* a text does not depend on when it arrives.                              *)
Stopped == {"over", "exited", "crashed"}
Ready == wire = << >> /\ loop \notin Stopped

Say(m) ==
  /\ wire' = Wire(m) /\ sent' = Append(sent, m) /\ old' = disk
  /\ ideal' = Asked(ideal, m)
  /\ UNCHANGED << phase, loop, buf, path, flag, flags, disk >>

(* The walk comes to a folder before what is in it, and to a node once.    *)
Reached(p) == \A q \in Paths : q # p /\ ~ IsStrictPrefix(p, q)

SendUpdate(p, t) ==
  /\ phase = "update" /\ p \in Known \ Folders /\ Reached(p)
  /\ Cardinality(Files) < MaxTexts
  /\ Say(Message("update", p, t))

SendDelete(p) ==
  /\ phase = "delete" /\ p \in Known /\ Reached(p)
  /\ Say(Message("delete", p, << >>))

(* What was in a folder that is gone is gone as well, and is sent too.     *)
AllGone == \A d \in Sent("delete"), p \in Known :
             IsPrefix(d, p) => p \in Sent("delete")

(* A node is made in a folder that was there or has just been made.        *)
Parent(p) == Len(p) > 1 =>
  Front(p) \in (Known \ Sent("delete")) \cup Sent("folder")

SendFile(p, t) ==
  /\ phase = "create" /\ p \in New \ Folders /\ Reached(p) /\ Parent(p)
  /\ Cardinality(Files) < MaxTexts
  /\ Say(Message("file", p, t))

SendFolder(p) ==
  /\ phase = "create" /\ p \in New \cap Folders /\ Reached(p) /\ Parent(p)
  /\ Say(Message("folder", p, << >>))

SendTokens(from, to, tokens) ==
  /\ phase = from /\ phase' = to /\ wire' = tokens
  /\ UNCHANGED << sent, old, ideal, loop, buf, path, flag, flags, disk >>

EndUpdates ==
  SendTokens("update", "delete", Token("SYNC_UPDATE_DONE") \o Token("SYNC_DELETE"))
EndDeletes ==
  /\ AllGone
  /\ SendTokens("delete", "create", Token("SYNC_DELETE_DONE") \o Token("SYNC_CREATE"))
EndCreates == SendTokens("create", "done", Token("SYNC_CREATE_DONE"))
EndTurn == SendTokens("done", "sent", Token("DONE_CONTROL"))

-----------------------------------------------------------------------------
(* The receiver, in the loop l, reads the next symbol.                     *)
Reads(l) == loop = l /\ wire # << >> /\ wire' = Tail(wire)
Symbol == Head(wire)
IsText == Symbol \notin {Open, Close}
AppendText == buf' = IF Symbol = Nul THEN buf ELSE Append(buf, Symbol)

(* syncCheckReceive: a text that is no token stays in the buffer.          *)
Entered(b) ==
  CASE b = << "SYNC_FILE" >> -> "update"
    [] b = << "SYNC_DELETE" >> -> "delete"
    [] b = << "SYNC_CREATE" >> -> "create"
    [] b = << "DONE_CONTROL" >> -> "over"
    [] OTHER -> "top"

Ends == {<< "SYNC_UPDATE_DONE" >>, << "SYNC_DELETE_DONE" >>,
         << "SYNC_CREATE_DONE" >>}

TopOpen ==
  /\ Reads("top") /\ Symbol = Open
  /\ UNCHANGED << sender, loop, buf, path, flag, flags, disk >>

TopText ==
  /\ Reads("top") /\ IsText
  /\ buf' = Append(buf, Symbol)
  /\ UNCHANGED << sender, loop, path, flag, flags, disk >>

(* Mutant: the token after the deletions is not known.                     *)
TopCloseKeeping ==
  /\ Reads("top") /\ Symbol = Close
  /\ loop' = Entered(CString(buf))
  /\ buf' = IF loop' # "top" THEN << >> ELSE buf
  /\ UNCHANGED << sender, path, flag, flags, disk >>

TopClose ==
  /\ Reads("top") /\ Symbol = Close
  /\ loop' = Entered(CString(buf))
  /\ buf' = IF loop' # "top" \/ CString(buf) \in Ends THEN << >> ELSE buf
  /\ UNCHANGED << sender, path, flag, flags, disk >>

(* syncReceiveFile and deleteReceiveFile: the path of a file to update or  *)
(* of a node to delete.                                                    *)
PathOpen ==
  /\ Reads("update") \/ Reads("delete")
  /\ Symbol = Open
  /\ UNCHANGED << sender, loop, buf, path, flag, flags, disk >>

PathText ==
  /\ Reads("update") \/ Reads("delete")
  /\ IsText /\ AppendText
  /\ UNCHANGED << sender, loop, path, flag, flags, disk >>

(* The file to update is emptied; without one the receiver exits.          *)
UpdatePath ==
  /\ Reads("update") /\ Symbol = Close
  /\ IF buf = << "SYNC_UPDATE_DONE" >>
     THEN loop' = "top" /\ UNCHANGED << path, disk >>
     ELSE IF IsFile(disk, buf)
     THEN /\ loop' = "content" /\ path' = buf
          /\ disk' = Put(disk, buf, File(<< >>))
     ELSE loop' = "exited" /\ UNCHANGED << path, disk >>
  /\ buf' = << >> /\ flag' = 0
  /\ UNCHANGED << sender, flags >>

(* readSocketWriteFile: what is between two braces is written at the       *)
(* second. An opening brace is written at the next one, if it came after a *)
(* text; a closing brace never is.                                         *)
Write(t) == disk' = Put(disk, path, File(disk[path].text \o t))

(* Mutant: the brace is remembered without looking at the buffer.          *)
ContentOpenAlways ==
  /\ Reads("content") /\ Symbol = Open
  /\ Write((IF flag = 1 THEN << Open >> ELSE << >>) \o CString(buf))
  /\ flag' = 1 /\ buf' = << >>
  /\ UNCHANGED << sender, loop, path, flags >>

ContentOpen ==
  /\ Reads("content") /\ Symbol = Open
  /\ Write((IF flag = 1 THEN << Open >> ELSE << >>) \o CString(buf))
  /\ flag' = IF buf = << >> THEN 0 ELSE 1
  /\ buf' = << >>
  /\ UNCHANGED << sender, loop, path, flags >>

ContentText ==
  /\ Reads("content") /\ IsText
  /\ buf' = Append(buf, Symbol)
  /\ UNCHANGED << sender, loop, path, flag, flags, disk >>

ContentClose ==
  /\ Reads("content") /\ Symbol = Close
  /\ IF CString(buf) = << "SYNC_DONE" >>
     THEN loop' = "top" /\ UNCHANGED disk
     ELSE loop' = loop /\ Write(CString(buf))
  /\ buf' = << >>
  /\ UNCHANGED << sender, path, flag, flags >>

(* Mutant: the buffer is not cleared after a deletion.                     *)
DeletePathKept ==
  /\ Reads("delete") /\ Symbol = Close
  /\ IF buf = << "SYNC_DELETE_DONE" >>
     THEN loop' = "top" /\ buf' = << >> /\ UNCHANGED disk
     ELSE loop' = loop /\ disk' = Without(disk, buf) /\ UNCHANGED buf
  /\ UNCHANGED << sender, path, flag, flags >>

(* deleteReceiveFile: a folder goes with all that is in it, a path that is *)
(* not there is passed over.                                               *)
DeletePath ==
  /\ Reads("delete") /\ Symbol = Close
  /\ IF buf = << "SYNC_DELETE_DONE" >>
     THEN loop' = "top" /\ UNCHANGED disk
     ELSE loop' = loop /\ disk' = Without(disk, buf)
  /\ buf' = << >>
  /\ UNCHANGED << sender, path, flag, flags >>

(* createReceiveFile: the brace after a content makes the file, unless the *)
(* content or the path is the token of an empty file.                      *)
NoFile(b) == b = << "EMPTY_FILE" >>

(* Mutant: a brace empties the buffer, whatever contentCount is.           *)
CreateOpenClearing ==
  /\ Reads("create") /\ Symbol = Open
  /\ IF count = 1
     THEN /\ disk' = IF NoFile(buf) \/ NoFile(path) THEN disk
                     ELSE WriteFile(disk, path, buf)
          /\ count' = 0
     ELSE UNCHANGED << disk, count >>
  /\ buf' = << >>
  /\ UNCHANGED << sender, loop, path, flag, fileFlag, folderFlag >>

(* Mutant: contentCount is not reset when the file is made.                *)
CreateOpenCounting ==
  /\ Reads("create") /\ Symbol = Open
  /\ IF count = 1
     THEN /\ disk' = IF NoFile(buf) \/ NoFile(path) THEN disk
                     ELSE WriteFile(disk, path, buf)
          /\ buf' = << >>
     ELSE UNCHANGED << disk, buf >>
  /\ UNCHANGED << sender, loop, path, flag, flags >>

CreateOpen ==
  /\ Reads("create") /\ Symbol = Open
  /\ IF count = 1
     THEN /\ disk' = IF NoFile(buf) \/ NoFile(path) THEN disk
                     ELSE WriteFile(disk, path, buf)
          /\ count' = 0 /\ buf' = << >>
     ELSE UNCHANGED << disk, count, buf >>
  /\ UNCHANGED << sender, loop, path, flag, fileFlag, folderFlag >>

CreateText ==
  /\ Reads("create") /\ IsText /\ AppendText
  /\ UNCHANGED << sender, loop, path, flag, flags, disk >>

CloseFolder(b) ==
  \/ /\ b = << "SYNC_FOLDER" >> /\ folderFlag' = 1 /\ UNCHANGED disk
  \/ /\ b = << "SYNC_DONE" >> /\ folderFlag = 1
     /\ folderFlag' = 0 /\ UNCHANGED disk
  \/ /\ b \notin {<< "SYNC_FOLDER" >>, << "SYNC_DONE" >>} /\ folderFlag = 1
     /\ disk' = MakeFolder(disk, b) /\ UNCHANGED folderFlag

(* strcpy into pathBuffer. What is longer runs over the heap behind it,    *)
(* where the buffer itself may be, whose first byte is then set to 0: the  *)
(* path may be cut there.                                                  *)
Copies(b) == {b} \cup {SubSeq(b, 1, n) : n \in PathSize .. Len(b)}

(* Mutant: contentCount counts on.                                         *)
CloseFileCounting(b) ==
  \/ /\ b = << "SYNC_FILE" >> /\ fileFlag' = 1 /\ UNCHANGED << count, path >>
  \/ /\ b = << "SYNC_DONE" >> /\ fileFlag = 1
     /\ fileFlag' = 0 /\ UNCHANGED << count, path >>
  \/ /\ b \notin {<< "SYNC_FILE" >>, << "SYNC_DONE" >>} /\ fileFlag = 1
     /\ path' \in IF count = 0 THEN Copies(b) ELSE {path}
     /\ count' = count + 1 /\ UNCHANGED fileFlag

CloseFile(b) ==
  \/ /\ b = << "SYNC_FILE" >> /\ fileFlag' = 1 /\ UNCHANGED << count, path >>
  \/ /\ b = << "SYNC_DONE" >> /\ fileFlag = 1
     /\ fileFlag' = 0 /\ UNCHANGED << count, path >>
  \/ /\ b \notin {<< "SYNC_FILE" >>, << "SYNC_DONE" >>} /\ fileFlag = 1
     /\ IF count = 0 THEN path' \in Copies(b) /\ count' = 1
                     ELSE UNCHANGED << path, count >>
     /\ UNCHANGED fileFlag

AboutFolder(b) == b = << "SYNC_FOLDER" >> \/ folderFlag = 1
AboutFile(b) == b = << "SYNC_FILE" >> \/ fileFlag = 1

CreateClose ==
  /\ Reads("create") /\ Symbol = Close
  /\ \/ /\ AboutFolder(buf) /\ CloseFolder(buf)
        /\ UNCHANGED << loop, path, fileFlag, count >>
     \/ /\ ~ AboutFolder(buf) /\ AboutFile(buf) /\ CloseFile(buf)
        /\ UNCHANGED << loop, folderFlag, disk >>
     \/ /\ ~ AboutFolder(buf) /\ ~ AboutFile(buf)
        /\ IF buf = << "SYNC_CREATE_DONE" >> THEN loop' = "top" /\ count' = 0
                                             ELSE UNCHANGED << loop, count >>
        /\ UNCHANGED << path, fileFlag, folderFlag, disk >>
  /\ buf' = << >>
  /\ UNCHANGED << sender, flag >>

(* Or the receiver ends on the heap it has overwritten, and what is on its *)
(* way is lost.                                                            *)
CreateCrash ==
  /\ loop = "create" /\ wire # << >> /\ Symbol = Close
  /\ folderFlag = 0 /\ fileFlag = 1 /\ count = 0
  /\ buf \notin {<< "SYNC_FOLDER" >>, << "SYNC_FILE" >>, << "SYNC_DONE" >>}
  /\ Len(buf) > PathSize
  /\ loop' = "crashed" /\ wire' = << >>
  /\ UNCHANGED << sender, buf, path, flag, flags, disk >>

Send ==
  /\ Ready
  /\ \/ \E p \in Known, t \in Texts : SendUpdate(p, t)
     \/ \E p \in Known : SendDelete(p)
     \/ \E p \in New, t \in Texts : SendFile(p, t)
     \/ \E p \in New : SendFolder(p)
     \/ EndUpdates \/ EndDeletes \/ EndCreates \/ EndTurn

Receive ==
  \/ TopOpen \/ TopText \/ TopClose
  \/ PathOpen \/ PathText \/ UpdatePath \/ DeletePath
  \/ ContentOpen \/ ContentText \/ ContentClose
  \/ CreateOpen \/ CreateText \/ CreateClose \/ CreateCrash

Next == Send \/ Receive

(* Both hosts go on while there is something to send or to read.           *)
Spec == Init /\ [][Next]_vars
FairSpec == Spec /\ WF_vars(Next)
-----------------------------------------------------------------------------
(* Correctness.                                                            *)

(* Each variable has its type.                                             *)
Loops == {"top", "update", "content", "delete", "create"} \cup Stopped

TypeOK ==
  /\ phase \in {"update", "delete", "create", "done", "sent"}
  /\ sent \in Seq([kind : Kinds, path : Known \cup New,
                   text : Texts \cup {<< >>}])
  /\ wire \in Strings /\ loop \in Loops /\ buf \in Strings /\ path \in Strings
  /\ flag \in 0 .. 1 /\ fileFlag \in 0 .. 1 /\ folderFlag \in 0 .. 1
  /\ count \in 0 .. 1
  /\ Typed(disk) /\ Typed(old)

(* Between two messages everything sent is read. The receiver is at rest   *)
(* there when it is in the loop of the sender's phase with nothing begun.  *)
Between == wire = << >> /\ loop # "exited"
LoopOf == [update |-> "top", delete |-> "delete", create |-> "create",
           done |-> "top", sent |-> "over"]
AtRest == /\ loop = LoopOf[phase] /\ buf = << >>
          /\ fileFlag = 0 /\ folderFlag = 0 /\ count = 0

(* What a content is made of.                                              *)
Has(t, s) == Contains(t, s)
Full(t) == Len(t) % Block = 0

(* Before the closing brace j of t, the part from i on is between braces.  *)
IsPart(t, i, j) ==
  /\ i <= j /\ t[j] = Close
  /\ i = 1 \/ t[i - 1] \in {Open, Close}
  /\ \A k \in i .. j - 1 : t[k] \notin {Open, Close}

(* A part of an updated file reads as the token of its end.                *)
EndsEarly(t) ==
  \E i, j \in DOMAIN t :
    IsPart(t, i, j) /\ CString(SubSeq(t, i, j - 1)) = << "SYNC_DONE" >>

(* A new file has a token, on its own, as the last text before a brace.    *)
Misread(t) ==
  \E i, j \in DOMAIN t :
    /\ t[i] \in {"SYNC_FILE", "SYNC_FOLDER", "SYNC_DONE"} /\ t[j] = Close
    /\ i < j /\ \A k \in i + 1 .. j - 1 : t[k] \in {Open, Nul}
    /\ i = 1 \/ t[i - 1] \in {Open, Close, Nul}

(* After each opening brace of a new file there is a closing one, or       *)
(* nothing.                                                                *)
Settled(t) ==
  \A i \in DOMAIN t : t[i] = Open =>
    \/ \E j \in i .. Len(t) : t[j] = Close
    \/ \A j \in i .. Len(t) : t[j] \in {Open, Nul}

(* What is between an opening brace of a new file and the next closing one *)
(* fits in pathBuffer, the token after a full block included.              *)
Fits(t) ==
  \A i \in DOMAIN t : t[i] = Open =>
    /\ \A j \in i .. Len(t) :
         (t[j] = Close /\ \A k \in i .. j - 1 : t[k] # Close) => j - i - 1 <= PathSize
    /\ (Full(t) /\ \A k \in i .. Len(t) : t[k] # Close) => Len(t) - i + 1 <= PathSize

(* The updated files that arrive as they are: neither empty nor of full    *)
(* blocks, without a closing brace or a 0, with an opening brace only      *)
(* after another character.                                                *)
PlainUpdate(t) ==
  /\ ~ Full(t) /\ ~ Has(t, Close) /\ ~ Has(t, Nul)
  /\ \A i \in DOMAIN t : t[i] = Open => i > 1 /\ t[i - 1] # Open

(* The created files that do: no brace and no 0, and not the token itself. *)
PlainFile(t) ==
  ~ Has(t, Open) /\ ~ Has(t, Close) /\ ~ Has(t, Nul) /\ t # << "EMPTY_FILE" >>

(* After the others the receiver may have lost its place. An updated file  *)
(* ends early where it holds the token of its end. In a created file an    *)
(* opening brace ends the content and what is left becomes part of the     *)
(* next token, unless a closing brace, the token after a full block or     *)
(* nothing follows; a token between braces is taken for one; and what is   *)
(* between braces is taken for a path, which may be too long for it.       *)
KeepsPlace(m) ==
  CASE m.kind = "update" -> ~ EndsEarly(m.text)
    [] m.kind = "file" -> /\ ~ Misread(m.text) /\ Fits(m.text)
                          /\ Full(m.text) \/ Settled(m.text)
    [] OTHER -> TRUE

(* A text with other tokens in it may lead the receiver anywhere, even     *)
(* back to its place.                                                      *)
Wordless(m) ==
  CASE m.kind = "update" ->
         \A n \in {Nul} \cup Tokens : n # "SYNC_DONE" => ~ Has(m.text, n)
    [] m.kind = "file" -> \A n \in Tokens : ~ Has(m.text, n)
    [] OTHER -> TRUE

Plain(m) ==
  CASE m.kind = "update" -> PlainUpdate(m.text)
    [] m.kind = "file" -> PlainFile(m.text)
    [] OTHER -> TRUE

Earlier == IF sent = << >> THEN << >> ELSE Front(sent)
All(ms, P(_)) == \A i \in DOMAIN ms : P(ms[i])

(* While the contents are plain, the receiver is at rest between any two   *)
(* messages and its directory is what the messages ask for: updates,       *)
(* deletions of whole folders and creations are applied one by one, and    *)
(* none is applied twice or to another path.                               *)
InStep ==
  (Between /\ All(sent, Plain)) => AtRest /\ disk = ideal

(* The file of a message holds the text that was sent.                     *)
Whole(m) == IsFile(disk, m.path) /\ disk[m.path].text = m.text
Follows(k) == Between /\ sent # << >> /\ Last(sent).kind = k /\ All(Earlier, KeepsPlace)

(* An update leaves the text that was sent if and only if it is plain: the *)
(* empty files, those of a whole number of 2048 bytes, and those with      *)
(* certain braces arrive changed.                                          *)
UpdateWhole ==
  Follows("update") => (Whole(Last(sent)) <=> PlainUpdate(Last(sent).text))

(* A new file has the text that was sent if it is plain, even if it is     *)
(* empty or of full blocks, and only if it is, unless it has tokens in it: *)
(* then it may not be made at all, and an older one stay. Parts of it may  *)
(* be paths of the tree, and be written over, the file itself included.    *)
FileWhole ==
  (Follows("file") /\ CanWrite(old, Last(sent).path)) =>
    LET m == Last(sent) IN
    (PlainFile(m.text) \/ Wordless(m)) => (Whole(m) <=> PlainFile(m.text))

(* The receiver loses its place only after a message with one of the texts *)
(* above, so a brace in one file costs the files sent after it only in     *)
(* these cases. In them it does, unless there are other tokens as well or  *)
(* what is too long for pathBuffer happens to do no harm.                  *)
RestsAfter ==
  (Between /\ sent # << >> /\ All(Earlier, KeepsPlace)) =>
    LET m == Last(sent) IN
    (KeepsPlace(m) \/ (Wordless(m) /\ Fits(m.text))) => (AtRest <=> KeepsPlace(m))

(* A turn whose messages keep the receiver's place ends: its DONE_CONTROL  *)
(* is understood, or the receiver exits since it lacks an updated file.    *)
TurnEnds ==
  <> \/ loop \in {"over", "exited"}
     \/ ~ All(sent, KeepsPlace)
=============================================================================
