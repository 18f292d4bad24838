------------------------------ MODULE SyncMerge ------------------------------
(***************************************************************************)
(* The rounds of SyncRound with history variables: what both directories   *)
(* held at the end of the last round, and at the start of the running one. *)
(* With them the rounds are shown to implement DirectorySync.              *)
(***************************************************************************)
EXTENDS SyncRound

VARIABLES
  agreed,     (* The directory both hosts had when the last round ended.     *)
  before,     (* before[h]: h's directory at the end of the last nap.        *)
  touched     (* The paths whose mtime at the server had changed then.       *)

mvars == << vars, agreed, before, touched >>

MInit ==
  /\ Init
  /\ agreed = disk["server"]
  /\ before = disk
  /\ touched = stale["server"]

(* A round starts when the server wakes and ends when it waits again.      *)
Remember ==
  /\ agreed' = IF pc'["server"] = "wait" /\ ~Down THEN disk'["server"]
                                                  ELSE agreed
  /\ before' = IF pc'["server"] = "sleep" THEN disk' ELSE before
  /\ touched' = IF pc'["server"] = "sleep" THEN stale'["server"] ELSE touched

MNext == Next /\ Remember

MSpec == MInit /\ [][MNext]_mvars

Phase ==
  IF Down THEN "broken"
  ELSE IF pc["server"] \in {"wait", "sleep"} THEN "open" ELSE "merging"

Abstract == INSTANCE DirectorySync WITH
  dir <- IF Phase = "open" THEN disk ELSE before,
  base <- agreed,
  dirty <- IF Phase = "open" THEN stale["server"] ELSE touched,
  phase <- Phase

(* A whole round is one merge: a deletion on either side wins over what    *)
(* happened at or below its path, then the server's changes win, then the  *)
(* client's; nothing else changes, no other edit is lost, and the client   *)
(* ends in the one conflict syncReceiveFile exits on. The three phases of  *)
(* syncCheckServer, the client's answer and the rebuild in handleCase have *)
(* to fit together for this.                                               *)
ImplementsMerge == Abstract!DSpec
=============================================================================
