---------------------------- MODULE MCSyncRound ----------------------------
(* Instances of SyncRound for TLC.                                         *)
EXTENDS SyncRound, MCDirectories
=============================================================================
