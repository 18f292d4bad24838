---------------------------- MODULE MCSyncMerge ----------------------------
(* Instances of SyncMerge for TLC.                                         *)
EXTENDS SyncMerge, MCDirectories
=============================================================================
