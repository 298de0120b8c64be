---------------------------- MODULE MCSyncMirror ----------------------------
(* An instance of SyncMirror for TLC. *)
EXTENDS SyncMirror

CONSTANTS w1, w2, l1
=============================================================================
