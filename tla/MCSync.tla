------------------------------- MODULE MCSync -------------------------------
(* Instances of Sync for TLC. *)
EXTENDS Sync

CONSTANTS w1, w2, l1
=============================================================================
