---------------------------- MODULE MCListUpload ----------------------------
(* Two uploads of up to two users: one PUT of at most one, or two chunks of one. *)
EXTENDS ListUpload

Users == 1..2
=============================================================================
