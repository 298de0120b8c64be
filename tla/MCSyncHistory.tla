---------------------------- MODULE MCSyncHistory ----------------------------
(* Instances of SyncHistory for TLC. *)
EXTENDS SyncHistory

CONSTANTS w1, l1

EveryFault == FaultKinds
EveryChange == ChangeKinds
=============================================================================
