---------------------------- MODULE MCRoleConfig ----------------------------
(* Instances of RoleConfig for TLC. *)
EXTENDS RoleConfig, TLC

CONSTANTS t1, t2, unset, x, y

SwapTabs == Permutations({t1, t2})
=============================================================================
