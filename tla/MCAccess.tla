------------------------------ MODULE MCAccess ------------------------------
(* One person, who may be a manager, a member or a developer from outside, and two
   links.  A JWT lives less than a tick, plus the one tick of the skew; a session and
   a cookie live one tick: the clock passes all of them. *)
EXTENDS Access, TLC

Symmetric == Permutations(Links)
=============================================================================
