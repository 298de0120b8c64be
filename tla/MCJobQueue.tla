----------------------------- MODULE MCJobQueue -----------------------------
(* Instances of JobQueue for TLC: two workers, in one replica or in two. *)
EXTENDS JobQueue

CONSTANTS w1, w2, r1, r2, l1

(* Every job is a config_sync of the same link. *)
OneLink == [j \in 1..MaxJobs |-> l1]

OneReplica == [w \in {w1, w2} |-> r1]
TwoReplicas == [w \in {w1, w2} |-> IF w = w1 THEN r1 ELSE r2]
=============================================================================
