------------------------------ MODULE JobLease ------------------------------
(***************************************************************************)
(* What migrations/003_jobs.sql promises of the jobs table: "N replicas    *)
(* drain in parallel without double-processing" and "Lifecycle: pending -> *)
(* in_progress -> (completed | pending-with-backoff | dead)".              *)
(*                                                                         *)
(* A job in progress is leased to one worker, or to nobody once its worker *)
(* is gone.  Only the worker that holds the lease decides what becomes of  *)
(* the job, and only a job nobody holds is taken away.  Of a job whose     *)
(* lease runs out under its holder nothing more is promised.               *)
(***************************************************************************)
CONSTANTS Jobs, Workers, NoWorker

VARIABLES
    status,  \* of each job, "none" before it is inserted and after it is deleted,
             \* "lapsed" from when its lease ran out
    owner    \* the worker a job is leased to, or NoWorker

leaseVars == <<status, owner>>

Init ==
    /\ status = [j \in Jobs |-> "none"]
    /\ owner = [j \in Jobs |-> NoWorker]

Insert(j) ==
    /\ status[j] = "none" /\ owner[j] = NoWorker
    /\ status' = [status EXCEPT ![j] = "pending"]
    /\ UNCHANGED owner

(* A claim leases a set of jobs at once; when its answer is lost nobody holds
   them. *)
Take(S, w) ==
    /\ \A j \in S : status[j] = "pending"
    /\ status' = [j \in Jobs |-> IF j \in S THEN "in_progress" ELSE status[j]]
    /\ owner' = [j \in Jobs |-> IF j \in S THEN w ELSE owner[j]]

(* The holder gives the job back with a verdict, or to be tried again. *)
Finish(j, w, verdict) ==
    /\ owner[j] = w /\ status[j] = "in_progress"
    /\ status' = [status EXCEPT ![j] = verdict]
    /\ owner' = [owner EXCEPT ![j] = NoWorker]

(* The holders of some jobs crash, or lose the write that would settle them. *)
Abandon(S) ==
    /\ owner' = [j \in Jobs |-> IF j \in S THEN NoWorker ELSE owner[j]]
    /\ UNCHANGED status

Recover(S) ==
    /\ \A j \in S : status[j] = "in_progress" /\ owner[j] = NoWorker
    /\ status' = [j \in Jobs |-> IF j \in S THEN "pending" ELSE status[j]]
    /\ UNCHANGED owner

(* The lease runs out while its holder is still at work, or has yet to start. *)
Lapse(j) ==
    /\ owner[j] # NoWorker /\ status[j] = "in_progress"
    /\ status' = [status EXCEPT ![j] = "lapsed"]
    /\ owner' = [owner EXCEPT ![j] = NoWorker]

Delete(S) ==
    /\ \A j \in S : status[j] \in {"completed", "dead"}
    /\ status' = [j \in Jobs |-> IF j \in S THEN "none" ELSE status[j]]
    /\ UNCHANGED owner

Next ==
    \/ \E j \in Jobs : Insert(j) \/ Lapse(j)
    \/ \E S \in SUBSET Jobs :
          \/ \E w \in Workers \union {NoWorker} : Take(S, w)
          \/ Abandon(S) \/ Recover(S) \/ Delete(S)
    \/ \E j \in Jobs, w \in Workers :
          \E verdict \in {"completed", "dead", "pending"} : Finish(j, w, verdict)

Spec == Init /\ [][Next]_leaseVars
=============================================================================
