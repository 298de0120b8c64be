------------------------------ MODULE JobQueue ------------------------------
(***************************************************************************)
(* The durable job queue: the `jobs` table (migrations/003_jobs.sql), the  *)
(* SQL statements of services/jobs.rs that change it, the worker loop of   *)
(* tasks/job_worker.rs, and the shutdown signal of tasks/shutdown.rs.      *)
(*                                                                         *)
(* Each SQL statement is one atomic step: it is one autocommit statement   *)
(* in the code.  Wall-clock time is abstracted to the two comparisons the  *)
(* statements make: `due` is next_run_at <= now() and `stale` is           *)
(* locked_at < now() - STUCK_LOCK_SECS.  What a job does is abstracted to  *)
(* its verdict: Ok, JobError::Terminal or JobError::Retry.                 *)
(***************************************************************************)
EXTENDS Integers, FiniteSets

CONSTANTS
    Workers,        \* the worker tasks of every replica
    Replicas,       \* the processes
    Home,           \* the replica a worker task runs in
    Payload,        \* what the row with each id will carry: the link of a
                    \* config_sync, or NoLink for a player_sync
    NoLink,
    NoWorker,       \* the owner of a job no worker holds
    BatchSize,      \* BATCH_SIZE
    MaxAttempts,    \* jobs.max_attempts
    MaxJobs,        \* bound: rows ever inserted
    MaxFaults,      \* bound: crashes, lost writes, locks expiring while held
    MaxTriggers     \* bound: shutdown signals

ASSUME JobQueueAssumption ==
    /\ Home \in [Workers -> Replicas]
    /\ NoWorker \notin Workers
    /\ BatchSize \in Nat \ {0}
    /\ MaxAttempts \in Nat \ {0}
    /\ MaxJobs \in Nat
    /\ MaxFaults \in Nat
    /\ MaxTriggers \in Nat

VARIABLES
    \* the jobs table, one variable for each column
    status,     \* "none": not inserted yet, or deleted
    attempts,
    due,        \* next_run_at has passed
    stale,      \* locked_at is more than STUCK_LOCK_SECS ago
    nextId,     \* the BIGSERIAL
    \* the worker tasks
    pc,         \* where each worker is in job_worker::run
    claim,      \* what is left of `claimed`: the attempts RETURNING gave the
                \* worker for a job, 0 for a job that is not in its batch
    cur,        \* the job being dispatched, or NoJob
    signal,     \* an unread message in the worker's ShutdownGuard
    mode,       \* "up", "draining" (signal sent) or "down", for each replica
    \* history
    lapsed,     \* jobs whose lock has expired under a worker that had them
    unjudged,   \* times each job went back to pending without a verdict
    faults,     \* faults so far
    triggers    \* shutdown signals so far

table == <<status, attempts, due, stale, nextId, unjudged>>
procs == <<pc, claim, cur, signal>>
vars == <<status, attempts, due, stale, nextId, pc, claim, cur, signal,
          mode, lapsed, unjudged, faults, triggers>>

JobIds == 1..MaxJobs
NoJob == 0
Status == {"none", "pending", "in_progress", "completed", "dead"}

(* Worker w was handed job j by claim_batch and has not yet written back. *)
Holds(w, j) == claim[w][j] > 0
Held(j) == \E w \in Workers : Holds(w, j)
Terminal(j) == status[j] \in {"completed", "dead"}

Init ==
    /\ status = [j \in JobIds |-> "none"]
    /\ attempts = [j \in JobIds |-> 0]
    /\ due = [j \in JobIds |-> FALSE]
    /\ stale = [j \in JobIds |-> FALSE]
    /\ nextId = 1
    /\ pc = [w \in Workers |-> "top"]
    /\ claim = [w \in Workers |-> [j \in JobIds |-> 0]]
    /\ cur = [w \in Workers |-> NoJob]
    /\ signal = [w \in Workers |-> FALSE]
    /\ mode = [r \in Replicas |-> "up"]
    /\ lapsed = {}
    /\ unjudged = [j \in JobIds |-> 0]
    /\ faults = 0
    /\ triggers = 0

(* The columns every statement on the table sets, for the rows S it touches:
   all of them clear locked_at or, in claim_batch, set it to now(). *)
SetRows(S, newStatus, newDue) ==
    /\ status' = [j \in JobIds |-> IF j \in S THEN newStatus ELSE status[j]]
    /\ due' = [j \in JobIds |-> IF j \in S THEN newDue ELSE due[j]]
    /\ stale' = [j \in JobIds |-> IF j \in S THEN FALSE ELSE stale[j]]

-----------------------------------------------------------------------------
(* Producers: request handlers and the tick.                               *)

Insert(now) ==
    /\ nextId <= MaxJobs
    /\ SetRows({nextId}, "pending", now)
    /\ nextId' = nextId + 1
    /\ UNCHANGED <<attempts, procs, mode, unjudged, faults, lapsed, triggers>>

(* A config_sync is debounced: its row only becomes due five seconds later. *)
Enqueue == Insert(Payload[nextId] = NoLink)

(* The tick's statement: nothing is inserted while one is pending. *)
EnqueueConfigSyncUnique ==
    /\ nextId <= MaxJobs /\ Payload[nextId] # NoLink
    /\ \A j \in JobIds : ~(status[j] = "pending" /\ Payload[j] = Payload[nextId])
    /\ Insert(TRUE)

(* The tick deletes the terminal rows that are old enough. *)
GcOld ==
    \E old \in SUBSET {j \in JobIds : Terminal(j)} :
        /\ old # {}
        /\ SetRows(old, "none", FALSE)
        /\ attempts' = [j \in JobIds |-> IF j \in old THEN 0 ELSE attempts[j]]
        /\ UNCHANGED <<nextId, procs, mode, unjudged, faults, lapsed, triggers>>

-----------------------------------------------------------------------------
(* Time.                                                                   *)

BecomeDue(j) ==
    /\ status[j] = "pending" /\ ~due[j]
    /\ due' = [due EXCEPT ![j] = TRUE]
    /\ UNCHANGED <<status, attempts, stale, nextId, procs, mode, unjudged,
                   faults, lapsed, triggers>>

LockExpires(j) ==
    /\ status[j] = "in_progress" /\ ~stale[j]
    /\ stale' = [stale EXCEPT ![j] = TRUE]
    /\ UNCHANGED <<status, attempts, due, nextId, procs, mode, unjudged, triggers>>

(* STUCK_LOCK_SECS pass on a job whose worker is gone or lost its write... *)
OrphanLockExpires(j) == ~Held(j) /\ LockExpires(j) /\ UNCHANGED <<lapsed, faults>>

(* ... or on one that is still queued in a batch, or still running: a whole
   batch shares one locked_at and runs one job after the other, and one call
   alone may take as long as the lock lasts (COMMIT_TIMEOUT). *)
HeldLockExpires(j) ==
    /\ Held(j)
    /\ lapsed' = lapsed \union {j}
    /\ faults < MaxFaults /\ faults' = faults + 1
    /\ LockExpires(j)

-----------------------------------------------------------------------------
(* The worker loop, job_worker::run.                                       *)

Goto(w, label) == pc' = [pc EXCEPT ![w] = label]

(* is_triggered() at the head of the loop: try_recv takes the message out. *)
LoopHead(w) ==
    /\ pc[w] = "top"
    /\ Goto(w, IF signal[w] THEN "stopped" ELSE "reap")
    /\ signal' = [signal EXCEPT ![w] = FALSE]
    /\ UNCHANGED <<table, claim, cur, mode, faults, lapsed, triggers>>

(* Mistake: the age of the lock is not looked at. *)
StuckAnyLock == {j \in JobIds : status[j] = "in_progress"}

Stuck == {j \in JobIds : status[j] = "in_progress" /\ stale[j]}

(* Mistake: a worker reaps only what it locked itself. *)
ReapOwn(w) ==
    LET own == {j \in Stuck : Holds(w, j)}
    IN  /\ pc[w] = "reap"
        /\ Goto(w, "claim")
        /\ SetRows(own, "pending", TRUE)
        /\ UNCHANGED <<attempts, nextId, unjudged, claim, cur, signal, mode, faults,
                       lapsed, triggers>>

(* Every `reap_every`: any replica's worker reaps for all of them. *)
ReapStuck(w) ==
    /\ pc[w] = "reap"
    /\ Goto(w, "claim")
    /\ SetRows(Stuck, "pending", TRUE)
    /\ unjudged' = [j \in JobIds |-> IF j \in Stuck THEN unjudged[j] + 1 ELSE unjudged[j]]
    /\ UNCHANGED <<attempts, nextId, claim, cur, signal, mode, faults,
                   lapsed, triggers>>

(* The timer has not elapsed yet, or the statement failed. *)
SkipReap(w) ==
    /\ pc[w] = "reap"
    /\ Goto(w, "claim")
    /\ UNCHANGED <<table, claim, cur, signal, mode, faults, lapsed, triggers>>

(* Mistake: claim_batch takes what another worker has already taken. *)
DueOrTaken == {j \in JobIds : status[j] \in {"pending", "in_progress"} /\ due[j]}

Due == {j \in JobIds : status[j] = "pending" /\ due[j]}

(* ORDER BY id LIMIT batch_size *)
Batch == {j \in Due : Cardinality({k \in Due : k < j}) < BatchSize}

MarkClaimed ==
    /\ SetRows(Batch, "in_progress", TRUE)
    /\ attempts' = [j \in JobIds |-> IF j \in Batch THEN attempts[j] + 1 ELSE attempts[j]]

ClaimBatch(w) ==
    /\ pc[w] = "claim" /\ Due # {}
    /\ Goto(w, "batch")
    /\ MarkClaimed
    /\ claim' = [claim EXCEPT ![w] =
          [j \in JobIds |-> IF j \in Batch THEN attempts[j] + 1 ELSE 0]]
    /\ UNCHANGED <<nextId, unjudged, cur, signal, mode, faults, lapsed, triggers>>

ClaimNothing(w) ==
    /\ pc[w] = "claim" /\ Due = {}
    /\ Goto(w, "idle")
    /\ UNCHANGED <<table, claim, cur, signal, mode, faults, lapsed, triggers>>

(* The statement fails; when only its answer is lost, the rows are locked for
   a worker that does not know of them. *)
ClaimFails(w) ==
    /\ pc[w] = "claim"
    /\ faults < MaxFaults /\ faults' = faults + 1
    /\ Goto(w, "idle")
    /\ MarkClaimed \/ UNCHANGED <<status, attempts, due, stale>>
    /\ UNCHANGED <<nextId, unjudged, claim, cur, signal, mode, lapsed, triggers>>

(* A notification or the poll timer ends the wait. *)
Wake(w) ==
    /\ pc[w] = "idle"
    /\ Goto(w, "top")
    /\ UNCHANGED <<table, claim, cur, signal, mode, faults, lapsed, triggers>>

(* shutdown.wait() ends it instead. *)
StopIdle(w) ==
    /\ pc[w] = "idle" /\ signal[w]
    /\ Goto(w, "stopped")
    /\ signal' = [signal EXCEPT ![w] = FALSE]
    /\ UNCHANGED <<table, claim, cur, mode, faults, lapsed, triggers>>

BatchDone(w) ==
    /\ pc[w] = "batch" /\ \A j \in JobIds : ~Holds(w, j)
    /\ Goto(w, "top")
    /\ UNCHANGED <<table, claim, cur, signal, mode, faults, lapsed, triggers>>

(* The head of the `for` loop; RETURNING promises no order. *)
Dispatch(w, j) ==
    /\ pc[w] = "batch" /\ ~signal[w] /\ Holds(w, j)
    /\ Goto(w, "running")
    /\ cur' = [cur EXCEPT ![w] = j]
    /\ UNCHANGED <<table, claim, signal, mode, faults, lapsed, triggers>>

(* UPDATE jobs SET ... WHERE id = j: whatever the row's status has become, and
   no row at all once it was garbage-collected. *)
WriteBack(j, newStatus, newDue) ==
    /\ SetRows({j} \ {k \in JobIds : status[k] = "none"}, newStatus, newDue)
    /\ UNCHANGED <<attempts, nextId>>

Drop(w, j) == claim' = [claim EXCEPT ![w] = [claim[w] EXCEPT ![j] = 0]]

(* Mistake: the rest of the batch is forgotten along with the loop. *)
ReleaseAndStop(w, j) ==
    /\ pc[w] = "batch" /\ signal[w] /\ Holds(w, j)
    /\ Goto(w, "stopped")
    /\ signal' = [signal EXCEPT ![w] = FALSE]
    /\ claim' = [claim EXCEPT ![w] = [k \in JobIds |-> 0]]
    /\ WriteBack(j, "pending", FALSE)
    /\ unjudged' = [unjudged EXCEPT ![j] = unjudged[j] + 1]
    /\ UNCHANGED <<cur, mode, faults, lapsed, triggers>>

(* is_triggered() at the head of the `for` loop takes the message out as well,
   and fail_retry hands back this one job... *)
Release(w, j) ==
    /\ pc[w] = "batch" /\ signal[w] /\ Holds(w, j)
    /\ signal' = [signal EXCEPT ![w] = FALSE]
    /\ Drop(w, j)
    /\ WriteBack(j, "pending", FALSE)
    /\ unjudged' = [unjudged EXCEPT ![j] = unjudged[j] + 1]
    /\ UNCHANGED <<pc, cur, mode, faults, lapsed, triggers>>

(* ... or fails to. *)
ReleaseFails(w, j) ==
    /\ pc[w] = "batch" /\ signal[w] /\ Holds(w, j)
    /\ faults < MaxFaults /\ faults' = faults + 1
    /\ signal' = [signal EXCEPT ![w] = FALSE]
    /\ Drop(w, j)
    /\ UNCHANGED <<table, pc, cur, mode, lapsed, triggers>>

(* dispatch has returned: the worker writes the verdict and goes on. *)
Settle(w, j) ==
    /\ pc[w] = "running" /\ j = cur[w]
    /\ Drop(w, j)
    /\ cur' = [cur EXCEPT ![w] = NoJob]
    /\ Goto(w, "batch")
    /\ UNCHANGED <<signal, mode, lapsed, triggers>>

Complete(w, j) ==
    Settle(w, j) /\ WriteBack(j, "completed", TRUE) /\ UNCHANGED <<unjudged, faults>>

(* JobError::Terminal, or JobError::Retry on the last attempt. *)
FailDead(w, j) ==
    Settle(w, j) /\ WriteBack(j, "dead", TRUE) /\ UNCHANGED <<unjudged, faults>>

(* Mistake: one attempt too many. *)
FailRetryOnceMore(w, j) ==
    /\ claim[w][j] <= MaxAttempts
    /\ Settle(w, j) /\ WriteBack(j, "pending", FALSE) /\ UNCHANGED <<unjudged, faults>>

(* Mistake: the backoff as a status of its own. *)
FailRetryBackoff(w, j) ==
    /\ claim[w][j] < MaxAttempts
    /\ Settle(w, j) /\ WriteBack(j, "backoff", FALSE) /\ UNCHANGED <<unjudged, faults>>

FailRetry(w, j) ==
    /\ claim[w][j] < MaxAttempts
    /\ Settle(w, j) /\ WriteBack(j, "pending", FALSE) /\ UNCHANGED <<unjudged, faults>>

(* The write fails; the error is logged and the row stays in_progress. *)
SettleFails(w, j) ==
    /\ faults < MaxFaults /\ faults' = faults + 1
    /\ Settle(w, j) /\ UNCHANGED table

-----------------------------------------------------------------------------
(* Replicas, main.rs.                                                      *)

Tasks(r) == {w \in Workers : Home[w] = r}

Trigger(r) ==
    /\ mode[r] = "up"
    /\ triggers < MaxTriggers /\ triggers' = triggers + 1
    /\ mode' = [mode EXCEPT ![r] = "draining"]
    /\ signal' = [w \in Workers |-> signal[w] \/ (w \in Tasks(r) /\ pc[w] # "stopped")]
    /\ UNCHANGED <<table, pc, claim, cur, lapsed, faults>>

(* main joins every worker handle before it returns. *)
Exit(r) ==
    /\ mode[r] = "draining"
    /\ \A w \in Tasks(r) : pc[w] = "stopped"
    /\ mode' = [mode EXCEPT ![r] = "down"]
    /\ UNCHANGED <<table, procs, faults, lapsed, triggers>>

Crash(r) ==
    /\ mode[r] # "down"
    /\ faults < MaxFaults /\ faults' = faults + 1
    /\ mode' = [mode EXCEPT ![r] = "down"]
    /\ pc' = [w \in Workers |-> IF w \in Tasks(r) THEN "stopped" ELSE pc[w]]
    /\ claim' = [w \in Workers |->
          IF w \in Tasks(r) THEN [j \in JobIds |-> 0] ELSE claim[w]]
    /\ cur' = [w \in Workers |-> IF w \in Tasks(r) THEN NoJob ELSE cur[w]]
    /\ signal' = [w \in Workers |-> signal[w] /\ w \notin Tasks(r)]
    /\ UNCHANGED <<table, lapsed, triggers>>

(* The orchestrator starts the process again. *)
Start(r) ==
    /\ mode[r] = "down"
    /\ mode' = [mode EXCEPT ![r] = "up"]
    /\ pc' = [w \in Workers |-> IF w \in Tasks(r) THEN "top" ELSE pc[w]]
    /\ UNCHANGED <<table, claim, cur, signal, faults, lapsed, triggers>>

-----------------------------------------------------------------------------
Produce ==
    \/ Enqueue \/ EnqueueConfigSyncUnique
    \/ GcOld

Time(j) == BecomeDue(j) \/ OrphanLockExpires(j) \/ HeldLockExpires(j)

(* What a worker does when nothing fails. *)
WorkerStep(w) ==
    \/ LoopHead(w) \/ ReapStuck(w) \/ SkipReap(w)
    \/ ClaimBatch(w) \/ ClaimNothing(w) \/ Wake(w) \/ StopIdle(w) \/ BatchDone(w)
    \/ \E j \in JobIds :
          \/ Dispatch(w, j) \/ Release(w, j)
          \/ Complete(w, j) \/ FailDead(w, j) \/ FailRetry(w, j)

WorkerFault(w) ==
    \/ ClaimFails(w)
    \/ \E j \in JobIds : ReleaseFails(w, j) \/ SettleFails(w, j)

Replica(r) == Trigger(r) \/ Exit(r) \/ Crash(r) \/ Start(r)

Next ==
    \/ Produce
    \/ \E j \in JobIds : Time(j)
    \/ \E w \in Workers : WorkerStep(w) \/ WorkerFault(w)
    \/ \E r \in Replicas : Replica(r)

Spec == Init /\ [][Next]_vars

(* Tokio runs every ready task, every await a worker makes has a timeout, the
   reap timer elapses again and again, clocks advance, and the orchestrator
   restarts a process that ended. *)
Fairness ==
    /\ \A w \in Workers : WF_vars(WorkerStep(w)) /\ SF_vars(ReapStuck(w))
    /\ \A j \in JobIds : WF_vars(BecomeDue(j)) /\ WF_vars(OrphanLockExpires(j))
    /\ \A r \in Replicas : WF_vars(Exit(r)) /\ WF_vars(Start(r))

FairSpec == Spec /\ Fairness

-----------------------------------------------------------------------------
(* Type invariant. *)
TypeOK ==
    /\ status \in [JobIds -> Status]
    /\ attempts \in [JobIds -> Nat]
    /\ due \in [JobIds -> BOOLEAN]
    /\ stale \in [JobIds -> BOOLEAN]
    /\ nextId \in 1..(MaxJobs + 1)
    /\ pc \in [Workers -> {"top", "reap", "claim", "idle", "batch", "running", "stopped"}]
    /\ claim \in [Workers -> [JobIds -> Nat]]
    /\ cur \in [Workers -> JobIds \union {NoJob}]
    /\ signal \in [Workers -> BOOLEAN]
    /\ mode \in [Replicas -> {"up", "draining", "down"}]
    /\ lapsed \subseteq JobIds
    /\ unjudged \in [JobIds -> Nat]
    /\ faults \in 0..MaxFaults
    /\ triggers \in 0..MaxTriggers

(* Ids are handed out once: there is no row yet at or above nextId, no worker
   has heard of one, and none of their locks has expired. *)
FreshIds ==
    \A j \in JobIds : j >= nextId => status[j] = "none" /\ ~Held(j) /\ j \notin lapsed

(* A worker holds claims only inside the `for` loop over its batch, and
   dispatches only one of them. *)
OnlyBatchesHold ==
    \A w \in Workers :
        /\ pc[w] \notin {"batch", "running"} => \A j \in JobIds : ~Holds(w, j)
        /\ pc[w] = "running" => cur[w] \in JobIds /\ Holds(w, cur[w])

(* A process that has ended runs no worker. *)
DownIsStopped ==
    \A w \in Workers : mode[Home[w]] = "down" => pc[w] = "stopped"

(* A claim is its row's latest one, until the row's lock expires under it. *)
ClaimsCurrent ==
    \A w \in Workers : \A j \in JobIds \ lapsed : Holds(w, j) =>
        /\ status[j] = "in_progress"
        /\ ~stale[j]
        /\ claim[w][j] = attempts[j]

(* A row starts over only when it is inserted; until it is deleted, its claims
   are among the attempts it has counted, and no two workers got the same one. *)
ClaimsNumbered ==
    \A j \in JobIds :
        /\ status[j] = "none" => attempts[j] = 0
        /\ \A w \in Workers :
              /\ status[j] # "none" => claim[w][j] <= attempts[j]
              /\ \A v \in Workers : Holds(v, j) /\ claim[v][j] = claim[w][j] => v = w

(* The claims on j that may still end in a retry. *)
MayRetry(j) == {c \in 1..(MaxAttempts - 1) : \E w \in Workers : claim[w][j] = c}

(* What is behind AttemptsBounded: a row has been claimed once, once for each
   return without a verdict and once for each retry.  The retries are claims
   below max_attempts that have ended; those still held, and a return to pending
   that has not been claimed yet, are not spent. *)
RetriesAccounted ==
    \A j \in JobIds : status[j] # "none" =>
        attempts[j] + (IF status[j] = "pending" THEN 1 ELSE 0) + Cardinality(MayRetry(j))
            <= 1 + unjudged[j]
                 + (IF attempts[j] < MaxAttempts THEN attempts[j] ELSE MaxAttempts - 1)

(* Shutdown drops no in-flight job (shutdown.rs: "main.rs joins all handles
   before exiting so no in-flight job is silently dropped"): as long as no
   process crashed and no write was lost, every in_progress row is still in
   the hands of the worker whose claim set its attempts. *)
InFlightNotDropped ==
    faults = 0 =>
        \A j \in JobIds : status[j] = "in_progress" =>
            \E w \in Workers : Holds(w, j) /\ claim[w][j] = attempts[j]

(* Retries end (job_worker.rs: "max attempts exceeded"): neither the reaper nor
   the release on shutdown looks at max_attempts, but those are the only ways
   past it, and each of them lets a job through once, also when a worker
   outlives its lock and writes its verdict over another worker's. *)
AttemptsBounded ==
    \A j \in JobIds : attempts[j] <= MaxAttempts + unjudged[j]

(* The inductive invariant behind the theorems of JobQueueProofs. *)
QueueInv ==
    /\ TypeOK /\ FreshIds /\ OnlyBatchesHold /\ DownIsStopped
    /\ ClaimsCurrent /\ ClaimsNumbered /\ RetriesAccounted
    /\ InFlightNotDropped

(* Every job that is inserted reaches completed or dead, whatever crashes,
   failed writes, reaps and shutdowns happen on the way. *)
EveryJobSettles ==
    \A j \in JobIds : (status[j] = "pending") ~> (Terminal(j) \/ status[j] = "none")

(* migrations/003_jobs.sql: "N replicas drain in parallel without
   double-processing", which they do with every job whose lock did not expire
   under its worker: one double-processed job never makes another one so. *)
NoDoubleProcessing ==
    \A v, w \in Workers :
        pc[v] = "running" /\ pc[w] = "running" /\ cur[v] = cur[w] /\ cur[v] \notin lapsed
            => v = w

(* job_worker.rs: "Workers stop accepting new work on shutdown but finish
   whatever's in-flight", which lets main.rs join them and exit. *)
ShutdownCompletes ==
    \A r \in Replicas : (mode[r] = "draining") ~> (mode[r] = "down")
-----------------------------------------------------------------------------
(* The lease a worker has on a job it claimed and has not yet settled, for as
   long as the job's lock does not expire under it. *)
Owner(j) ==
    IF Held(j) /\ j \notin lapsed THEN CHOOSE w \in Workers : Holds(w, j) ELSE NoWorker

Leased(j) == IF j \in lapsed THEN "lapsed" ELSE status[j]

Lease == INSTANCE JobLease WITH
    Jobs <- JobIds,
    status <- [j \in JobIds |-> Leased(j)],
    owner <- [j \in JobIds |-> Owner(j)]

(* The queue keeps the promise of migrations/003_jobs.sql: one worker at a time
   has a job, only it settles the job, and the reaper only takes jobs nobody
   holds.  A job leaves the promise when its lock expires under its worker
   (job_worker.rs has it "comfortably above the longest legitimate sync"),
   whichever of its worker, a reaper and a second worker writes next; the
   others stay in it. *)
KeepsLease == Lease!Spec
=============================================================================
