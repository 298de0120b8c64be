--------------------------- MODULE JobQueueProofs ---------------------------
(***************************************************************************)
(* Machine-checked proofs about JobQueue, for any number of workers,       *)
(* replicas, jobs and faults, and any payloads.                            *)
(***************************************************************************)
EXTENDS JobQueue, FiniteSetTheorems, TLAPS

(* What every statement on the table does keeps the columns in their types. *)
LEMMA SetRowsType ==
    ASSUME TypeOK, NEW S, NEW s \in Status, NEW d \in BOOLEAN, SetRows(S, s, d)
    PROVE  /\ status' \in [JobIds -> Status]
           /\ due' \in [JobIds -> BOOLEAN]
           /\ stale' \in [JobIds -> BOOLEAN]
  BY DEF SetRows, TypeOK

(* jobs.rs, the three enqueue functions: a new row has the types of its columns. *)
LEMMA InsertType ==
    ASSUME TypeOK, NEW now \in BOOLEAN, Insert(now)
    PROVE  TypeOK'
<1>1. /\ status' \in [JobIds -> Status]
      /\ due' \in [JobIds -> BOOLEAN]
      /\ stale' \in [JobIds -> BOOLEAN]
  BY SetRowsType DEF Insert, Status
<1>2. nextId' \in 1..(MaxJobs + 1)
  BY JobQueueAssumption DEF TypeOK, Insert
<1>3. QED
  BY <1>1, <1>2 DEF TypeOK, Insert, procs

(* claim_batch (jobs.rs): the claimed rows keep the types of their columns. *)
LEMMA MarkClaimedType ==
    ASSUME TypeOK, MarkClaimed
    PROVE  /\ status' \in [JobIds -> Status]
           /\ due' \in [JobIds -> BOOLEAN]
           /\ stale' \in [JobIds -> BOOLEAN]
           /\ attempts' \in [JobIds -> Nat]
<1>1. attempts' \in [JobIds -> Nat]
  BY DEF MarkClaimed, TypeOK
<1>2. QED
  BY <1>1, SetRowsType DEF MarkClaimed, Status

(* complete, fail_retry and fail_dead (jobs.rs): whatever the row has become, it
   keeps the types of its columns. *)
LEMMA WriteBackType ==
    ASSUME TypeOK, NEW j, NEW s \in Status, NEW d \in BOOLEAN, WriteBack(j, s, d)
    PROVE  /\ status' \in [JobIds -> Status]
           /\ due' \in [JobIds -> BOOLEAN]
           /\ stale' \in [JobIds -> BOOLEAN]
           /\ UNCHANGED <<attempts, nextId>>
  BY SetRowsType DEF WriteBack

(* A worker of job_worker.rs that is done with a job keeps a batch of claims. *)
LEMMA DropType ==
    ASSUME TypeOK, NEW w \in Workers, NEW j \in JobIds, Drop(w, j)
    PROVE  claim' \in [Workers -> [JobIds -> Nat]]
  BY DEF TypeOK, Drop

(* Every step keeps every variable in its type. *)
LEMMA TypeStep ==
    ASSUME TypeOK, OnlyBatchesHold, [Next]_vars
    PROVE  TypeOK'
<1>1. CASE Enqueue
  <2>1. (Payload[nextId] = NoLink) \in BOOLEAN
    OBVIOUS
  <2> QED  BY <1>1, <2>1, InsertType DEF Enqueue
<1>2. CASE EnqueueConfigSyncUnique
  BY <1>2, InsertType DEF EnqueueConfigSyncUnique
<1>3. CASE GcOld
  <2>1. PICK old \in SUBSET {j \in JobIds : Terminal(j)} :
            /\ SetRows(old, "none", FALSE)
            /\ attempts' = [j \in JobIds |-> IF j \in old THEN 0 ELSE attempts[j]]
    BY <1>3 DEF GcOld
  <2>2. /\ status' \in [JobIds -> Status]
        /\ due' \in [JobIds -> BOOLEAN]
        /\ stale' \in [JobIds -> BOOLEAN]
    BY <2>1, SetRowsType DEF Status
  <2>3. attempts' \in [JobIds -> Nat]
    BY <2>1 DEF TypeOK
  <2>4. UNCHANGED <<nextId, procs, mode, unjudged, faults, lapsed, triggers>>
    BY <1>3 DEF GcOld
  <2>5. QED
    BY <2>2, <2>3, <2>4 DEF TypeOK, procs
<1>4. ASSUME NEW j \in JobIds, BecomeDue(j)  PROVE TypeOK'
  BY <1>4 DEF BecomeDue, TypeOK, procs
<1>5. ASSUME NEW j \in JobIds, OrphanLockExpires(j) \/ HeldLockExpires(j)
      PROVE  TypeOK'
  <2>1. faults' \in 0..MaxFaults
    BY <1>5, JobQueueAssumption DEF OrphanLockExpires, HeldLockExpires, TypeOK
  <2>2. LockExpires(j) /\ lapsed' \in {lapsed, lapsed \union {j}}
    BY <1>5 DEF OrphanLockExpires, HeldLockExpires
  <2>3. QED
    BY <2>1, <2>2 DEF LockExpires, TypeOK, procs
<1>6. ASSUME NEW w \in Workers, LoopHead(w) \/ SkipReap(w) \/ ClaimNothing(w)
                 \/ Wake(w) \/ StopIdle(w) \/ BatchDone(w)
      PROVE  TypeOK'
  BY <1>6 DEF LoopHead, SkipReap, ClaimNothing, Wake, StopIdle, BatchDone, Goto,
              TypeOK, table
<1>7. ASSUME NEW w \in Workers, ReapStuck(w)  PROVE TypeOK'
  <2>1. /\ status' \in [JobIds -> Status]
        /\ due' \in [JobIds -> BOOLEAN]
        /\ stale' \in [JobIds -> BOOLEAN]
    BY <1>7, SetRowsType DEF ReapStuck, Status
  <2>2. unjudged' \in [JobIds -> Nat]
    BY <1>7 DEF ReapStuck, TypeOK
  <2>3. QED
    BY <1>7, <2>1, <2>2 DEF ReapStuck, Goto, TypeOK
<1>8. ASSUME NEW w \in Workers, ClaimBatch(w)  PROVE TypeOK'
  <2>1. claim' \in [Workers -> [JobIds -> Nat]]
    BY <1>8 DEF ClaimBatch, TypeOK
  <2>2. QED
    BY <1>8, <2>1, MarkClaimedType DEF ClaimBatch, Goto, TypeOK
<1>9. ASSUME NEW w \in Workers, ClaimFails(w)  PROVE TypeOK'
  <2>1. faults' \in 0..MaxFaults
    BY <1>9, JobQueueAssumption DEF ClaimFails, TypeOK
  <2>2. /\ status' \in [JobIds -> Status]
        /\ due' \in [JobIds -> BOOLEAN]
        /\ stale' \in [JobIds -> BOOLEAN]
        /\ attempts' \in [JobIds -> Nat]
    BY <1>9, MarkClaimedType DEF ClaimFails, TypeOK
  <2>3. QED
    BY <1>9, <2>1, <2>2 DEF ClaimFails, Goto, TypeOK
<1>10. ASSUME NEW w \in Workers, NEW j \in JobIds, Dispatch(w, j)  PROVE TypeOK'
  BY <1>10 DEF Dispatch, Goto, TypeOK, table
<1>11. ASSUME NEW w \in Workers, NEW j \in JobIds, Release(w, j)  PROVE TypeOK'
  <2>1. /\ status' \in [JobIds -> Status]
        /\ due' \in [JobIds -> BOOLEAN]
        /\ stale' \in [JobIds -> BOOLEAN]
        /\ UNCHANGED <<attempts, nextId>>
    BY <1>11, WriteBackType DEF Release, Status
  <2>2. claim' \in [Workers -> [JobIds -> Nat]]
    BY <1>11, DropType DEF Release
  <2>3. unjudged' \in [JobIds -> Nat]
    BY <1>11 DEF Release, TypeOK
  <2>4. QED
    BY <1>11, <2>1, <2>2, <2>3 DEF Release, TypeOK
<1>12. ASSUME NEW w \in Workers, NEW j \in JobIds, ReleaseFails(w, j)  PROVE TypeOK'
  <2>1. faults' \in 0..MaxFaults
    BY <1>12, JobQueueAssumption DEF ReleaseFails, TypeOK
  <2>2. claim' \in [Workers -> [JobIds -> Nat]]
    BY <1>12, DropType DEF ReleaseFails
  <2>3. QED
    BY <1>12, <2>1, <2>2 DEF ReleaseFails, TypeOK, table
<1>13. ASSUME NEW w \in Workers, NEW j \in JobIds,
              Complete(w, j) \/ FailDead(w, j) \/ FailRetry(w, j)
       PROVE  TypeOK'
  <2>1. Settle(w, j) /\ UNCHANGED <<unjudged, faults>>
    BY <1>13 DEF Complete, FailDead, FailRetry
  <2>2. claim' \in [Workers -> [JobIds -> Nat]]
    BY <2>1, DropType DEF Settle
  <2>3. /\ status' \in [JobIds -> Status]
        /\ due' \in [JobIds -> BOOLEAN]
        /\ stale' \in [JobIds -> BOOLEAN]
        /\ UNCHANGED <<attempts, nextId>>
    BY <1>13, WriteBackType DEF Complete, FailDead, FailRetry, Status
  <2>4. QED
    BY <2>1, <2>2, <2>3 DEF Settle, Goto, TypeOK
<1>14. ASSUME NEW w \in Workers, NEW j \in JobIds, SettleFails(w, j)  PROVE TypeOK'
  <2>1. faults' \in 0..MaxFaults
    BY <1>14, JobQueueAssumption DEF SettleFails, TypeOK
  <2>2. claim' \in [Workers -> [JobIds -> Nat]]
    BY <1>14, DropType DEF SettleFails, Settle
  <2>3. QED
    BY <1>14, <2>1, <2>2 DEF SettleFails, Settle, Goto, TypeOK, table
<1>15. ASSUME NEW r \in Replicas, Trigger(r)  PROVE TypeOK'
  <2>1. triggers' \in 0..MaxTriggers
    BY <1>15, JobQueueAssumption DEF Trigger, TypeOK
  <2>2. signal' \in [Workers -> BOOLEAN]
    BY <1>15 DEF Trigger, TypeOK
  <2>3. QED
    BY <1>15, <2>1, <2>2 DEF Trigger, TypeOK, table
<1>16. ASSUME NEW r \in Replicas, Exit(r) \/ Start(r)  PROVE TypeOK'
  BY <1>16 DEF Exit, Start, TypeOK, table, procs
<1>17. ASSUME NEW r \in Replicas, Crash(r)  PROVE TypeOK'
  <2>1. faults' \in 0..MaxFaults
    BY <1>17, JobQueueAssumption DEF Crash, TypeOK
  <2>2. /\ pc' \in [Workers -> {"top", "reap", "claim", "idle", "batch", "running", "stopped"}]
        /\ cur' \in [Workers -> JobIds \union {NoJob}]
    BY <1>17 DEF Crash, TypeOK
  <2>3. /\ claim' \in [Workers -> [JobIds -> Nat]]
        /\ signal' \in [Workers -> BOOLEAN]
    BY <1>17 DEF Crash, TypeOK
  <2>4. QED
    BY <1>17, <2>1, <2>2, <2>3 DEF Crash, TypeOK, table
<1>18. CASE UNCHANGED vars
  BY <1>18 DEF vars, TypeOK
<1>19. QED
  BY <1>1, <1>2, <1>3, <1>4, <1>5, <1>6, <1>7, <1>8, <1>9, <1>10, <1>11, <1>12,
     <1>13, <1>14, <1>15, <1>16, <1>17, <1>18
     DEF Next, Produce, Time, WorkerStep, WorkerFault, Replica

(* Claims stay inside batches, and a process that ended runs nothing. *)
LEMMA ControlStep ==
    ASSUME TypeOK, OnlyBatchesHold, DownIsStopped, [Next]_vars
    PROVE  OnlyBatchesHold' /\ DownIsStopped'
<1> USE DEF OnlyBatchesHold, DownIsStopped, Holds
<1>1. CASE Produce
  BY <1>1 DEF Produce, Enqueue, EnqueueConfigSyncUnique, Insert, GcOld, procs
<1>2. ASSUME NEW j \in JobIds, Time(j)  PROVE OnlyBatchesHold' /\ DownIsStopped'
  BY <1>2 DEF Time, BecomeDue, OrphanLockExpires, HeldLockExpires, LockExpires, procs
<1>3. ASSUME NEW w \in Workers, LoopHead(w) \/ ReapStuck(w) \/ SkipReap(w)
                 \/ ClaimNothing(w) \/ ClaimFails(w) \/ Wake(w) \/ StopIdle(w) \/ BatchDone(w)
      PROVE  OnlyBatchesHold' /\ DownIsStopped'
  BY <1>3 DEF LoopHead, ReapStuck, SkipReap, ClaimNothing, ClaimFails, Wake, StopIdle,
              BatchDone, Goto, TypeOK
<1>4. ASSUME NEW w \in Workers, ClaimBatch(w)  PROVE OnlyBatchesHold' /\ DownIsStopped'
  BY <1>4 DEF ClaimBatch, Goto, TypeOK
<1>5. ASSUME NEW w \in Workers, NEW j \in JobIds,
             Dispatch(w, j) \/ Release(w, j) \/ ReleaseFails(w, j)
      PROVE  OnlyBatchesHold' /\ DownIsStopped'
  BY <1>5 DEF Dispatch, Release, ReleaseFails, Drop, Goto, TypeOK
<1>6. ASSUME NEW w \in Workers, NEW j \in JobIds, Settle(w, j)
      PROVE  OnlyBatchesHold' /\ DownIsStopped'
  BY <1>6 DEF Settle, Drop, Goto, TypeOK
<1>7. ASSUME NEW r \in Replicas, Trigger(r) \/ Exit(r) \/ Start(r)
      PROVE  OnlyBatchesHold' /\ DownIsStopped'
  <2>1. OnlyBatchesHold'
    BY <1>7 DEF Trigger, Exit, Start, procs, TypeOK, Tasks
  <2>2. Home \in [Workers -> Replicas]
    BY JobQueueAssumption
  <2>3. DownIsStopped'
    <3>1. CASE Trigger(r)  BY <2>2, <3>1 DEF Trigger, TypeOK
    <3>2. CASE Exit(r)     BY <2>2, <3>2 DEF Exit, Tasks, procs, TypeOK
    <3>3. CASE Start(r)    BY <2>2, <3>3 DEF Start, Tasks, TypeOK
    <3>4. QED              BY <1>7, <3>1, <3>2, <3>3
  <2>4. QED
    BY <2>1, <2>3
<1>8. ASSUME NEW r \in Replicas, Crash(r)  PROVE OnlyBatchesHold' /\ DownIsStopped'
  BY <1>8, JobQueueAssumption DEF Crash, Tasks, TypeOK
<1>9. CASE UNCHANGED vars
  BY <1>9 DEF vars
<1>10. QED
  BY <1>1, <1>2, <1>3, <1>4, <1>5, <1>6, <1>7, <1>8, <1>9
     DEF Next, WorkerStep, WorkerFault, Replica, Complete, FailDead, FailRetry, SettleFails

-----------------------------------------------------------------------------
(* The part of QueueInv that relates the rows to the claims on them. *)
TableInv ==
    /\ FreshIds /\ ClaimsCurrent /\ ClaimsNumbered /\ RetriesAccounted
    /\ InFlightNotDropped

(* How many claims below max_attempts are still held is a number. *)
LEMMA MayRetryCounts ==
    ASSUME NEW j
    PROVE  IsFiniteSet(MayRetry(j)) /\ Cardinality(MayRetry(j)) \in Nat
<1>1. IsFiniteSet(1..(MaxAttempts - 1))
  BY FS_Interval, JobQueueAssumption
<1>2. MayRetry(j) \subseteq 1..(MaxAttempts - 1)
  BY DEF MayRetry
<1>3. QED
  BY <1>1, <1>2, FS_Subset, FS_CardinalityType

(* A worker that gives up claims leaves no more of them to be retried. *)
LEMMA FewerMayRetry ==
    ASSUME NEW j, \A w \in Workers : claim'[w][j] \in {0, claim[w][j]}
    PROVE  Cardinality(MayRetry(j)') <= Cardinality(MayRetry(j)) /\ Cardinality(MayRetry(j)') \in Nat
<1>1. MayRetry(j)' \subseteq MayRetry(j)
  <2> SUFFICES ASSUME NEW c \in 1..(MaxAttempts - 1), \E w \in Workers : claim'[w][j] = c
               PROVE  \E w \in Workers : claim[w][j] = c
    BY DEF MayRetry
  <2>1. c # 0  BY JobQueueAssumption
  <2> QED  BY <2>1
<1>2. Cardinality(MayRetry(j)') <= Cardinality(MayRetry(j))
  BY <1>1, MayRetryCounts, FS_Subset
<1>3. IsFiniteSet(MayRetry(j)')
  BY <1>1, MayRetryCounts, FS_Subset
<1>4. Cardinality(MayRetry(j)') \in Nat
  BY <1>3, FS_CardinalityType
<1> QED  BY <1>2, <1>4

(* ... and one less, when the claim it gives up was below max_attempts: nobody
   else has the same one. *)
LEMMA OneLessMayRetry ==
    ASSUME TypeOK, ClaimsNumbered, NEW w \in Workers, NEW j \in JobIds, Holds(w, j), Drop(w, j),
           claim[w][j] < MaxAttempts
    PROVE  Cardinality(MayRetry(j)') < Cardinality(MayRetry(j))
<1> DEFINE c == claim[w][j]
<1>1. c \in 1..(MaxAttempts - 1)
  BY JobQueueAssumption DEF TypeOK, Holds
<1>2. /\ claim'[w][j] = 0
      /\ \A v \in Workers \ {w} : claim'[v][j] = claim[v][j] /\ claim[v][j] # c
  <2>1. claim'[w][j] = 0 /\ \A v \in Workers \ {w} : claim'[v][j] = claim[v][j]
    BY DEF Drop, TypeOK
  <2>2. \A v \in Workers \ {w} : claim[v][j] # c
    BY <1>1 DEF ClaimsNumbered, Holds
  <2> QED  BY <2>1, <2>2
<1>3. c \in MayRetry(j)
  BY <1>1 DEF MayRetry
<1>4. MayRetry(j)' = MayRetry(j) \ {c}
  <2>1. ASSUME NEW d \in 1..(MaxAttempts - 1)
        PROVE  (\E v \in Workers : claim'[v][j] = d) <=> d # c /\ \E v \in Workers : claim[v][j] = d
    <3>1. d # 0  BY JobQueueAssumption
    <3> QED  BY <1>2, <3>1
  <2> QED  BY <2>1 DEF MayRetry
<1>5. Cardinality(MayRetry(j)') = Cardinality(MayRetry(j)) - 1
  BY <1>3, <1>4, MayRetryCounts, FS_RemoveElement
<1> QED  BY <1>5, MayRetryCounts

(* ... and at most one more, when it is handed the attempt after the last. *)
LEMMA OneMoreMayRetry ==
    ASSUME NEW w \in Workers, NEW j, NEW c \in Nat, claim'[w][j] = c,
           \A v \in Workers \ {w} : claim'[v][j] = claim[v][j]
    PROVE  /\ Cardinality(MayRetry(j)') \in Nat
           /\ Cardinality(MayRetry(j)') <= Cardinality(MayRetry(j)) + 1
           /\ c >= MaxAttempts => Cardinality(MayRetry(j)') <= Cardinality(MayRetry(j))
<1>1. MayRetry(j)' \subseteq MayRetry(j) \union {c}
  BY DEF MayRetry
<1>2. c >= MaxAttempts => MayRetry(j)' \subseteq MayRetry(j)
  <2>1. c >= MaxAttempts => c \notin MayRetry(j)'
    BY JobQueueAssumption DEF MayRetry
  <2> QED  BY <1>1, <2>1
<1>3. IsFiniteSet(MayRetry(j) \union {c})
  BY MayRetryCounts, FS_AddElement
<1>4. Cardinality(MayRetry(j) \union {c}) <= Cardinality(MayRetry(j)) + 1
  BY MayRetryCounts, FS_AddElement
<1>5. IsFiniteSet(MayRetry(j)') /\ Cardinality(MayRetry(j)') <= Cardinality(MayRetry(j) \union {c})
  BY <1>1, <1>3, FS_Subset
<1>6. c >= MaxAttempts => Cardinality(MayRetry(j)') <= Cardinality(MayRetry(j))
  BY <1>2, MayRetryCounts, FS_Subset
<1>7. /\ Cardinality(MayRetry(j)') \in Nat
      /\ Cardinality(MayRetry(j) \union {c}) \in Nat
  BY <1>3, <1>5, FS_CardinalityType
<1> QED  BY <1>4, <1>5, <1>6, <1>7, MayRetryCounts

(* A row that was not claimed stays accounted for: it goes back to pending on a
   return that `unjudged` counts, or on a retry that ends a claim below
   max_attempts. *)
LEMMA RowAccounted ==
    ASSUME TypeOK, TypeOK', RetriesAccounted, NEW j \in JobIds, status[j] # "none",
           attempts'[j] = attempts[j], unjudged'[j] >= unjudged[j],
           Cardinality(MayRetry(j)') \in Nat,
           Cardinality(MayRetry(j)') <= Cardinality(MayRetry(j)),
           \/ status'[j] = "pending" => status[j] = "pending"
           \/ unjudged'[j] > unjudged[j]
           \/ Cardinality(MayRetry(j)') < Cardinality(MayRetry(j))
    PROVE  attempts'[j] + (IF status'[j] = "pending" THEN 1 ELSE 0) + Cardinality(MayRetry(j)')
               <= 1 + unjudged'[j]
                    + (IF attempts'[j] < MaxAttempts THEN attempts'[j] ELSE MaxAttempts - 1)
<1>1. attempts[j] + (IF status[j] = "pending" THEN 1 ELSE 0) + Cardinality(MayRetry(j))
          <= 1 + unjudged[j] + (IF attempts[j] < MaxAttempts THEN attempts[j] ELSE MaxAttempts - 1)
  BY DEF RetriesAccounted
<1>2. attempts[j] \in Nat /\ unjudged[j] \in Nat /\ unjudged'[j] \in Nat /\ MaxAttempts \in Nat
  BY JobQueueAssumption DEF TypeOK
<1>3. Cardinality(MayRetry(j)) \in Nat
  BY MayRetryCounts
<1> QED  BY <1>1, <1>2, <1>3

(* Steps that hand out no claims: the rows that are there stay there or are
   deleted, their attempts stay as they are, and claims are only given up. *)
LEMMA NoClaimKeepsTable ==
    ASSUME TypeOK, TypeOK', TableInv, UNCHANGED <<nextId, lapsed>>,
           \A v \in Workers, k \in JobIds : claim'[v][k] \in {0, claim[v][k]},
           \A k \in JobIds :
               \/ status'[k] = "none" /\ attempts'[k] = 0
               \/ status[k] # "none" /\ status'[k] # "none" /\ attempts'[k] = attempts[k],
           \A k \in JobIds :
               /\ unjudged'[k] >= unjudged[k]
               /\ \/ status'[k] = "pending" => status[k] = "pending"
                  \/ unjudged'[k] > unjudged[k]
                  \/ Cardinality(MayRetry(k)') < Cardinality(MayRetry(k))
    PROVE  FreshIds' /\ ClaimsNumbered' /\ RetriesAccounted'
<1>1. ASSUME NEW v \in Workers, NEW k \in JobIds, Holds(v, k)'
      PROVE  Holds(v, k) /\ claim'[v][k] = claim[v][k]
  BY <1>1 DEF Holds
<1>2. FreshIds'
  <2> SUFFICES ASSUME NEW k \in JobIds, k >= nextId  PROVE status'[k] = "none" /\ ~Held(k)' /\ k \notin lapsed'
    BY DEF FreshIds
  <2>1. status[k] = "none" /\ ~Held(k) /\ k \notin lapsed'  BY DEF TableInv, FreshIds
  <2>2. status'[k] = "none"  BY <2>1
  <2>3. ~Held(k)'  BY <1>1, <2>1 DEF Held
  <2> QED  BY <2>1, <2>2, <2>3
<1>3. ClaimsNumbered'
  <2> SUFFICES ASSUME NEW k \in JobIds
               PROVE  /\ status'[k] = "none" => attempts'[k] = 0
                      /\ \A w \in Workers :
                           /\ status'[k] # "none" => claim'[w][k] <= attempts'[k]
                           /\ \A v \in Workers : Holds(v, k)' /\ claim'[v][k] = claim'[w][k] => v = w
    BY DEF ClaimsNumbered
  <2>1. status'[k] = "none" => attempts'[k] = 0
    OBVIOUS
  <2>2. ASSUME NEW w \in Workers, status'[k] # "none"  PROVE claim'[w][k] <= attempts'[k]
    <3>1. claim[w][k] <= attempts[k] /\ attempts'[k] = attempts[k]
      BY <2>2 DEF TableInv, ClaimsNumbered
    <3>2. claim[w][k] \in Nat /\ attempts[k] \in Nat /\ claim'[w][k] \in {0, claim[w][k]}
      BY DEF TypeOK
    <3> QED  BY <3>1, <3>2
  <2>3. ASSUME NEW w \in Workers, NEW v \in Workers, Holds(v, k)', claim'[v][k] = claim'[w][k]
        PROVE  v = w
    <3>1. Holds(v, k) /\ claim[v][k] = claim'[w][k] /\ claim[v][k] > 0
      BY <1>1, <2>3 DEF Holds
    <3>2. claim'[w][k] \in {0, claim[w][k]} /\ claim[v][k] \in Nat
      BY DEF TypeOK
    <3>3. claim[v][k] = claim[w][k]
      BY <3>1, <3>2
    <3> QED  BY <3>1, <3>3 DEF TableInv, ClaimsNumbered
  <2> QED  BY <2>1, <2>2, <2>3
<1>4. RetriesAccounted'
  <2> SUFFICES ASSUME NEW k \in JobIds, status'[k] # "none"
               PROVE  attempts'[k] + (IF status'[k] = "pending" THEN 1 ELSE 0) + Cardinality(MayRetry(k)')
                        <= 1 + unjudged'[k]
                             + (IF attempts'[k] < MaxAttempts THEN attempts'[k] ELSE MaxAttempts - 1)
    BY DEF RetriesAccounted
  <2>1. status[k] # "none" /\ attempts'[k] = attempts[k]
    OBVIOUS
  <2>2. Cardinality(MayRetry(k)') <= Cardinality(MayRetry(k)) /\ Cardinality(MayRetry(k)') \in Nat
    BY FewerMayRetry
  <2> QED  BY <2>1, <2>2, RowAccounted DEF TableInv
<1> QED  BY <1>2, <1>3, <1>4

(* Steps that touch neither the rows' status nor the claims. *)
LEMMA QuietKeepsTable ==
    ASSUME TypeOK, TypeOK', TableInv, faults' >= faults,
           UNCHANGED <<status, attempts, stale, nextId, claim, unjudged, lapsed>>
    PROVE  TableInv'
<1>1. FreshIds' /\ ClaimsNumbered' /\ ClaimsCurrent'
  BY DEF TableInv, FreshIds, ClaimsCurrent, ClaimsNumbered, Held, Holds
<1>2. RetriesAccounted'
  BY DEF TableInv, RetriesAccounted, MayRetry
<1>3. InFlightNotDropped'
  BY DEF TableInv, InFlightNotDropped, Holds, TypeOK
<1>4. QED
  BY <1>1, <1>2, <1>3 DEF TableInv

(* An insert (jobs.rs) takes a fresh id: no worker holds it and no row has it. *)
LEMMA InsertKeepsTable ==
    ASSUME TypeOK, TypeOK', TableInv, NEW now, Insert(now)
    PROVE  TableInv'
<1>0. /\ nextId \in JobIds /\ nextId' = nextId + 1 /\ nextId \in Nat
      /\ UNCHANGED <<attempts, claim, unjudged, faults, lapsed>>
      /\ status'[nextId] = "pending"
      /\ \A j \in JobIds \ {nextId} : status'[j] = status[j] /\ stale'[j] = stale[j]
  BY JobQueueAssumption DEF TypeOK, Insert, SetRows, JobIds, procs
<1>1. status[nextId] = "none" /\ ~Held(nextId) /\ attempts[nextId] = 0
  BY <1>0 DEF TableInv, FreshIds, ClaimsNumbered
<1>2. FreshIds'
  BY <1>0 DEF TableInv, FreshIds, Held, Holds, JobIds
<1>3. ClaimsCurrent'
  BY <1>0, <1>1 DEF TableInv, ClaimsCurrent, Held, Holds
<1>4. ClaimsNumbered'
  <2>1. \A w \in Workers : claim[w][nextId] = 0
    BY <1>0, <1>1 DEF Held, Holds, TypeOK
  <2>2. ASSUME NEW j \in JobIds
        PROVE  /\ status'[j] = "none" => attempts[j] = 0
               /\ \A w \in Workers : status'[j] # "none" => claim[w][j] <= attempts[j]
    <3>1. CASE j = nextId  BY <1>0, <1>1, <2>1, <3>1
    <3>2. CASE j # nextId  BY <1>0, <3>2 DEF TableInv, ClaimsNumbered
    <3> QED  BY <3>1, <3>2
  <2>3. \A j \in JobIds, u \in Workers, v \in Workers :
            Holds(v, j) /\ claim[v][j] = claim[u][j] => v = u
    BY DEF TableInv, ClaimsNumbered
  <2> QED  BY <1>0, <2>2, <2>3 DEF ClaimsNumbered, Holds
<1>5. RetriesAccounted'
  <2> SUFFICES ASSUME NEW j \in JobIds, status'[j] # "none"
               PROVE  attempts'[j] + (IF status'[j] = "pending" THEN 1 ELSE 0) + Cardinality(MayRetry(j)')
                        <= 1 + unjudged'[j]
                             + (IF attempts'[j] < MaxAttempts THEN attempts'[j] ELSE MaxAttempts - 1)
    BY DEF RetriesAccounted
  <2>1. MayRetry(j)' = MayRetry(j) /\ attempts'[j] = attempts[j] /\ unjudged'[j] = unjudged[j]
    BY <1>0 DEF MayRetry
  <2>2. CASE j = nextId
    <3>1. MayRetry(j) = {}
      BY <1>1, <2>2, JobQueueAssumption DEF MayRetry, Held, Holds
    <3>2. Cardinality(MayRetry(j)') = 0
      BY <2>1, <3>1, FS_EmptySet
    <3>3. attempts'[j] = 0 /\ unjudged'[j] \in Nat /\ status'[j] = "pending"
      BY <1>0, <1>1, <2>2 DEF TypeOK
    <3> QED  BY <3>2, <3>3, JobQueueAssumption
  <2>3. CASE j # nextId
    <3>1. status'[j] = status[j]  BY <1>0, <2>3
    <3> QED  BY <2>1, <3>1 DEF TableInv, RetriesAccounted
  <2> QED  BY <2>2, <2>3
<1>6. InFlightNotDropped'
  BY <1>0 DEF TableInv, InFlightNotDropped, Holds
<1>7. QED
  BY <1>2, <1>3, <1>4, <1>5, <1>6 DEF TableInv

(* gc_old (jobs.rs) deletes terminal rows only: none of them is in progress. *)
LEMMA GcKeepsTable ==
    ASSUME TypeOK, TypeOK', TableInv, GcOld
    PROVE  TableInv'
<1>0. /\ \A j \in JobIds :
            \/ /\ status'[j] = status[j] /\ stale'[j] = stale[j] /\ attempts'[j] = attempts[j]
            \/ status[j] # "in_progress" /\ status'[j] = "none" /\ attempts'[j] = 0
      /\ UNCHANGED <<nextId, claim, unjudged, faults, lapsed>>
  <2>1. PICK old \in SUBSET {j \in JobIds : Terminal(j)} :
            /\ SetRows(old, "none", FALSE)
            /\ attempts' = [j \in JobIds |-> IF j \in old THEN 0 ELSE attempts[j]]
    BY DEF GcOld
  <2>2. UNCHANGED <<nextId, claim, unjudged, faults, lapsed>>
    BY DEF GcOld, procs
  <2>3. \A j \in old : status[j] # "in_progress"
    BY DEF Terminal
  <2> QED  BY <2>1, <2>2, <2>3 DEF SetRows
<1>1. FreshIds' /\ ClaimsNumbered' /\ RetriesAccounted'
  <2>1. \A k \in JobIds :
            \/ status'[k] = "none" /\ attempts'[k] = 0
            \/ status[k] # "none" /\ status'[k] # "none" /\ attempts'[k] = attempts[k]
    BY <1>0 DEF TableInv, ClaimsNumbered
  <2>2. \A k \in JobIds :
            unjudged'[k] >= unjudged[k] /\ (status'[k] = "pending" => status[k] = "pending")
    BY <1>0 DEF TypeOK
  <2>3. \A v \in Workers, k \in JobIds : claim'[v][k] \in {0, claim[v][k]}
    BY <1>0
  <2> QED  BY <1>0, <2>1, <2>2, <2>3, NoClaimKeepsTable
<1>2. ClaimsCurrent'
  BY <1>0 DEF TableInv, ClaimsCurrent, Holds
<1>3. InFlightNotDropped'
  BY <1>0 DEF TableInv, InFlightNotDropped, Holds
<1>7. QED
  BY <1>1, <1>2, <1>3 DEF TableInv

(* A lock that expires under nobody disturbs no claim; under a holder it is a
   fault, and the job lapses. *)
LEMMA LockExpiresKeepsTable ==
    ASSUME TypeOK, TypeOK', TableInv, NEW j \in JobIds, OrphanLockExpires(j) \/ HeldLockExpires(j)
    PROVE  TableInv'
<1>0. UNCHANGED <<status, attempts, nextId, claim, unjudged>>
  BY DEF OrphanLockExpires, HeldLockExpires, LockExpires, procs
<1>1. ClaimsNumbered' /\ RetriesAccounted'
  BY <1>0 DEF TableInv, ClaimsNumbered, RetriesAccounted, MayRetry, Holds
<1>f. FreshIds'
  <2> SUFFICES ASSUME NEW k \in JobIds, k >= nextId
               PROVE  status[k] = "none" /\ ~Held(k) /\ k \notin lapsed'
    BY <1>0 DEF FreshIds, Held, Holds
  <2>1. status[k] = "none" /\ ~Held(k) /\ k \notin lapsed
    BY DEF TableInv, FreshIds
  <2>2. k # j
    BY <2>1 DEF OrphanLockExpires, HeldLockExpires, LockExpires
  <2> QED  BY <2>1, <2>2 DEF OrphanLockExpires, HeldLockExpires
<1>2. ClaimsCurrent'
  <2> SUFFICES ASSUME NEW w \in Workers, NEW k \in JobIds \ lapsed', Holds(w, k)
               PROVE  status[k] = "in_progress" /\ ~stale'[k] /\ claim[w][k] = attempts[k]
    BY <1>0 DEF ClaimsCurrent, Holds
  <2>1. k # j
    BY DEF OrphanLockExpires, HeldLockExpires, Held
  <2>2. k \notin lapsed /\ stale'[k] = stale[k]
    BY <2>1 DEF OrphanLockExpires, HeldLockExpires, LockExpires, TypeOK
  <2> QED  BY <2>2 DEF TableInv, ClaimsCurrent
<1>3. faults' = 0 => faults = 0
  BY DEF TypeOK, OrphanLockExpires, HeldLockExpires
<1>4. InFlightNotDropped'
  BY <1>0, <1>3 DEF TableInv, InFlightNotDropped, Holds
<1>5. QED
  BY <1>1, <1>f, <1>2, <1>4 DEF TableInv

(* reap_stuck (jobs.rs): but for the jobs that lapsed, no claim is on a stale row,
   and a row that goes back is counted in `unjudged`. *)
LEMMA ReapKeepsTable ==
    ASSUME TypeOK, TypeOK', TableInv, NEW w \in Workers, ReapStuck(w)
    PROVE  TableInv'
<1>0. /\ \A k \in JobIds \ Stuck :
            status'[k] = status[k] /\ stale'[k] = stale[k] /\ unjudged'[k] = unjudged[k]
      /\ \A k \in Stuck : status'[k] = "pending" /\ unjudged'[k] = unjudged[k] + 1
      /\ \A k \in Stuck : k \in JobIds /\ status[k] = "in_progress" /\ stale[k]
      /\ UNCHANGED <<attempts, nextId, claim, faults, lapsed>>
  BY DEF TypeOK, ReapStuck, SetRows, Stuck
<1>1. FreshIds' /\ ClaimsNumbered' /\ RetriesAccounted'
  <2>1. \A k \in JobIds :
            \/ status'[k] = "none" /\ attempts'[k] = 0
            \/ status[k] # "none" /\ status'[k] # "none" /\ attempts'[k] = attempts[k]
    BY <1>0 DEF TableInv, ClaimsNumbered
  <2>2. \A k \in JobIds :
            /\ unjudged'[k] >= unjudged[k]
            /\ (status'[k] = "pending" => status[k] = "pending") \/ unjudged'[k] > unjudged[k]
    BY <1>0 DEF TypeOK
  <2>3. \A v \in Workers, k \in JobIds : claim'[v][k] \in {0, claim[v][k]}
    BY <1>0
  <2> QED  BY <1>0, <2>1, <2>2, <2>3, NoClaimKeepsTable
<1>2. ClaimsCurrent'
  BY <1>0 DEF TableInv, ClaimsCurrent, Holds
<1>3. InFlightNotDropped'
  BY <1>0 DEF TableInv, InFlightNotDropped, Holds
<1>7. QED
  BY <1>1, <1>2, <1>3 DEF TableInv

(* A claimed row (claim_batch) spends what a pending one has left; it may be
   retried once more when its new attempt is below max_attempts. *)
LEMMA ClaimedAccounted ==
    ASSUME TypeOK, TypeOK', RetriesAccounted, NEW j \in JobIds, status[j] = "pending",
           status'[j] = "in_progress", attempts'[j] = attempts[j] + 1, unjudged'[j] = unjudged[j],
           Cardinality(MayRetry(j)') \in Nat,
           Cardinality(MayRetry(j)') <= Cardinality(MayRetry(j)) + 1,
           attempts'[j] >= MaxAttempts => Cardinality(MayRetry(j)') <= Cardinality(MayRetry(j))
    PROVE  attempts'[j] + (IF status'[j] = "pending" THEN 1 ELSE 0) + Cardinality(MayRetry(j)')
               <= 1 + unjudged'[j]
                    + (IF attempts'[j] < MaxAttempts THEN attempts'[j] ELSE MaxAttempts - 1)
<1>1. attempts[j] + 1 + Cardinality(MayRetry(j))
          <= 1 + unjudged[j] + (IF attempts[j] < MaxAttempts THEN attempts[j] ELSE MaxAttempts - 1)
  BY DEF RetriesAccounted
<1>2. attempts[j] \in Nat /\ unjudged[j] \in Nat /\ MaxAttempts \in Nat
  BY JobQueueAssumption DEF TypeOK
<1>3. Cardinality(MayRetry(j)) \in Nat
  BY MayRetryCounts
<1> QED  BY <1>1, <1>2, <1>3

(* The claimed rows are pending ones, so no other claim on them is current, and
   no other claim on them has the new number. *)
LEMMA ClaimKeepsTable ==
    ASSUME TypeOK, TypeOK', OnlyBatchesHold, TableInv, NEW w \in Workers, ClaimBatch(w)
    PROVE  TableInv'
<1>0. /\ \A j \in JobIds : ~Holds(w, j)
      /\ Batch \subseteq JobIds
      /\ \A j \in Batch :
            /\ status[j] = "pending" /\ status'[j] = "in_progress" /\ ~stale'[j]
            /\ attempts'[j] = attempts[j] + 1 /\ claim'[w][j] = attempts[j] + 1
      /\ \A j \in JobIds \ Batch :
            /\ status'[j] = status[j] /\ stale'[j] = stale[j] /\ attempts'[j] = attempts[j]
            /\ claim'[w][j] = 0
      /\ \A v \in Workers \ {w} : claim'[v] = claim[v]
      /\ UNCHANGED <<nextId, unjudged, faults, lapsed>>
  BY DEF OnlyBatchesHold, Batch, Due, TypeOK, ClaimBatch, MarkClaimed, SetRows
<1>t. \A v \in Workers, j \in JobIds : claim[v][j] \in Nat /\ attempts[j] \in Nat
  BY DEF TypeOK
<1>1. FreshIds'
  <2> SUFFICES ASSUME NEW j \in JobIds, j >= nextId  PROVE status'[j] = "none" /\ ~Held(j)' /\ j \notin lapsed'
    BY <1>0 DEF FreshIds
  <2>1. status[j] = "none" /\ ~Held(j) /\ j \notin lapsed  BY DEF TableInv, FreshIds
  <2>2. j \notin Batch  BY <1>0, <2>1
  <2>3. ~Held(j)'  BY <1>0, <2>1, <2>2 DEF Held, Holds
  <2> QED  BY <1>0, <2>1, <2>2, <2>3
<1>2. ClaimsCurrent'
  <2> SUFFICES ASSUME NEW v \in Workers, NEW j \in JobIds \ lapsed', Holds(v, j)'
               PROVE  status'[j] = "in_progress" /\ ~stale'[j] /\ claim'[v][j] = attempts'[j]
    BY DEF ClaimsCurrent
  <2>1. CASE v = w  BY <1>0, <2>1 DEF Holds
  <2>2. CASE v # w
    <3>1. Holds(v, j)  BY <1>0, <2>2 DEF Holds
    <3>2. status[j] = "in_progress" /\ ~stale[j] /\ claim[v][j] = attempts[j]
      BY <1>0, <3>1 DEF TableInv, ClaimsCurrent
    <3> QED  BY <1>0, <2>2, <3>2
  <2> QED  BY <2>1, <2>2
<1>3. ClaimsNumbered'
  <2> SUFFICES ASSUME NEW j \in JobIds
               PROVE  /\ status'[j] = "none" => attempts'[j] = 0
                      /\ \A u \in Workers :
                           /\ status'[j] # "none" => claim'[u][j] <= attempts'[j]
                           /\ \A v \in Workers : Holds(v, j)' /\ claim'[v][j] = claim'[u][j] => v = u
    BY DEF ClaimsNumbered
  <2>1. /\ status[j] = "none" => attempts[j] = 0
        /\ \A u \in Workers :
             /\ status[j] # "none" => claim[u][j] <= attempts[j]
             /\ \A v \in Workers : claim[v][j] > 0 /\ claim[v][j] = claim[u][j] => v = u
    BY DEF TableInv, ClaimsNumbered, Holds
  <2>2. CASE j \in Batch
    <3>1. \A u \in Workers \ {w} : claim'[u][j] = claim[u][j] /\ claim[u][j] < attempts[j] + 1
      BY <1>0, <1>t, <2>1, <2>2
    <3> QED  BY <1>0, <1>t, <2>1, <2>2, <3>1 DEF Holds
  <2>3. CASE j \notin Batch
    <3>1. \A u \in Workers \ {w} : claim'[u][j] = claim[u][j]
      BY <1>0
    <3> QED  BY <1>0, <1>t, <2>1, <2>3, <3>1 DEF Holds
  <2> QED  BY <2>2, <2>3
<1>4. RetriesAccounted'
  <2> SUFFICES ASSUME NEW j \in JobIds, status'[j] # "none"
               PROVE  attempts'[j] + (IF status'[j] = "pending" THEN 1 ELSE 0) + Cardinality(MayRetry(j)')
                        <= 1 + unjudged'[j]
                             + (IF attempts'[j] < MaxAttempts THEN attempts'[j] ELSE MaxAttempts - 1)
    BY DEF RetriesAccounted
  <2>1. CASE j \in Batch
    <3>1. \A v \in Workers \ {w} : claim'[v][j] = claim[v][j]  BY <1>0
    <3>2. attempts'[j] \in Nat /\ claim'[w][j] = attempts'[j]  BY <1>0, <2>1 DEF TypeOK
    <3>3. /\ Cardinality(MayRetry(j)') \in Nat
          /\ Cardinality(MayRetry(j)') <= Cardinality(MayRetry(j)) + 1
          /\ attempts'[j] >= MaxAttempts => Cardinality(MayRetry(j)') <= Cardinality(MayRetry(j))
      BY <3>1, <3>2, OneMoreMayRetry
    <3> QED  BY <1>0, <2>1, <3>3, ClaimedAccounted DEF TableInv
  <2>2. CASE j \notin Batch
    <3>1. \A v \in Workers : claim'[v][j] \in {0, claim[v][j]}  BY <1>0, <2>2
    <3>2. Cardinality(MayRetry(j)') <= Cardinality(MayRetry(j)) /\ Cardinality(MayRetry(j)') \in Nat
      BY <3>1, FewerMayRetry
    <3>3. unjudged'[j] >= unjudged[j]  BY <1>0 DEF TypeOK
    <3> QED  BY <1>0, <2>2, <3>2, <3>3, RowAccounted DEF TableInv
  <2> QED  BY <2>1, <2>2
<1>6. InFlightNotDropped'
  <2>1. SUFFICES ASSUME faults = 0, NEW j \in JobIds, status'[j] = "in_progress"
                 PROVE  \E v \in Workers : claim'[v][j] > 0 /\ claim'[v][j] = attempts'[j]
    BY <1>0 DEF InFlightNotDropped, Holds
  <2>2. CASE j \in Batch
    <3>1. claim'[w][j] = attempts'[j] /\ claim'[w][j] > 0
      BY <1>0, <1>t, <2>2
    <3>2. QED
      BY <3>1
  <2>3. CASE j \notin Batch
    <3>1. PICK v \in Workers : claim[v][j] > 0 /\ claim[v][j] = attempts[j]
      BY <1>0, <2>1, <2>3 DEF TableInv, InFlightNotDropped, Holds
    <3>2. v # w /\ claim'[v][j] = claim[v][j] /\ attempts'[j] = attempts[j]
      BY <1>0, <2>3, <3>1 DEF Holds
    <3>3. QED
      BY <3>1, <3>2
  <2>4. QED
    BY <2>2, <2>3
<1>7. QED
  BY <1>1, <1>2, <1>3, <1>4, <1>6 DEF TableInv

(* A claim whose answer is lost (job_worker.rs logs and goes idle) leaves rows in
   progress that nobody holds; that is a fault. *)
LEMMA ClaimFailsKeepsTable ==
    ASSUME TypeOK, TypeOK', TableInv, NEW w \in Workers, ClaimFails(w)
    PROVE  TableInv'
<1>1. CASE UNCHANGED <<status, attempts, due, stale>>
  BY <1>1, QuietKeepsTable DEF ClaimFails, TypeOK
<1>2. CASE MarkClaimed
  <2>0. /\ Batch \subseteq JobIds
        /\ \A j \in Batch :
              /\ status[j] = "pending" /\ status'[j] = "in_progress"
              /\ attempts'[j] = attempts[j] + 1
        /\ \A j \in JobIds \ Batch :
              status'[j] = status[j] /\ stale'[j] = stale[j] /\ attempts'[j] = attempts[j]
        /\ UNCHANGED <<nextId, unjudged, claim, lapsed>>
        /\ faults' # 0
    <3>1. Batch \subseteq JobIds /\ \A j \in Batch : status[j] = "pending"
      BY DEF Batch, Due
    <3>2. UNCHANGED <<nextId, unjudged, claim, lapsed>> /\ faults' # 0
      BY DEF ClaimFails, TypeOK
    <3>3. /\ status' = [j \in JobIds |-> IF j \in Batch THEN "in_progress" ELSE status[j]]
          /\ stale' = [j \in JobIds |-> IF j \in Batch THEN FALSE ELSE stale[j]]
          /\ attempts' = [j \in JobIds |-> IF j \in Batch THEN attempts[j] + 1 ELSE attempts[j]]
      BY <1>2 DEF MarkClaimed, SetRows
    <3> QED  BY <3>1, <3>2, <3>3
  <2>1. FreshIds'
    BY <2>0 DEF TableInv, FreshIds, Held, Holds
  <2>2. ClaimsCurrent'
    BY <2>0 DEF TableInv, ClaimsCurrent, Holds
  <2>3. ClaimsNumbered'
    <3>1. \A j \in JobIds :
              /\ status'[j] = "none" <=> status[j] = "none"
              /\ status[j] = "none" => attempts'[j] = attempts[j]
              /\ attempts'[j] \in Nat /\ attempts[j] \in Nat /\ attempts'[j] >= attempts[j]
      BY <2>0 DEF TypeOK
    <3>2. \A v \in Workers, j \in JobIds : claim[v][j] \in Nat
      BY DEF TypeOK
    <3> QED  BY <2>0, <3>1, <3>2 DEF TableInv, ClaimsNumbered, Holds
  <2>4. RetriesAccounted'
    <3> SUFFICES ASSUME NEW j \in JobIds, status'[j] # "none"
                 PROVE  attempts'[j] + (IF status'[j] = "pending" THEN 1 ELSE 0) + Cardinality(MayRetry(j)')
                          <= 1 + unjudged'[j]
                               + (IF attempts'[j] < MaxAttempts THEN attempts'[j] ELSE MaxAttempts - 1)
      BY DEF RetriesAccounted
    <3>1. MayRetry(j)' = MayRetry(j) /\ Cardinality(MayRetry(j)) \in Nat
      BY <2>0, MayRetryCounts DEF MayRetry
    <3>2. CASE j \in Batch
      BY <2>0, <3>1, <3>2, ClaimedAccounted DEF TableInv
    <3>3. CASE j \notin Batch
      <4>1. unjudged'[j] >= unjudged[j]  BY <2>0 DEF TypeOK
      <4> QED  BY <2>0, <3>1, <3>3, <4>1, RowAccounted DEF TableInv
    <3> QED  BY <3>2, <3>3
  <2>6. InFlightNotDropped'
    BY <2>0 DEF InFlightNotDropped
  <2>7. QED
    BY <2>1, <2>2, <2>3, <2>4, <2>6 DEF TableInv
<1>3. QED
  BY <1>1, <1>2 DEF ClaimFails

(* Until its lock expires under a worker, a row has one holder: both claims would
   be its latest, and no two are the same. *)
LEMMA OneHolder ==
    ASSUME ClaimsCurrent, ClaimsNumbered, NEW v \in Workers, NEW w \in Workers,
           NEW j \in JobIds \ lapsed, Holds(v, j), Holds(w, j)
    PROVE  v = w
  BY DEF ClaimsCurrent, ClaimsNumbered

(* A worker that writes back gives up its claim, and no other worker has a
   current claim on the row. *)
LEMMA WriteBackKeepsTable ==
    ASSUME TypeOK, TypeOK', TableInv, NEW w \in Workers, NEW j \in JobIds, Holds(w, j),
           Drop(w, j), NEW s \in {"pending", "completed", "dead"}, NEW d,
           WriteBack(j, s, d), UNCHANGED <<faults, lapsed>>,
           \A k \in JobIds : unjudged'[k] >= unjudged[k],
           s = "pending" => claim[w][j] < MaxAttempts \/ unjudged'[j] > unjudged[j]
    PROVE  TableInv'
<1>0. /\ \A k \in JobIds \ {j} : status'[k] = status[k] /\ stale'[k] = stale[k]
      /\ status[j] = "none" => status'[j] = "none"
      /\ status[j] # "none" => status'[j] = s
      /\ \A v \in Workers, k \in JobIds : v # w \/ k # j => claim'[v][k] = claim[v][k]
      /\ claim'[w][j] = 0
      /\ UNCHANGED <<attempts, nextId, lapsed>>
  BY DEF TypeOK, Drop, WriteBack, SetRows
<1>1. FreshIds' /\ ClaimsNumbered' /\ RetriesAccounted'
  <2>1. \A k \in JobIds :
            \/ status'[k] = "none" /\ attempts'[k] = 0
            \/ status[k] # "none" /\ status'[k] # "none" /\ attempts'[k] = attempts[k]
    BY <1>0 DEF TableInv, ClaimsNumbered
  <2>2. s = "pending" =>
            unjudged'[j] > unjudged[j] \/ Cardinality(MayRetry(j)') < Cardinality(MayRetry(j))
    BY OneLessMayRetry DEF TableInv
  <2>3. \A k \in JobIds :
            /\ unjudged'[k] >= unjudged[k]
            /\ \/ status'[k] = "pending" => status[k] = "pending"
               \/ unjudged'[k] > unjudged[k]
               \/ Cardinality(MayRetry(k)') < Cardinality(MayRetry(k))
    BY <1>0, <2>2
  <2>4. \A v \in Workers, k \in JobIds : claim'[v][k] \in {0, claim[v][k]}
    BY <1>0
  <2> QED  BY <1>0, <2>1, <2>3, <2>4, NoClaimKeepsTable
<1>2. ClaimsCurrent'
  <2> SUFFICES ASSUME NEW v \in Workers, NEW k \in JobIds \ lapsed', Holds(v, k)'
               PROVE  status'[k] = "in_progress" /\ ~stale'[k] /\ claim'[v][k] = attempts'[k]
    BY DEF ClaimsCurrent
  <2>1. Holds(v, k) /\ claim'[v][k] = claim[v][k] /\ (v # w \/ k # j)
    BY <1>0 DEF Holds
  <2>2. k # j
    BY <1>0, <2>1, OneHolder DEF TableInv
  <2> QED  BY <1>0, <2>1, <2>2 DEF TableInv, ClaimsCurrent
<1>6. InFlightNotDropped'
  <2>1. ASSUME faults = 0, NEW k \in JobIds, status'[k] = "in_progress"
        PROVE  \E v \in Workers : claim'[v][k] > 0 /\ claim'[v][k] = attempts'[k]
    <3>1. k # j /\ status[k] = "in_progress" /\ attempts'[k] = attempts[k]
      BY <1>0, <2>1
    <3>2. PICK v \in Workers : claim[v][k] > 0 /\ claim[v][k] = attempts[k]
      BY <2>1, <3>1 DEF TableInv, InFlightNotDropped, Holds
    <3>3. claim'[v][k] = claim[v][k]
      BY <1>0, <3>1
    <3>4. QED
      BY <3>1, <3>2, <3>3
  <2>2. QED
    BY <2>1 DEF InFlightNotDropped, Holds
<1>7. QED
  BY <1>1, <1>2, <1>6 DEF TableInv

(* A worker that loses its write gives up its claim on a row that stays as it
   is; that is a fault. *)
LEMMA LostWriteKeepsTable ==
    ASSUME TypeOK, TypeOK', TableInv, faults' = faults + 1, UNCHANGED <<table, lapsed>>,
           \A v \in Workers, k \in JobIds : claim'[v][k] \in {0, claim[v][k]}
    PROVE  TableInv'
<1>0. UNCHANGED <<status, attempts, stale, nextId, unjudged, lapsed>>
  BY DEF table
<1>1. FreshIds' /\ ClaimsNumbered' /\ RetriesAccounted'
  <2>1. \A k \in JobIds :
            \/ status'[k] = "none" /\ attempts'[k] = 0
            \/ status[k] # "none" /\ status'[k] # "none" /\ attempts'[k] = attempts[k]
    BY <1>0 DEF TableInv, ClaimsNumbered
  <2>2. \A k \in JobIds :
            unjudged'[k] >= unjudged[k] /\ (status'[k] = "pending" => status[k] = "pending")
    BY <1>0 DEF TypeOK
  <2> QED  BY <1>0, <2>1, <2>2, NoClaimKeepsTable
<1>2. ASSUME NEW v \in Workers, NEW k \in JobIds, Holds(v, k)'
      PROVE  Holds(v, k) /\ claim'[v][k] = claim[v][k]
  BY <1>2 DEF Holds
<1>3. ClaimsCurrent'
  <2> SUFFICES ASSUME NEW v \in Workers, NEW k \in JobIds \ lapsed', Holds(v, k)'
               PROVE  status'[k] = "in_progress" /\ ~stale'[k] /\ claim'[v][k] = attempts'[k]
    BY DEF ClaimsCurrent
  <2>1. Holds(v, k) /\ claim'[v][k] = claim[v][k]
    BY <1>2
  <2>2. QED
    BY <1>0, <2>1 DEF TableInv, ClaimsCurrent
<1>6. InFlightNotDropped'
  BY DEF TypeOK, InFlightNotDropped
<1>7. QED
  BY <1>1, <1>3, <1>6 DEF TableInv

(* Every step keeps what the rows and the claims have to do with each other. *)
LEMMA TableStep ==
    ASSUME QueueInv, [Next]_vars
    PROVE  TableInv'
<1> USE DEF QueueInv
<1>0. TypeOK /\ TableInv /\ OnlyBatchesHold /\ TypeOK'
  BY TypeStep DEF TableInv
<1>1. CASE Enqueue
  BY <1>0, <1>1, InsertKeepsTable DEF Enqueue
<1>2. CASE EnqueueConfigSyncUnique
  BY <1>0, <1>2, InsertKeepsTable DEF EnqueueConfigSyncUnique
<1>3. CASE GcOld
  BY <1>0, <1>3, GcKeepsTable
<1>4. ASSUME NEW j \in JobIds, BecomeDue(j)  PROVE TableInv'
  BY <1>0, <1>4, QuietKeepsTable DEF BecomeDue, procs, TypeOK
<1>5. ASSUME NEW j \in JobIds, OrphanLockExpires(j) \/ HeldLockExpires(j)
      PROVE  TableInv'
  BY <1>0, <1>5, LockExpiresKeepsTable
<1>6. ASSUME NEW w \in Workers, LoopHead(w) \/ SkipReap(w) \/ ClaimNothing(w)
                 \/ Wake(w) \/ StopIdle(w) \/ BatchDone(w)
      PROVE  TableInv'
  BY <1>0, <1>6, QuietKeepsTable
     DEF LoopHead, SkipReap, ClaimNothing, Wake, StopIdle, BatchDone, table, TypeOK
<1>7. ASSUME NEW w \in Workers, ReapStuck(w)  PROVE TableInv'
  BY <1>0, <1>7, ReapKeepsTable
<1>8. ASSUME NEW w \in Workers, ClaimBatch(w)  PROVE TableInv'
  BY <1>0, <1>8, ClaimKeepsTable
<1>9. ASSUME NEW w \in Workers, ClaimFails(w)  PROVE TableInv'
  BY <1>0, <1>9, ClaimFailsKeepsTable
<1>10. ASSUME NEW w \in Workers, NEW j \in JobIds, Dispatch(w, j)  PROVE TableInv'
  BY <1>0, <1>10, QuietKeepsTable DEF Dispatch, table, TypeOK
<1>11. ASSUME NEW w \in Workers, NEW j \in JobIds, Release(w, j)  PROVE TableInv'
  <2>1. /\ \A k \in JobIds : unjudged'[k] >= unjudged[k]
        /\ unjudged' \in [JobIds -> Nat]
        /\ unjudged'[j] > unjudged[j]
    BY <1>0, <1>11 DEF Release, TypeOK
  <2>2. Holds(w, j) /\ Drop(w, j) /\ WriteBack(j, "pending", FALSE) /\ UNCHANGED <<faults, lapsed>>
    BY <1>11 DEF Release
  <2>3. QED
    BY <1>0, <2>1, <2>2, WriteBackKeepsTable
<1>12. ASSUME NEW w \in Workers, NEW j \in JobIds,
              Complete(w, j) \/ FailDead(w, j) \/ FailRetry(w, j)
       PROVE  TableInv'
  <2>1. /\ Holds(w, j) /\ Drop(w, j)
        /\ UNCHANGED <<unjudged, faults, lapsed>>
    BY <1>0, <1>12 DEF Complete, FailDead, FailRetry, Settle, OnlyBatchesHold
  <2>2. /\ \A k \in JobIds : unjudged'[k] >= unjudged[k]
        /\ unjudged' \in [JobIds -> Nat]
    BY <1>0, <2>1 DEF TypeOK
  <2>3. CASE Complete(w, j)
    BY <1>0, <2>1, <2>2, <2>3, WriteBackKeepsTable DEF Complete
  <2>4. CASE FailDead(w, j)
    BY <1>0, <2>1, <2>2, <2>4, WriteBackKeepsTable DEF FailDead
  <2>5. CASE FailRetry(w, j)
    BY <1>0, <2>1, <2>2, <2>5, WriteBackKeepsTable DEF FailRetry
  <2>6. QED
    BY <1>12, <2>3, <2>4, <2>5
<1>13. ASSUME NEW w \in Workers, NEW j \in JobIds, ReleaseFails(w, j) \/ SettleFails(w, j)
       PROVE  TableInv'
  <2>1. faults' = faults + 1 /\ UNCHANGED <<table, lapsed>> /\ Drop(w, j)
    BY <1>13 DEF ReleaseFails, SettleFails, Settle
  <2>2. \A v \in Workers, k \in JobIds : claim'[v][k] \in {0, claim[v][k]}
    BY <1>0, <2>1 DEF Drop, TypeOK
  <2>3. QED
    BY <1>0, <2>1, <2>2, LostWriteKeepsTable
<1>14. ASSUME NEW r \in Replicas, Trigger(r) \/ Exit(r) \/ Start(r)  PROVE TableInv'
  BY <1>0, <1>14, QuietKeepsTable DEF Trigger, Exit, Start, table, procs, TypeOK
<1>15. ASSUME NEW r \in Replicas, Crash(r)  PROVE TableInv'
  <2>1. faults' = faults + 1 /\ UNCHANGED <<table, lapsed>>
    BY <1>15 DEF Crash
  <2>2. \A v \in Workers, k \in JobIds : claim'[v][k] \in {0, claim[v][k]}
    BY <1>0, <1>15 DEF Crash, TypeOK
  <2>3. QED
    BY <1>0, <2>1, <2>2, LostWriteKeepsTable
<1>16. CASE UNCHANGED vars
  BY <1>0, <1>16, QuietKeepsTable DEF vars, TypeOK
<1>17. QED
  BY <1>1, <1>2, <1>3, <1>4, <1>5, <1>6, <1>7, <1>8, <1>9, <1>10, <1>11, <1>12,
     <1>13, <1>14, <1>15, <1>16
     DEF Next, Produce, Time, WorkerStep, WorkerFault, Replica

-----------------------------------------------------------------------------
(* QueueInv is an inductive invariant. *)
THEOREM QueueInvariant == Spec => []QueueInv
<1>1. Init => QueueInv
  <2> SUFFICES ASSUME Init PROVE QueueInv
    OBVIOUS
  <2>1. TypeOK
    BY JobQueueAssumption DEF Init, TypeOK, Status
  <2>2. FreshIds /\ OnlyBatchesHold /\ DownIsStopped /\ ClaimsCurrent /\ ClaimsNumbered
    BY JobQueueAssumption
       DEF Init, FreshIds, OnlyBatchesHold, DownIsStopped, ClaimsCurrent, ClaimsNumbered, Held, Holds
  <2>3. RetriesAccounted /\ InFlightNotDropped
    BY JobQueueAssumption DEF Init, RetriesAccounted, InFlightNotDropped
  <2>4. QED
    BY <2>1, <2>2, <2>3 DEF QueueInv
<1>2. QueueInv /\ [Next]_vars => QueueInv'
  BY TypeStep, ControlStep, TableStep DEF QueueInv, TableInv
<1>3. QED
  BY <1>1, <1>2, PTL DEF Spec

(* The variables of the queue keep their types, whatever happens. *)
THEOREM TypeCorrect == Spec => []TypeOK
  BY QueueInvariant, PTL DEF QueueInv

(* Shutdown drops no in-flight job: without a crash or a lost write, every row
   in progress is still in some worker's batch. *)
THEOREM NothingDropped == Spec => []InFlightNotDropped
  BY QueueInvariant, PTL DEF QueueInv

(* No two workers run the same job, but for the jobs whose lock has expired under
   a worker: none of those makes another job run twice. *)
THEOREM SingleProcessing == Spec => []NoDoubleProcessing
<1>1. QueueInv => NoDoubleProcessing
  BY OneHolder DEF QueueInv, OnlyBatchesHold, NoDoubleProcessing
<1>2. QED
  BY <1>1, QueueInvariant, PTL

(* The reaper and the release on shutdown are the only ways past max_attempts,
   and each lets a job through once: however long a job runs, and whichever
   worker writes its verdict last. *)
THEOREM AttemptsLimited == Spec => []AttemptsBounded
<1>1. QueueInv => AttemptsBounded
  <2> SUFFICES ASSUME QueueInv, NEW j \in JobIds
               PROVE  attempts[j] <= MaxAttempts + unjudged[j]
    BY DEF AttemptsBounded
  <2>1. attempts[j] \in Nat /\ unjudged[j] \in Nat /\ MaxAttempts \in Nat \ {0}
    BY JobQueueAssumption DEF QueueInv, TypeOK
  <2>2. CASE status[j] = "none"
    BY <2>1, <2>2 DEF QueueInv, ClaimsNumbered
  <2>3. CASE status[j] # "none"
    <3>1. attempts[j] + (IF status[j] = "pending" THEN 1 ELSE 0) + Cardinality(MayRetry(j))
              <= 1 + unjudged[j]
                   + (IF attempts[j] < MaxAttempts THEN attempts[j] ELSE MaxAttempts - 1)
      BY <2>3 DEF QueueInv, RetriesAccounted
    <3>2. Cardinality(MayRetry(j)) \in Nat
      BY MayRetryCounts
    <3> QED  BY <2>1, <3>1, <3>2
  <2> QED  BY <2>2, <2>3
<1>2. QED
  BY <1>1, QueueInvariant, PTL

-----------------------------------------------------------------------------
(* Refinement of JobLease.                                                 *)

(* Until it lapses, the lease of a job is with the one worker that holds it. *)
LEMMA OwnerIsHolder ==
    ASSUME QueueInv, NEW j \in JobIds \ lapsed
    PROVE  /\ \A w \in Workers : Holds(w, j) => Owner(j) = w
           /\ ~Held(j) => Owner(j) = NoWorker
           /\ Held(j) => status[j] = "in_progress" /\ ~stale[j]
<1>1. ASSUME NEW w \in Workers, Holds(w, j)  PROVE Owner(j) = w
  BY <1>1, OneHolder DEF Owner, Held, QueueInv
<1>2. ~Held(j) => Owner(j) = NoWorker
  BY DEF Owner
<1>3. Held(j) => status[j] = "in_progress" /\ ~stale[j]
  BY DEF Held, QueueInv, ClaimsCurrent
<1>4. QED
  BY <1>1, <1>2, <1>3

(* A lease that does not lapse only changes hands with the claims. *)
LEMMA SameClaimsSameOwner ==
    ASSUME NEW j \in JobIds, UNCHANGED lapsed, \A w \in Workers : claim'[w][j] = claim[w][j]
    PROVE  Owner(j)' = Owner(j)
  BY DEF Owner, Held, Holds

(* Nothing is leased of a job that lapsed. *)
LEMMA LapsedIsNobodys ==
    ASSUME NEW j \in lapsed
    PROVE  Owner(j) = NoWorker /\ Leased(j) = "lapsed"
  BY DEF Owner, Leased

(* Every step of the queue is a step of JobLease or leaves the leases alone. *)
LEMMA LeaseStep ==
    ASSUME QueueInv, QueueInv', [Next]_vars
    PROVE  [Lease!Next]_Lease!leaseVars
<1> DEFINE stutter == \A j \in JobIds : Leased(j)' = Leased(j) /\ Owner(j)' = Owner(j)
<1>0. TypeOK /\ OnlyBatchesHold /\ TypeOK'
  BY DEF QueueInv
<1>h. ASSUME NEW u \in Workers, NEW v \in Workers, NEW j \in JobIds \ lapsed',
             Holds(u, j)', Holds(v, j)'
      PROVE  u = v
  BY <1>h DEF QueueInv, ClaimsCurrent, ClaimsNumbered
<1>s. stutter => [Lease!Next]_Lease!leaseVars
  BY DEF Lease!leaseVars
<1>1. ASSUME NEW now, Insert(now)  PROVE Lease!Next
  <2>1. nextId \in JobIds \ lapsed /\ status[nextId] = "none" /\ ~Held(nextId)
    <3>1. nextId \in JobIds
      BY <1>0, <1>1, JobQueueAssumption DEF Insert, JobIds, TypeOK
    <3>2. nextId >= nextId
      BY <1>0, JobQueueAssumption DEF TypeOK
    <3> QED  BY <3>1, <3>2 DEF QueueInv, FreshIds
  <2>2. Leased(nextId) = "none" /\ Owner(nextId) = NoWorker
    BY <2>1, OwnerIsHolder DEF Leased
  <2>3. \A j \in JobIds : Leased(j)' = IF j = nextId THEN "pending" ELSE Leased(j)
    BY <1>1, <2>1 DEF Insert, SetRows, Leased
  <2>4. \A j \in JobIds : Owner(j)' = Owner(j)
    BY <1>1, SameClaimsSameOwner DEF Insert, procs
  <2>5. Lease!Insert(nextId)
    BY <2>1, <2>2, <2>3, <2>4 DEF Lease!Insert
  <2> QED  BY <2>1, <2>5 DEF Lease!Next
<1>2. CASE GcOld
  <2>1. PICK old \in SUBSET {j \in JobIds : Terminal(j)} : SetRows(old, "none", FALSE)
    BY <1>2 DEF GcOld
  <2> DEFINE S == old \ lapsed
  <2>2. UNCHANGED lapsed /\ \A j \in JobIds : Owner(j)' = Owner(j)
    BY <1>2, SameClaimsSameOwner DEF GcOld, procs
  <2>3. /\ \A j \in S : Leased(j) \in {"completed", "dead"}
        /\ \A j \in JobIds : Leased(j)' = IF j \in S THEN "none" ELSE Leased(j)
    BY <2>1, <2>2 DEF SetRows, Terminal, Leased
  <2>4. S \subseteq JobIds
    OBVIOUS
  <2>5. Lease!Delete(S)
    BY <2>2, <2>3, <2>4 DEF Lease!Delete
  <2> QED  BY <2>4, <2>5 DEF Lease!Next
<1>3. ASSUME UNCHANGED <<status, claim, lapsed>>  PROVE stutter
  BY <1>3, SameClaimsSameOwner DEF Leased
<1>4. ASSUME NEW w \in Workers, ReapStuck(w)  PROVE Lease!Next
  <2> DEFINE S == Stuck \ lapsed
  <2>1. S \subseteq JobIds /\ \A j \in S : Leased(j) = "in_progress" /\ Owner(j) = NoWorker
    BY OwnerIsHolder DEF Stuck, Leased
  <2>2. UNCHANGED lapsed /\ \A j \in JobIds : Owner(j)' = Owner(j)
    BY <1>4, SameClaimsSameOwner DEF ReapStuck
  <2>3. \A j \in JobIds : Leased(j)' = IF j \in S THEN "pending" ELSE Leased(j)
    BY <1>4, <2>2 DEF ReapStuck, SetRows, Leased
  <2>4. Lease!Recover(S)
    BY <2>1, <2>2, <2>3 DEF Lease!Recover
  <2> QED  BY <2>1, <2>4 DEF Lease!Next
<1>5. ASSUME NEW w \in Workers, ClaimBatch(w)  PROVE Lease!Next
  <2> DEFINE S == Batch \ lapsed
  <2>0. UNCHANGED lapsed
    BY <1>5 DEF ClaimBatch
  <2>1. S \subseteq JobIds /\ \A j \in S : Leased(j) = "pending"
    BY DEF Batch, Due, Leased
  <2>2. \A j \in JobIds : Leased(j)' = IF j \in S THEN "in_progress" ELSE Leased(j)
    BY <1>5, <2>0 DEF ClaimBatch, MarkClaimed, SetRows, Leased
  <2>3. ASSUME NEW j \in JobIds
        PROVE  Owner(j)' = IF j \in S THEN w ELSE Owner(j)
    <3>1. CASE j \in S
      <4>1. Holds(w, j)'
        BY <1>0, <1>5, <3>1 DEF ClaimBatch, TypeOK, Holds
      <4>2. \A v \in Workers : Holds(v, j)' => v = w
        BY <2>0, <3>1, <4>1, <1>h
      <4> QED  BY <2>0, <3>1, <4>1, <4>2 DEF Owner, Held
    <3>2. CASE j \notin Batch
      <4>1. claim'[w] = [k \in JobIds |-> IF k \in Batch THEN attempts[k] + 1 ELSE 0]
            /\ \A v \in Workers \ {w} : claim'[v] = claim[v]
        BY <1>0, <1>5 DEF ClaimBatch, TypeOK
      <4>2. claim[w][j] = 0
        <5>1. pc[w] = "claim"
          BY <1>5 DEF ClaimBatch
        <5>2. ~Holds(w, j)
          BY <1>0, <5>1 DEF OnlyBatchesHold
        <5>3. claim[w][j] \in Nat
          BY <1>0 DEF TypeOK
        <5> QED  BY <5>2, <5>3 DEF Holds
      <4>3. \A v \in Workers : claim'[v][j] = claim[v][j]
        BY <4>1, <4>2, <3>2
      <4> QED  BY <2>0, <3>2, <4>3, SameClaimsSameOwner
    <3>3. CASE j \in lapsed
      BY <2>0, <3>3 DEF Owner
    <3> QED  BY <3>1, <3>2, <3>3
  <2>4. Lease!Take(S, w)
    BY <2>1, <2>2, <2>3 DEF Lease!Take
  <2> QED  BY <2>1, <2>4 DEF Lease!Next
<1>6. ASSUME NEW w \in Workers, ClaimFails(w)  PROVE stutter \/ Lease!Next
  <2>0. UNCHANGED <<claim, lapsed>>
    BY <1>6 DEF ClaimFails
  <2>1. CASE UNCHANGED <<status, attempts, due, stale>>
    BY <1>3, <2>0, <2>1
  <2>2. CASE MarkClaimed
    <3> DEFINE S == Batch \ lapsed
    <3>1. S \subseteq JobIds /\ \A j \in S : status[j] = "pending"
      BY DEF Batch, Due
    <3>2. \A j \in S : Leased(j) = "pending" /\ Owner(j) = NoWorker
      BY <3>1, OwnerIsHolder DEF Leased
    <3>3. \A j \in JobIds : Owner(j)' = Owner(j)
      BY <2>0, SameClaimsSameOwner
    <3>4. \A j \in JobIds : Leased(j)' = IF j \in S THEN "in_progress" ELSE Leased(j)
      BY <2>0, <2>2 DEF MarkClaimed, SetRows, Leased
    <3>5. Lease!Take(S, NoWorker)
      BY <3>1, <3>2, <3>3, <3>4 DEF Lease!Take
    <3> QED  BY <3>1, <3>5 DEF Lease!Next
  <2> QED  BY <1>6, <2>1, <2>2 DEF ClaimFails
<1>7. ASSUME NEW w \in Workers, NEW j \in JobIds, Holds(w, j), Drop(w, j), UNCHANGED lapsed,
             NEW s \in {"pending", "completed", "dead"}, NEW d, WriteBack(j, s, d)
      PROVE  stutter \/ Lease!Next
  <2>1. \A k \in JobIds \ {j} : Owner(k)' = Owner(k)
    BY <1>0, <1>7, SameClaimsSameOwner DEF Drop, TypeOK
  <2>2. \A k \in JobIds \ {j} : Leased(k)' = Leased(k)
    BY <1>7 DEF WriteBack, SetRows, Leased
  <2>3. CASE j \in lapsed
    <3>1. /\ Owner(j) = NoWorker /\ Leased(j) = "lapsed"
          /\ Owner(j)' = NoWorker /\ Leased(j)' = "lapsed"
      BY <1>7, <2>3 DEF Owner, Leased
    <3> QED  BY <2>1, <2>2, <3>1
  <2>4. CASE j \notin lapsed
    <3>1. status[j] = "in_progress" /\ Leased(j) = "in_progress" /\ Owner(j) = w
      BY <1>7, <2>4, OwnerIsHolder DEF Held, Leased
    <3>2. Leased(j)' = s
      BY <1>7, <2>4, <3>1 DEF WriteBack, SetRows, Leased
    <3>3. Owner(j)' = NoWorker
      <4>1. \A v \in Workers : ~Holds(v, j)'
        BY <1>0, <1>7, <2>4, OneHolder DEF Drop, Holds, TypeOK, QueueInv
      <4> QED  BY <4>1 DEF Owner, Held
    <3>4. Lease!Finish(j, w, s)
      BY <2>1, <2>2, <3>1, <3>2, <3>3 DEF Lease!Finish
    <3> QED  BY <3>4 DEF Lease!Next
  <2> QED  BY <2>3, <2>4
<1>8. ASSUME UNCHANGED <<status, lapsed>>,
             \A v \in Workers, k \in JobIds : claim'[v][k] \in {0, claim[v][k]}
      PROVE  Lease!Next
  <2> DEFINE lost == {k \in JobIds \ lapsed : Held(k) /\ ~Held(k)'}
  <2>1. ASSUME NEW k \in JobIds
        PROVE  Owner(k)' = IF k \in lost THEN NoWorker ELSE Owner(k)
    <3>1. CASE k \in lapsed
      BY <1>8, <3>1 DEF Owner
    <3>2. CASE k \notin lapsed /\ ~Held(k)'
      BY <3>2, OwnerIsHolder DEF Owner
    <3>3. CASE k \notin lapsed /\ Held(k)'
      <4>1. PICK v \in Workers : Holds(v, k)'
        BY <3>3 DEF Held
      <4>2. Holds(v, k)
        BY <1>8, <4>1 DEF Holds
      <4>3. Owner(k) = v
        BY <3>3, <4>2, OwnerIsHolder
      <4>4. \A u \in Workers : Holds(u, k)' => u = v
        BY <1>8, <3>3, <4>1, <1>h
      <4>5. Owner(k)' = v
        BY <1>8, <3>3, <4>1, <4>4 DEF Owner
      <4> QED  BY <3>3, <4>3, <4>5
    <3> QED  BY <3>1, <3>2, <3>3
  <2>2. \A k \in JobIds : Leased(k)' = Leased(k)
    BY <1>8 DEF Leased
  <2>3. Lease!Abandon(lost)
    BY <2>1, <2>2 DEF Lease!Abandon
  <2> QED  BY <2>3 DEF Lease!Next
<1>9. CASE Produce
  BY <1>1, <1>2, <1>9
     DEF Produce, Enqueue, EnqueueConfigSyncUnique
<1>10. ASSUME NEW j \in JobIds, Time(j)  PROVE stutter \/ Lease!Next
  <2>1. CASE BecomeDue(j) \/ OrphanLockExpires(j)
    BY <1>3, <2>1 DEF BecomeDue, OrphanLockExpires, LockExpires, procs
  <2>2. CASE HeldLockExpires(j)
    <3>1. /\ Held(j) /\ status[j] = "in_progress"
          /\ lapsed' = lapsed \union {j} /\ UNCHANGED <<status, claim>>
      BY <2>2 DEF HeldLockExpires, LockExpires, procs
    <3>2. \A k \in JobIds \ {j} : Leased(k)' = Leased(k) /\ Owner(k)' = Owner(k)
      BY <3>1 DEF Leased, Owner, Held, Holds
    <3>3. Leased(j)' = "lapsed" /\ Owner(j)' = NoWorker
      BY <3>1 DEF Leased, Owner
    <3>4. CASE j \in lapsed
      BY <3>2, <3>3, <3>4, LapsedIsNobodys
    <3>5. CASE j \notin lapsed
      <4>1. PICK w \in Workers : Holds(w, j)
        BY <3>1 DEF Held
      <4>2. Owner(j) = w /\ Leased(j) = "in_progress"
        BY <3>1, <3>5, <4>1, OwnerIsHolder DEF Leased
      <4>3. w # NoWorker
        BY JobQueueAssumption
      <4>4. Lease!Lapse(j)
        <5>1. Owner(j) # NoWorker
          BY <4>2, <4>3
        <5>2. \A k \in JobIds : Leased(k)' = IF k = j THEN "lapsed" ELSE Leased(k)
          BY <3>2, <3>3
        <5>3. \A k \in JobIds : Owner(k)' = IF k = j THEN NoWorker ELSE Owner(k)
          BY <3>2, <3>3
        <5> QED  BY <4>2, <5>1, <5>2, <5>3 DEF Lease!Lapse
      <4> QED  BY <4>4 DEF Lease!Next
    <3> QED  BY <3>4, <3>5
  <2> QED  BY <1>10, <2>1, <2>2 DEF Time
<1>11. ASSUME NEW w \in Workers, WorkerStep(w)  PROVE stutter \/ Lease!Next
  <2>1. CASE LoopHead(w) \/ SkipReap(w) \/ ClaimNothing(w) \/ Wake(w) \/ StopIdle(w) \/ BatchDone(w)
    BY <1>3, <2>1 DEF LoopHead, SkipReap, ClaimNothing, Wake, StopIdle, BatchDone, table
  <2>2. ASSUME NEW j \in JobIds, Dispatch(w, j)  PROVE stutter
    BY <1>3, <2>2 DEF Dispatch, table
  <2>3. ASSUME NEW j \in JobIds, Release(w, j)  PROVE stutter \/ Lease!Next
    BY <1>7, <2>3 DEF Release
  <2>4. ASSUME NEW j \in JobIds, Complete(w, j) \/ FailDead(w, j) \/ FailRetry(w, j)
        PROVE  stutter \/ Lease!Next
    <3>1. Holds(w, j) /\ Drop(w, j) /\ UNCHANGED lapsed
      BY <1>0, <2>4 DEF Complete, FailDead, FailRetry, Settle, OnlyBatchesHold
    <3>2. QED
      BY <1>7, <2>4, <3>1 DEF Complete, FailDead, FailRetry
  <2>5. QED
    BY <1>4, <1>5, <1>11, <2>1, <2>2, <2>3, <2>4 DEF WorkerStep
<1>12. ASSUME NEW w \in Workers, WorkerFault(w)  PROVE stutter \/ Lease!Next
  <2>1. ASSUME NEW j \in JobIds, ReleaseFails(w, j) \/ SettleFails(w, j)  PROVE Lease!Next
    <3>1. UNCHANGED <<status, lapsed>> /\ Drop(w, j)
      BY <2>1 DEF ReleaseFails, SettleFails, Settle, table
    <3>2. \A v \in Workers, k \in JobIds : claim'[v][k] \in {0, claim[v][k]}
      BY <1>0, <3>1 DEF Drop, TypeOK
    <3>3. QED
      BY <1>8, <3>1, <3>2
  <2>2. QED
    BY <1>6, <1>12, <2>1 DEF WorkerFault
<1>13. ASSUME NEW r \in Replicas, Replica(r)  PROVE stutter \/ Lease!Next
  <2>1. CASE Trigger(r) \/ Exit(r) \/ Start(r)
    BY <1>3, <2>1 DEF Trigger, Exit, Start, table, procs
  <2>2. CASE Crash(r)
    <3>1. UNCHANGED <<status, lapsed>>
      BY <2>2 DEF Crash, table
    <3>2. \A v \in Workers, k \in JobIds : claim'[v][k] \in {0, claim[v][k]}
      BY <1>0, <2>2 DEF Crash, TypeOK
    <3>3. QED
      BY <1>8, <3>1, <3>2
  <2>3. QED
    BY <1>13, <2>1, <2>2 DEF Replica
<1>14. CASE UNCHANGED vars
  BY <1>s, <1>3, <1>14 DEF vars
<1>15. QED
  BY <1>s, <1>9, <1>10, <1>11, <1>12, <1>13, <1>14 DEF Next

(* The queue implements JobLease: N replicas drain in parallel, one worker at a
   time has a job and settles it, and the reaper takes only what nobody holds,
   but for the jobs whose lock expires under a worker. *)
THEOREM QueueKeepsLease == Spec => KeepsLease
<1>1. Init => Lease!Init
  BY DEF Init, Lease!Init, Owner, Held, Holds, Leased
<1>2. QueueInv /\ QueueInv' /\ [Next]_vars => [Lease!Next]_Lease!leaseVars
  BY LeaseStep
<1>3. QED
  BY <1>1, <1>2, QueueInvariant, PTL DEF Spec, KeepsLease, Lease!Spec
=============================================================================
