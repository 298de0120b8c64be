SPECIFICATION FairSpec
CONSTANTS
    w1 = w1
    w2 = w2
    r1 = r1
    r2 = r2
    l1 = l1
    NoLink = NoLink
    NoWorker = NoWorker
    Workers = {w1, w2}
    Replicas = {r1, r2}
    Payload <- OneLink
    Home <- TwoReplicas
    BatchSize = 2
    MaxAttempts = 2
    MaxJobs = 2
    MaxFaults = 1
    MaxTriggers = 1
INVARIANTS
    TypeOK
    InFlightNotDropped
    NoDoubleProcessing
    QueueInv
    AttemptsBounded
PROPERTIES
    KeepsLease
    EveryJobSettles
