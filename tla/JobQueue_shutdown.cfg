SPECIFICATION FairSpec
CONSTANTS
    w1 = w1
    w2 = w2
    r1 = r1
    r2 = r2
    l1 = l1
    NoLink = NoLink
    NoWorker = NoWorker
    Workers = {w1, w2}
    Replicas = {r1}
    Payload <- OneLink
    Home <- OneReplica
    BatchSize = 2
    MaxAttempts = 2
    MaxJobs = 1
    MaxFaults = 0
    MaxTriggers = 1
PROPERTIES
    ShutdownCompletes
