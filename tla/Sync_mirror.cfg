SPECIFICATION MFairSpec
CONSTANTS
    Members = {1}
    l1 = l1
    w1 = w1
    w2 = w2
    Links = {l1}
    Workers = {w1, w2}
    Limit = 1
    Changes = {"birthday", "rule", "link", "restore"}
    MaxChanges = 2
    Faults = {"upstream", "lost_answer", "lost_write", "crash"}
    MaxFaults = 1
    MaxToken = 2
INVARIANTS
    TypeOK
    MirrorExact
PROPERTIES
    MirrorConverges
    OrphanRemoved
    UpstreamConverges
CHECK_DEADLOCK FALSE
