SPECIFICATION HSpec
CONSTANTS
    Members = {1, 2}
    l1 = l1
    w1 = w1
    Links = {l1}
    Workers = {w1}
    Limit = 2
    Changes <- EveryChange
    MaxChanges = 2
    Faults <- EveryFault
    MaxFaults = 1
    MaxToken = 2
INVARIANTS
    SteadyInv
    ReadInv
    CalmInv
PROPERTIES
    SteadyKeepRole
    NoGroundlessGrant
    UndisturbedJobsSettle
    LinksAreNotForgotten
CHECK_DEADLOCK FALSE
