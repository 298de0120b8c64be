SPECIFICATION FairSpec
CONSTANTS
    Members = {1}
    l1 = l1
    w1 = w1
    w2 = w2
    Links = {l1}
    Workers = {w1}
    Limit = 1
    Changes = {"restore"}
    MaxChanges = 1
    Faults = {}
    MaxFaults = 0
    MaxToken = 1
PROPERTY RestoreReconverges
CHECK_DEADLOCK FALSE
