SPECIFICATION FairSpec
CONSTANTS
    Members = {1}
    l1 = l1
    w1 = w1
    w2 = w2
    Links = {l1}
    Workers = {w1, w2}
    Limit = 1
    Changes = {"birthday"}
    MaxChanges = 3
    Faults = {}
    MaxFaults = 0
    MaxToken = 1
PROPERTY UnlinkTakesRolesAway
CHECK_DEADLOCK FALSE
