SPECIFICATION Spec
CONSTANTS
    t1 = t1
    t2 = t2
    unset = unset
    x = x
    y = y
    NoTab = NoTab
    Tabs = {t1, t2}
    Trees = {unset, x, y}
    Unset = unset
    Default = x
    MaxSaves = 3
    MaxRows = 1
    MaxFaults = 0
SYMMETRY SwapTabs
PROPERTY NoSilentClobber
CHECK_DEADLOCK FALSE
