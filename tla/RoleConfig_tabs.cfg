SPECIFICATION Spec
CONSTANTS
    t1 = t1
    t2 = t2
    unset = unset
    x = x
    y = y
    NoTab = NoTab
    Tabs = {t1, t2}
    Trees = {unset, x, y}
    Unset = unset
    Default = x
    MaxSaves = 2
    MaxRows = 2
    MaxFaults = 1
SYMMETRY SwapTabs
INVARIANTS
    TypeOK
    ChangesAreSynced
PROPERTY LoadedTabsNeverClobber
CHECK_DEADLOCK FALSE
