SPECIFICATION SyncSpec
CONSTANTS
    s1 = s1
    s2 = s2
    c1 = c1
    Syncers = {s1}
    Chargers = {c1}
    Ops = {"messages"}
    Amounts = {1}
    CapDefault = 2
    CapFree = 1
    CapPro = 3
    Window = 2
    MaxNow = 2
    MaxFaults = 0
    MaxChanges = 0
    MaxExpiries = 2
SYMMETRY Symmetry
INVARIANTS
    WipedOncePerPeriod
CHECK_DEADLOCK FALSE
