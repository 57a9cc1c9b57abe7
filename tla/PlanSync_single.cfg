SPECIFICATION PollingSpec
CONSTANTS
    s1 = s1
    s2 = s2
    c1 = c1
    Syncers = {s1}
    Chargers = {c1}
    Ops = {"snapshot"}
    Amounts = {1}
    CapDefault = 2
    CapFree = 1
    CapPro = 3
    Window = 1
    MaxNow = 3
    MaxFaults = 1
    MaxChanges = 2
    MaxExpiries = 1
INVARIANTS
    RenewalWipesOnce
PROPERTIES
    EventuallyInSync
CHECK_DEADLOCK FALSE
