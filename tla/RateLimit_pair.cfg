SPECIFICATION Spec
CONSTANTS
    c1 = c1
    c2 = c2
    c3 = c3
    Chargers = {c1, c2}
    Ops = {"workflow", "upload", "snapshot"}
    Amounts = {1, 2}
    CapDefault = 3
    CapFree = 2
    CapPro = 3
    Window = 1
    MaxNow = 2
    MaxFaults = 1
SYMMETRY Symmetry
INVARIANTS
    CountersWithinCap
    UploadsCounted
CHECK_DEADLOCK FALSE
