SPECIFICATION Spec
CONSTANTS
    r1 = r1
    r2 = r2
    job = job
    Worker = job
    Requesters = {r1, r2}
    Ops = {"rename", "touch", "select", "edit", "overwrite", "refine", "saveRun", "saveVersion", "delete"}
    MaxIds = 4
    MaxFaults = 1
SYMMETRY Symmetry
INVARIANTS
    RunsCoherent
    DeletedNotCached
CHECK_DEADLOCK FALSE
