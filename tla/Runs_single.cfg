SPECIFICATION FairSpec
CONSTANTS
    r1 = r1
    r2 = r2
    job = job
    Worker = job
    Requesters = {r1}
    Ops = {"touch", "select", "edit", "overwrite", "refine", "saveRun", "saveVersion", "delete"}
    MaxIds = 7
    MaxFaults = 0
INVARIANTS
    NoOrphanArtifacts
PROPERTIES
    NoVersionLost
    DeletionLeavesNothing
    RunFinishes
CHECK_DEADLOCK FALSE
