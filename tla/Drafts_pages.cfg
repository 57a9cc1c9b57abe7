SPECIFICATION DraftsSpec
CONSTANTS
    r1 = r1
    r2 = r2
    s1 = s1
    s2 = s2
    None = None
    Runs = {r1, r2}
    MaxPages = 2
    MaxEdits = 2
    MaxAi = 1
    Saves = {s1, s2}
SYMMETRY Symmetry
INVARIANTS
    DraftsSafe
PROPERTIES
    CancelledNeverApplied
CHECK_DEADLOCK FALSE
