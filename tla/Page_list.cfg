SPECIFICATION LiveSpec
CONSTANTS
    r1 = r1
    r2 = r2
    p1 = p1
    p2 = p2
    c1 = c1
    None = None
    Runs = {r1, r2}
    Old = {r2}
    Polls = {p1}
    Calls = {c1}
    Filters = {"all", "completed"}
    Opening = {"running", "completed"}
    MaxChanges = 1
    MaxFaults = 1
INVARIANTS
    PageCoherent
PROPERTIES
    LinkedRunStays
    ListFollowsService
    ResultAppears
CHECK_DEADLOCK FALSE
