SPECIFICATION UploadsSpec
CONSTANTS
    f1 = f1
    f2 = f2
    A = A
    B = B
    Locals = {f1, f2}
    Destinations = {A, B}
    Nothing = Nothing
    Outsets <- Small
INVARIANTS
    UploadsSafe
PROPERTIES
    TrackerSettles
CHECK_DEADLOCK FALSE
