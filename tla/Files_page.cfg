SPECIFICATION Spec
CONSTANTS
    a = a
    b = b
    Names = {a, b}
    f1 = f1
    f2 = f2
    Files = {f1, f2}
    Paths <- Shallow
    Slots = {1, 2}
    Gone = Gone
    New = New
    None = None
    Starts <- Small
INVARIANTS
    MovesSafe
    InStep
CHECK_DEADLOCK FALSE
