SPECIFICATION Spec
CONSTANTS
    Docs = {1}
    Calls = {c1, c2}
    Kinds = {"read", "edit", "section"}
    Lens = {1}
    MaxBytes = 100
    MaxUpdate = 100
    DiskErrors = FALSE
    MaxCrashes = 1
SYMMETRY Symmetry
CHECK_DEADLOCK FALSE
INVARIANT
    AckedDurable
