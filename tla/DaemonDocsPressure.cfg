SPECIFICATION Spec
CONSTANTS
    Docs = {1, 2}
    Calls = {c1, c2, c3}
    Kinds = {"read", "edit", "section"}
    Lens = {1}
    MaxBytes = 2
    MaxUpdate = 100
    DiskErrors = TRUE
    MaxCrashes = 1
SYMMETRY Symmetry
CHECK_DEADLOCK FALSE
INVARIANT
    InUseStaysLoaded
