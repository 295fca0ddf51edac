SPECIFICATION Spec
CONSTANTS
    Docs = {1}
    Calls = {c1, c2, c3}
    Kinds = {"read", "edit", "section"}
    Lens = {0, 1}
    MaxBytes = 100
    MaxUpdate = 100
    DiskErrors = FALSE
    MaxCrashes = 2
SYMMETRY Symmetry
CHECK_DEADLOCK FALSE
INVARIANTS
    EditDurable
    ReadSeesAcked
